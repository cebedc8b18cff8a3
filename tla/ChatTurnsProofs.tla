-------------------------- MODULE ChatTurnsProofs --------------------------
(***************************************************************************)
(* ChatTurns for every set of requests and all limits: the counter of a    *)
(* process is never above the handlers at work, and the cached history is  *)
(* whole between turns.                                                    *)
(***************************************************************************)
EXTENDS ChatTurns, FiniteSetTheorems, TLAPS

Counted == {t \in Turns : Running(t) /\ kind[t] # "stream"}

(* Only turns of the conversation load, answer and store.                    *)
TurnInv ==
    \A t \in Turns : at[t] \in {"load", "fetch", "fill", "answer", "insert", "save",
                                "forget", "commit"} => kind[t] # "single"

(* A turn that has met no other is alone, and so what it read is what is     *)
(* stored.                                                                   *)
AloneInv ==
    /\ \A s, t \in Turns : InConversation(s) /\ InConversation(t) /\ s # t
                              => s \in met /\ t \in met
    /\ \A t \in Turns : at[t] = "fill" /\ t \notin met => seen[t] = stored

(* A plain turn that is about to commit has emptied the cache.  A history in *)
(* the cache that is not the stored one is going to be forgotten by the      *)
(* streamed turn that has just committed.                                    *)
CacheInv ==
    ~excused =>
      /\ \A t \in Turns : at[t] = "commit" /\ kind[t] = "plain" => cached = Cold
      /\ \/ cached \in {Cold, Warm(stored)}
         \/ \E t \in Turns : at[t] = "forget" /\ kind[t] = "stream"

TurnsInv == TypeOK /\ NeverOverstated /\ TurnInv /\ AloneInv /\ CacheInv

-----------------------------------------------------------------------------
(* The limits are numbers, and a counter that is released stays one.         *)
LEMMA LimitsAreNumbers == MaxActive \in Nat /\ MaxRequests \in Nat /\ IsFiniteSet(Turns)
BY TurnsAssumption

(* A release takes one off, and nothing off zero.                            *)
LEMMA ReleasedIsLess ==
    ASSUME NEW max \in Nat, NEW n \in 0..max
    PROVE  Released(n) \in 0..max /\ Released(n) <= n /\ (n # 0 => Released(n) = n - 1)
BY DEF Released

(* The requests at work are counted by a number.                             *)
LEMMA CountedIsFinite == IsFiniteSet(Counted) /\ Cardinality(Counted) \in Nat
<1>1. Counted \in SUBSET Turns  BY DEF Counted
<1> QED  BY <1>1, FS_Subset, FS_CardinalityType, LimitsAreNumbers

(* Both counters stay below the requests at work: one that ends leaves them, *)
(* if it was among them, and takes one off each counter it may still be in.  *)
LEMMA OneLess ==
    ASSUME TypeOK, NeverOverstated, NEW t \in Turns,
           Counted' = Counted \ {t}, counter' = Released(counter),
           active' = IF t \in Counted THEN Released(active) ELSE active
    PROVE  NeverOverstated'
<1>1. /\ counter \in Nat /\ counter <= Cardinality(Counted)
      /\ active \in Nat /\ active <= Cardinality(Counted)
      /\ Cardinality(Counted) \in Nat
  BY CountedIsFinite DEF NeverOverstated, Counted, TypeOK
<1>2. \/ t \in Counted /\ Cardinality(Counted') = Cardinality(Counted) - 1
      \/ t \notin Counted /\ Counted' = Counted
  <2>1. CASE t \in Counted
    BY <2>1, CountedIsFinite, FS_RemoveElement
  <2>2. CASE t \notin Counted
    BY <2>2
  <2> QED  BY <2>1, <2>2
<1>3. counter' <= Cardinality(Counted') /\ active' <= Cardinality(Counted')
  <2>1. Cardinality(Counted') \in Nat
    BY CountedIsFinite, FS_Subset, FS_CardinalityType
  <2> QED  BY <1>1, <1>2, <2>1 DEF Released
<1> QED  BY <1>3 DEF NeverOverstated, Counted

(* All gain one.                                                             *)
LEMMA OneMore ==
    ASSUME TypeOK, NeverOverstated, NEW t \in Turns, t \notin Counted,
           Counted' = Counted \cup {t}, counter' = counter + 1, active' = active + 1
    PROVE  NeverOverstated'
<1>1. /\ counter \in Nat /\ counter <= Cardinality(Counted)
      /\ active \in Nat /\ active <= Cardinality(Counted)
  BY DEF NeverOverstated, Counted, TypeOK
<1>2. Cardinality(Counted') = Cardinality(Counted) + 1
  BY CountedIsFinite, FS_AddElement
<1>3. counter' <= Cardinality(Counted') /\ active' <= Cardinality(Counted')
  BY <1>1, <1>2, CountedIsFinite
<1> QED  BY <1>3 DEF NeverOverstated, Counted

(* None changes.                                                             *)
LEMMA NoChange ==
    ASSUME TypeOK, NeverOverstated, Counted' = Counted, counter' = counter, active' = active
    PROVE  NeverOverstated'
BY DEF NeverOverstated, Counted

-----------------------------------------------------------------------------
(* No request, no history.                                                   *)
LEMMA TurnsInit == Init => TurnsInv
<1> SUFFICES ASSUME Init PROVE TurnsInv
  OBVIOUS
<1>1. TypeOK
  <2>1. 0 \in 0..MaxActive /\ 0 \in 0..MaxRequests /\ 0 \in 0..MaxFaults
    BY TurnsAssumption
  <2>2. /\ at \in [Turns -> Places] /\ kind \in [Turns -> Kinds]
        /\ seen \in [Turns -> SUBSET Turns]
    BY DEF Init, Places, Kinds
  <2> QED  BY <2>1, <2>2 DEF Init, TypeOK
<1>2. NeverOverstated
  <2>1. counter = 0 /\ active = 0 /\ Cardinality(Counted) \in Nat
    BY CountedIsFinite DEF Init
  <2> QED  BY <2>1 DEF NeverOverstated, Counted
<1>3. TurnInv /\ AloneInv /\ CacheInv
  BY DEF Init, TurnInv, AloneInv, CacheInv, InConversation, Running
<1> QED  BY <1>1, <1>2, <1>3 DEF TurnsInv

(* The two refusals.                                                         *)
LEMMA RefusalKeeps ==
    ASSUME TurnsInv, NEW t \in Turns, NEW k \in Kinds, TurnAway(t, k) \/ Refuse(t, k)
    PROVE  TurnsInv'
<1>1. /\ at[t] = "idle" /\ at' = [at EXCEPT ![t] = "refused"]
      /\ kind' = [kind EXCEPT ![t] = k]
      /\ UNCHANGED <<active, seen, made, maker, stored, cached, met, excused, faults>>
  BY DEF TurnAway, Refuse, Goto, gateVars, conversationVars, cacheVars
<1>2. counter \in Nat /\ counter' = counter
  BY DEF TurnsInv, TypeOK, TurnAway, Refuse, AfterRefusal, gateVars
<1>3. at \in [Turns -> Places] /\ kind \in [Turns -> Kinds]
  BY DEF TurnsInv, TypeOK
<1>4. TypeOK'
  BY <1>1, <1>2, <1>3 DEF TurnsInv, TypeOK, Places
<1>5. NeverOverstated'
  <2>1. Counted' = Counted  BY <1>1, <1>3 DEF Counted, Running
  <2> QED  BY <1>1, <1>2, <2>1, NoChange DEF TurnsInv
<1>6. TurnInv' /\ AloneInv' /\ CacheInv'
  BY <1>1, <1>3 DEF TurnsInv, TurnInv, AloneInv, CacheInv, InConversation, Running
<1> QED  BY <1>4, <1>5, <1>6 DEF TurnsInv

(* A request is let in; one that joins others has met them.                  *)
LEMMA BeginKeeps ==
    ASSUME TurnsInv, NEW t \in Turns, NEW k \in Kinds, Begin(t, k)
    PROVE  TurnsInv'
<1>1. /\ at[t] = "idle" /\ kind' = [kind EXCEPT ![t] = k]
      /\ at' = [at EXCEPT ![t] = IF k = "single" THEN "work" ELSE "load"]
      /\ UNCHANGED <<seen, made, maker, stored, cached, excused, faults>>
      /\ k = "single" => met' = met
      /\ k # "single" => met' = IF Others(t) = {} THEN met ELSE met \cup {t} \cup Others(t)
  BY DEF Begin, Goto, conversationVars
<1>2. /\ active \in Nat /\ counter \in Nat
      /\ active + 1 <= MaxActive /\ counter + 1 <= MaxRequests
      /\ k = "stream" => active' = active /\ counter' = counter
      /\ k # "stream" => active' = active + 1 /\ counter' = counter + 1
  BY LimitsAreNumbers DEF TurnsInv, TypeOK, Begin, Refuses, Released
<1>3. at \in [Turns -> Places] /\ kind \in [Turns -> Kinds]
  BY DEF TurnsInv, TypeOK
<1>4. TypeOK'
  <2>1. active' \in 0..MaxActive /\ counter' \in 0..MaxRequests
    BY <1>2, LimitsAreNumbers DEF TurnsInv, TypeOK
  <2>2. met' \subseteq Turns
    BY <1>1 DEF TurnsInv, TypeOK, Others
  <2>3. at' \in [Turns -> Places] /\ kind' \in [Turns -> Kinds]
    BY <1>1, <1>3 DEF Places
  <2> QED  BY <1>1, <2>1, <2>2, <2>3 DEF TurnsInv, TypeOK
<1>5. NeverOverstated'
  <2>1. CASE k = "stream"
    <3>1. Counted' = Counted  BY <1>1, <1>3, <2>1 DEF Counted, Running
    <3> QED  BY <1>2, <2>1, <3>1, NoChange DEF TurnsInv
  <2>2. CASE k # "stream"
    <3>1. Counted' = Counted \cup {t} /\ t \notin Counted
      BY <1>1, <1>3, <2>2 DEF Counted, Running
    <3> QED  BY <1>2, <2>2, <3>1, OneMore DEF TurnsInv
  <2> QED  BY <2>1, <2>2
<1>6. TurnInv'
  BY <1>1, <1>3 DEF TurnsInv, TurnInv
<1>7. AloneInv'
  <2>1. met \subseteq met'
    BY <1>1
  <2>2. ASSUME NEW s \in Turns, s # t, InConversation(s)', InConversation(t)'
        PROVE  s \in met' /\ t \in met'
    BY <1>1, <1>3, <2>2 DEF InConversation, Running, Others
  <2>3. \A s \in Turns : s # t => (InConversation(s)' <=> InConversation(s))
    BY <1>1, <1>3 DEF InConversation, Running
  <2>4. \A s, r \in Turns : InConversation(s)' /\ InConversation(r)' /\ s # r
                              => s \in met' /\ r \in met'
    BY <2>1, <2>2, <2>3 DEF TurnsInv, AloneInv
  <2>5. \A s \in Turns : at'[s] = "fill" /\ s \notin met' => seen'[s] = stored'
    BY <1>1, <1>3, <2>1 DEF TurnsInv, AloneInv
  <2> QED  BY <2>4, <2>5 DEF AloneInv
<1>8. CacheInv'
  BY <1>1, <1>3 DEF TurnsInv, CacheInv
<1> QED  BY <1>4, <1>5, <1>6, <1>7, <1>8 DEF TurnsInv

-----------------------------------------------------------------------------
(* What a turn leaves true that goes from one await to the next.             *)
LEMMA TurnMoves ==
    ASSUME TurnsInv, NEW t \in Turns, NEW p \in Places, Running(t),
           p \notin {"idle", "refused", "ended", "work"}, kind[t] # "single",
           at' = [at EXCEPT ![t] = p], UNCHANGED <<active, counter, kind, met>>
    PROVE  /\ NeverOverstated' /\ TurnInv'
           /\ at' \in [Turns -> Places]
           /\ \A s, r \in Turns : InConversation(s)' /\ InConversation(r)' /\ s # r
                                     => s \in met' /\ r \in met'
<1>1. at \in [Turns -> Places]
  BY DEF TurnsInv, TypeOK
<1>2. Counted' = Counted
  BY <1>1 DEF Counted, Running
<1>3. NeverOverstated'
  BY <1>2, NoChange DEF TurnsInv
<1>4. TurnInv'
  BY <1>1 DEF TurnsInv, TurnInv
<1>5. \A s \in Turns : InConversation(s)' <=> InConversation(s)
  BY <1>1 DEF InConversation, Running
<1>6. \A s, r \in Turns : InConversation(s)' /\ InConversation(r)' /\ s # r
                             => s \in met' /\ r \in met'
  BY <1>5 DEF TurnsInv, AloneInv
<1> QED  BY <1>1, <1>3, <1>4, <1>6

(* What a request leaves true that ends, whatever it does to the cache.      *)
LEMMA EndMoves ==
    ASSUME TurnsInv, NEW t \in Turns, Running(t), End(t), UNCHANGED met
    PROVE  /\ active' \in 0..MaxActive /\ counter' \in 0..MaxRequests
           /\ at' = [at EXCEPT ![t] = "ended"] /\ at' \in [Turns -> Places]
           /\ seen' = [seen EXCEPT ![t] = {}] /\ seen' \in [Turns -> SUBSET Turns]
           /\ kind' = kind
           /\ maker' \in Turns \cup {NoTurn}
           /\ NeverOverstated' /\ TurnInv'
           /\ \A s, r \in Turns : InConversation(s)' /\ InConversation(r)' /\ s # r
                                     => s \in met' /\ r \in met'
<1>1. /\ at \in [Turns -> Places] /\ seen \in [Turns -> SUBSET Turns]
      /\ maker \in Turns \cup {NoTurn}
      /\ active \in 0..MaxActive /\ counter \in 0..MaxRequests
  BY DEF TurnsInv, TypeOK
<1>2. /\ at' = [at EXCEPT ![t] = "ended"] /\ seen' = [seen EXCEPT ![t] = {}]
      /\ kind' = kind /\ counter' = Released(counter)
      /\ active' \in {active, Released(active)}
      /\ maker' \in {maker, NoTurn}
  BY DEF End, Goto
<1>3. active' \in 0..MaxActive /\ counter' \in 0..MaxRequests
  BY <1>1, <1>2, ReleasedIsLess, LimitsAreNumbers
<1>4. NeverOverstated'
  <2>1. Counted' = Counted \ {t}
    BY <1>1, <1>2 DEF Counted, Running
  <2>2. active' = IF t \in Counted THEN Released(active) ELSE active
    BY DEF End, Counted
  <2> QED  BY <1>2, <2>1, <2>2, OneLess DEF TurnsInv
<1>5. TurnInv'
  BY <1>1, <1>2 DEF TurnsInv, TurnInv
<1>6. \A s \in Turns : InConversation(s)' => InConversation(s)
  BY <1>1, <1>2 DEF InConversation, Running
<1>7. \A s, r \in Turns : InConversation(s)' /\ InConversation(r)' /\ s # r
                             => s \in met' /\ r \in met'
  BY <1>6 DEF TurnsInv, AloneInv
<1>8. at' \in [Turns -> Places] /\ seen' \in [Turns -> SUBSET Turns]
  BY <1>1, <1>2 DEF Places
<1> QED  BY <1>1, <1>2, <1>3, <1>4, <1>5, <1>7, <1>8

-----------------------------------------------------------------------------
(* A cached history has a type, and is not the absence of one.               *)
LEMMA WarmIsTyped ==
    ASSUME NEW h \in SUBSET Turns
    PROVE  Warm(h) \in [cold : {FALSE}, turns : SUBSET Turns]
BY DEF Warm

(* The failing calls to Redis stay within their bound.                       *)
LEMMA FaultIsCounted ==
    ASSUME TypeOK, Fault \/ UNCHANGED faults
    PROVE  faults' \in 0..MaxFaults
BY TurnsAssumption DEF TypeOK, Fault

(* Steps of a turn that neither touch the cache nor store anything.          *)
LEMMA QuietKeeps ==
    ASSUME TurnsInv, NEW t \in Turns,
           LoadCached(t) \/ FetchHistory(t) \/ LookForConversation(t)
              \/ SaveMessages(t) \/ (InsertConversation(t) /\ ~made)
    PROVE  TurnsInv'
<1>1. /\ UNCHANGED <<active, counter, kind, made, stored, cached, met, excused>>
      /\ Running(t) /\ kind[t] # "single"
      /\ Fault \/ UNCHANGED faults
      /\ maker' \in {maker, t}
  BY DEF LoadCached, FetchHistory, LookForConversation, SaveMessages, InsertConversation,
         gateVars, conversationVars, cacheVars, Running, TurnsInv, TurnInv
<1>2. PICK p \in Places : at' = [at EXCEPT ![t] = p]
  BY DEF LoadCached, FetchHistory, LookForConversation, SaveMessages, InsertConversation,
         Goto, Places
<1>3. /\ p \in {"fetch", "answer", "fill", "insert", "save", "forget", "commit"}
      /\ p = "commit" => kind[t] # "plain"
      /\ p = "fill" => seen' = [seen EXCEPT ![t] = stored]
      /\ p # "fill" => seen' = seen
      /\ at[t] \notin {"forget", "commit"}
  BY <1>2 DEF LoadCached, FetchHistory, LookForConversation, SaveMessages,
         InsertConversation, Goto, TurnsInv, TypeOK
<1>4. /\ at \in [Turns -> Places] /\ seen \in [Turns -> SUBSET Turns]
      /\ stored \in SUBSET Turns /\ maker' \in Turns \cup {NoTurn}
  BY <1>1 DEF TurnsInv, TypeOK
<1>5. /\ NeverOverstated' /\ TurnInv' /\ at' \in [Turns -> Places]
      /\ \A s, r \in Turns : InConversation(s)' /\ InConversation(r)' /\ s # r
                                => s \in met' /\ r \in met'
  <2>1. p \notin {"idle", "refused", "ended", "work"}  BY <1>3
  <2>2. UNCHANGED <<active, counter, kind, met>>  BY <1>1
  <2> QED  BY <1>1, <1>2, <2>1, <2>2, TurnMoves
<1>6. TypeOK'
  <2>1. seen' \in [Turns -> SUBSET Turns]  BY <1>3, <1>4
  <2>2. faults' \in 0..MaxFaults  BY <1>1, FaultIsCounted DEF TurnsInv
  <2> QED  BY <1>1, <1>4, <1>5, <2>1, <2>2 DEF TurnsInv, TypeOK
<1>7. AloneInv'
  <2>1. \A s \in Turns : at'[s] = "fill" /\ s \notin met => seen'[s] = stored
    BY <1>2, <1>3, <1>4 DEF TurnsInv, AloneInv
  <2> QED  BY <1>1, <1>5, <2>1 DEF AloneInv
<1>8. CacheInv'
  BY <1>1, <1>2, <1>3, <1>4 DEF TurnsInv, CacheInv
<1> QED  BY <1>5, <1>6, <1>7, <1>8 DEF TurnsInv

(* A turn caches what it read: the stored history, if it has met no other.   *)
LEMMA FillCacheKeeps ==
    ASSUME TurnsInv, NEW t \in Turns, FillCache(t)
    PROVE  TurnsInv'
<1>1. /\ at[t] = "fill" /\ at' = [at EXCEPT ![t] = "answer"]
      /\ seen' = [seen EXCEPT ![t] = {}]
      /\ UNCHANGED <<active, counter, kind, made, maker, stored, met>>
      /\ Fault \/ UNCHANGED faults
  BY DEF FillCache, Goto, gateVars, conversationVars
<1>2. /\ at \in [Turns -> Places] /\ seen \in [Turns -> SUBSET Turns]
      /\ kind[t] # "single" /\ InConversation(t) /\ Running(t)
  BY <1>1 DEF TurnsInv, TypeOK, TurnInv, InConversation, Running
<1>3. /\ NeverOverstated' /\ TurnInv' /\ at' \in [Turns -> Places]
      /\ \A s, r \in Turns : InConversation(s)' /\ InConversation(r)' /\ s # r
                                => s \in met' /\ r \in met'
  BY <1>1, <1>2, TurnMoves DEF Places
<1>4. AloneInv'
  BY <1>1, <1>2, <1>3 DEF TurnsInv, AloneInv
<1>5. CASE cached' = Warm(seen[t]) /\ excused' = (t \in met)
  <2>1. TypeOK'
    <3>1. cached' \in [cold : {FALSE}, turns : SUBSET Turns]
      BY <1>2, <1>5, WarmIsTyped
    <3>2. excused' \in BOOLEAN /\ seen' \in [Turns -> SUBSET Turns]
      BY <1>1, <1>2, <1>5
    <3>3. faults' \in 0..MaxFaults  BY <1>1, FaultIsCounted DEF TurnsInv
    <3> QED  BY <1>1, <1>3, <3>1, <3>2, <3>3 DEF TurnsInv, TypeOK
  <2>2. CacheInv'
    <3>1. SUFFICES ASSUME ~excused' PROVE CacheInv'
      BY DEF CacheInv
    <3>2. t \notin met /\ cached' = Warm(stored)
      BY <1>1, <1>5, <3>1 DEF TurnsInv, AloneInv
    <3>3. \A s \in Turns : at[s] # "commit"
      BY <1>1, <1>2, <3>2 DEF TurnsInv, AloneInv, TurnInv, InConversation, Running
    <3>4. \A s \in Turns : at'[s] # "commit"
      BY <1>1, <1>2, <3>3
    <3> QED  BY <1>1, <3>2, <3>4 DEF CacheInv
  <2> QED  BY <1>3, <1>4, <2>1, <2>2 DEF TurnsInv
<1>6. CASE UNCHANGED <<cached, excused>>
  <2>1. TypeOK'
    <3>1. seen' \in [Turns -> SUBSET Turns]  BY <1>1, <1>2
    <3>2. faults' \in 0..MaxFaults  BY <1>1, FaultIsCounted DEF TurnsInv
    <3> QED  BY <1>1, <1>3, <1>6, <3>1, <3>2 DEF TurnsInv, TypeOK
  <2>2. CacheInv'
    BY <1>1, <1>2, <1>6 DEF TurnsInv, CacheInv
  <2> QED  BY <1>3, <1>4, <2>1, <2>2 DEF TurnsInv
<1> QED  BY <1>5, <1>6 DEF FillCache

(* Steps of a request that end it and leave conversation and cache alone.    *)
LEMMA EndKeeps ==
    ASSUME TurnsInv, NEW t \in Turns,
           Finish(t) \/ GiveUp(t) \/ (InsertConversation(t) /\ made)
    PROVE  TurnsInv'
<1>1. /\ Running(t) /\ End(t) /\ UNCHANGED <<made, stored, cached, met, faults>>
      /\ excused' \in BOOLEAN
      /\ excused => excused'
      /\ at[t] = "forget" /\ kind[t] = "stream" => excused'
  BY DEF Finish, GiveUp, InsertConversation, Running, cacheVars, TurnsInv, TypeOK
<1>2. /\ active' \in 0..MaxActive /\ counter' \in 0..MaxRequests
      /\ at' = [at EXCEPT ![t] = "ended"] /\ at' \in [Turns -> Places]
      /\ seen' = [seen EXCEPT ![t] = {}] /\ seen' \in [Turns -> SUBSET Turns]
      /\ kind' = kind
      /\ maker' \in Turns \cup {NoTurn}
      /\ NeverOverstated' /\ TurnInv'
      /\ \A s, r \in Turns : InConversation(s)' /\ InConversation(r)' /\ s # r
                                => s \in met' /\ r \in met'
  BY <1>1, EndMoves
<1>3. TypeOK'
  <2>1. excused' \in BOOLEAN  BY <1>1
  <2>2. kind' \in [Turns -> Kinds]  BY <1>2 DEF TurnsInv, TypeOK
  <2> QED  BY <1>1, <1>2, <2>1, <2>2 DEF TurnsInv, TypeOK
<1>4. AloneInv'
  BY <1>1, <1>2 DEF TurnsInv, TypeOK, AloneInv
<1>5. CacheInv'
  <2>1. SUFFICES ASSUME ~excused' PROVE CacheInv'
    BY DEF CacheInv
  <2>2. ~excused /\ ~(at[t] = "forget" /\ kind[t] = "stream")
    BY <1>1, <2>1
  <2>3. at \in [Turns -> Places]
    BY DEF TurnsInv, TypeOK
  <2>4. \A s \in Turns : at'[s] = "commit" /\ kind'[s] = "plain" => cached' = Cold
    BY <1>1, <1>2, <2>2, <2>3 DEF TurnsInv, CacheInv
  <2>5. cached' \in {Cold, Warm(stored')}
           \/ \E s \in Turns : at'[s] = "forget" /\ kind'[s] = "stream"
    BY <1>1, <1>2, <2>2, <2>3 DEF TurnsInv, CacheInv
  <2> QED  BY <2>4, <2>5 DEF CacheInv
<1> QED  BY <1>2, <1>3, <1>4, <1>5 DEF TurnsInv

(* The reader has left before the generator began.                           *)
LEMMA LeaveUnreadKeeps ==
    ASSUME TurnsInv, NEW t \in Turns, LeaveUnread(t)
    PROVE  TurnsInv'
<1>1. /\ at[t] = "load" /\ kind[t] = "stream" /\ at' = [at EXCEPT ![t] = "ended"]
      /\ UNCHANGED <<active, counter, kind, seen, made, maker, stored, cached, met,
                     excused, faults>>
  BY DEF LeaveUnread, Goto, gateVars, conversationVars, cacheVars
<1>2. at \in [Turns -> Places]
  BY DEF TurnsInv, TypeOK
<1>3. TypeOK'
  BY <1>1, <1>2 DEF TurnsInv, TypeOK, Places
<1>4. NeverOverstated'
  <2>1. Counted' = Counted  BY <1>1, <1>2 DEF Counted, Running
  <2> QED  BY <1>1, <2>1, NoChange DEF TurnsInv
<1>5. TurnInv' /\ AloneInv' /\ CacheInv'
  BY <1>1, <1>2 DEF TurnsInv, TurnInv, AloneInv, CacheInv, InConversation, Running
<1> QED  BY <1>3, <1>4, <1>5 DEF TurnsInv

(* The cache is emptied, or the loss of that is excused.                     *)
LEMMA ForgetHistoryKeeps ==
    ASSUME TurnsInv, NEW t \in Turns, ForgetHistory(t)
    PROVE  TurnsInv'
<1>1. /\ at[t] = "forget" /\ UNCHANGED <<made, stored, met>>
      /\ Fault \/ UNCHANGED faults
      /\ excused' \in BOOLEAN
      /\ \/ cached' = Cold /\ excused' = FALSE
         \/ cached' = cached /\ excused' = TRUE
  BY DEF ForgetHistory, Forgotten
<1>2. /\ at \in [Turns -> Places] /\ seen \in [Turns -> SUBSET Turns]
      /\ kind[t] # "single" /\ Running(t)
  BY <1>1 DEF TurnsInv, TypeOK, TurnInv, Running
<1>3. faults' \in 0..MaxFaults
  BY <1>1, FaultIsCounted DEF TurnsInv
<1>4. CacheInv'
  BY <1>1 DEF CacheInv
<1>5. CASE kind[t] = "plain"
  <2>1. at' = [at EXCEPT ![t] = "commit"] /\ UNCHANGED <<active, counter, kind, seen, maker>>
    BY <1>5 DEF ForgetHistory, Goto, gateVars
  <2>2. /\ NeverOverstated' /\ TurnInv' /\ at' \in [Turns -> Places]
        /\ \A s, r \in Turns : InConversation(s)' /\ InConversation(r)' /\ s # r
                                  => s \in met' /\ r \in met'
    BY <1>1, <1>2, <2>1, TurnMoves DEF Places
  <2>3. TypeOK'
    BY <1>1, <1>3, <2>1, <2>2 DEF TurnsInv, TypeOK
  <2>4. AloneInv'
    BY <1>1, <1>2, <2>1, <2>2 DEF TurnsInv, AloneInv
  <2> QED  BY <1>4, <2>2, <2>3, <2>4 DEF TurnsInv
<1>6. CASE kind[t] # "plain"
  <2>1. End(t)
    BY <1>6 DEF ForgetHistory
  <2>2. /\ active' \in 0..MaxActive /\ counter' \in 0..MaxRequests
        /\ at' = [at EXCEPT ![t] = "ended"] /\ at' \in [Turns -> Places]
        /\ seen' = [seen EXCEPT ![t] = {}] /\ seen' \in [Turns -> SUBSET Turns]
        /\ kind' = kind
        /\ maker' \in Turns \cup {NoTurn}
        /\ NeverOverstated' /\ TurnInv'
        /\ \A s, r \in Turns : InConversation(s)' /\ InConversation(r)' /\ s # r
                                  => s \in met' /\ r \in met'
    BY <1>1, <1>2, <2>1, EndMoves
  <2>3. TypeOK'
    BY <1>1, <1>3, <2>2 DEF TurnsInv, TypeOK
  <2>4. AloneInv'
    BY <1>1, <1>2, <2>2 DEF TurnsInv, AloneInv
  <2> QED  BY <1>4, <2>2, <2>3, <2>4 DEF TurnsInv
<1> QED  BY <1>5, <1>6

(* A plain turn commits with the cache empty, or excused; a streamed one is  *)
(* going to empty it.  Whoever is about to fill the cache has met it.        *)
LEMMA CommitKeeps ==
    ASSUME TurnsInv, NEW t \in Turns, Commit(t)
    PROVE  TurnsInv'
<1>1. /\ at[t] = "commit" /\ made' = TRUE /\ stored' = stored \cup {t}
      /\ UNCHANGED <<cached, met, excused, faults>>
  BY DEF Commit, cacheVars
<1>2. /\ at \in [Turns -> Places] /\ seen \in [Turns -> SUBSET Turns]
      /\ kind \in [Turns -> Kinds] /\ maker \in Turns \cup {NoTurn}
      /\ kind[t] # "single" /\ Running(t) /\ InConversation(t)
  BY <1>1 DEF TurnsInv, TypeOK, TurnInv, Running, InConversation
<1>3. \A s \in Turns : at[s] = "fill" => s \in met
  BY <1>1, <1>2 DEF TurnsInv, AloneInv, TurnInv, InConversation, Running
<1>4. CASE kind[t] = "plain"
  <2>1. End(t)
    BY <1>4 DEF Commit
  <2>2. /\ active' \in 0..MaxActive /\ counter' \in 0..MaxRequests
        /\ at' = [at EXCEPT ![t] = "ended"] /\ at' \in [Turns -> Places]
        /\ seen' = [seen EXCEPT ![t] = {}] /\ seen' \in [Turns -> SUBSET Turns]
        /\ kind' = kind
        /\ maker' \in Turns \cup {NoTurn}
        /\ NeverOverstated' /\ TurnInv'
        /\ \A s, r \in Turns : InConversation(s)' /\ InConversation(r)' /\ s # r
                                  => s \in met' /\ r \in met'
    BY <1>1, <1>2, <2>1, EndMoves
  <2>3. TypeOK'
    BY <1>1, <2>2 DEF TurnsInv, TypeOK
  <2>4. AloneInv'
    BY <1>1, <1>2, <1>3, <2>2 DEF AloneInv
  <2>5. CacheInv'
    BY <1>1, <1>2, <1>4, <2>2 DEF TurnsInv, CacheInv
  <2> QED  BY <2>2, <2>3, <2>4, <2>5 DEF TurnsInv
<1>5. CASE kind[t] # "plain"
  <2>1. /\ at' = [at EXCEPT ![t] = "forget"] /\ maker' \in {maker, NoTurn}
        /\ UNCHANGED <<active, counter, kind, seen>>
    BY <1>5 DEF Commit, Goto, gateVars
  <2>2. /\ NeverOverstated' /\ TurnInv' /\ at' \in [Turns -> Places]
        /\ \A s, r \in Turns : InConversation(s)' /\ InConversation(r)' /\ s # r
                                  => s \in met' /\ r \in met'
    BY <1>1, <1>2, <2>1, TurnMoves DEF Places
  <2>3. TypeOK'
    BY <1>1, <1>2, <2>1, <2>2 DEF TurnsInv, TypeOK
  <2>4. AloneInv'
    BY <1>1, <1>2, <1>3, <2>1, <2>2 DEF AloneInv
  <2>5. CacheInv'
    <3>1. kind'[t] = "stream" /\ at'[t] = "forget"
      BY <1>2, <1>5, <2>1 DEF Kinds
    <3>2. \A s \in Turns : at'[s] = "commit" => at[s] = "commit"
      BY <1>2, <2>1
    <3> QED  BY <1>1, <2>1, <3>1, <3>2 DEF TurnsInv, CacheInv
  <2> QED  BY <2>2, <2>3, <2>4, <2>5 DEF TurnsInv
<1> QED  BY <1>4, <1>5

(* An expired history is one that is not there.                              *)
LEMMA ExpireHistoryKeeps ==
    ASSUME TurnsInv, ExpireHistory
    PROVE  TurnsInv'
<1>1. /\ cached' = Cold /\ excused' = FALSE
      /\ UNCHANGED <<active, counter, at, kind, seen, made, maker, stored, met, faults>>
  BY DEF ExpireHistory, requestVars, gateVars, conversationVars
<1>2. TypeOK' /\ TurnInv' /\ AloneInv' /\ CacheInv'
  BY <1>1 DEF TurnsInv, TypeOK, TurnInv, AloneInv, CacheInv, InConversation, Running
<1>3. NeverOverstated'
  BY <1>1, NoChange DEF TurnsInv, Counted, Running
<1> QED  BY <1>2, <1>3 DEF TurnsInv

-----------------------------------------------------------------------------
(* Every step keeps the invariant.                                           *)
LEMMA TurnsNext == TurnsInv /\ [Next]_vars => TurnsInv'
<1> SUFFICES ASSUME TurnsInv, [Next]_vars PROVE TurnsInv'
  OBVIOUS
<1>1. ASSUME NEW t \in Turns, Turn(t) PROVE TurnsInv'
  <2>1. CASE LoadCached(t) \/ FetchHistory(t) \/ LookForConversation(t) \/ SaveMessages(t)
    BY <2>1, QuietKeeps
  <2>2. CASE InsertConversation(t)
    BY <2>2, QuietKeeps, EndKeeps
  <2>3. CASE Finish(t) \/ GiveUp(t)
    BY <2>3, EndKeeps
  <2>4. CASE FillCache(t) \/ ForgetHistory(t) \/ Commit(t) \/ LeaveUnread(t)
    BY <2>4, FillCacheKeeps, ForgetHistoryKeeps, CommitKeeps, LeaveUnreadKeeps
  <2> QED  BY <1>1, <2>1, <2>2, <2>3, <2>4 DEF Turn
<1>2. ASSUME NEW t \in Turns, NEW k \in Kinds, TurnAway(t, k) \/ Refuse(t, k) \/ Begin(t, k)
      PROVE  TurnsInv'
  BY <1>2, RefusalKeeps, BeginKeeps
<1>3. CASE UNCHANGED vars
  <2>1. UNCHANGED <<active, counter, at, kind, seen, made, maker, stored, cached, met,
                    excused, faults>>
    BY <1>3 DEF vars, requestVars, gateVars, conversationVars, cacheVars
  <2>2. TypeOK' /\ TurnInv' /\ AloneInv' /\ CacheInv'
    BY <2>1 DEF TurnsInv, TypeOK, TurnInv, AloneInv, CacheInv, InConversation, Running
  <2>3. NeverOverstated'
    BY <2>1, NoChange DEF TurnsInv, Counted, Running
  <2> QED  BY <2>2, <2>3 DEF TurnsInv
<1> QED  BY <1>1, <1>2, <1>3, ExpireHistoryKeeps DEF Next

(* The invariant holds of the specification.                                 *)
LEMMA TurnsInvariant == Spec => []TurnsInv
BY TurnsInit, TurnsNext, PTL DEF Spec

(* Every variable keeps its type; in particular the two counters of          *)
(* concurrent requests stay within their limits.                             *)
THEOREM TurnsTypeCorrect == Spec => []TypeOK
<1>1. TurnsInv => TypeOK  BY DEF TurnsInv
<1> QED  BY <1>1, TurnsInvariant, PTL

(* Whatever refusals, timeouts, disconnections and double releases there     *)
(* were, _request_counter is not above the handlers at work.                 *)
THEOREM CounterIsNotLeaked == Spec => []NeverOverstated
<1>1. TurnsInv => NeverOverstated  BY DEF TurnsInv
<1> QED  BY <1>1, TurnsInvariant, PTL

(* When no turn is in progress, the history in Redis is the one in the       *)
(* database, unless one of the named faults or overlaps came before.         *)
THEOREM NextTurnSeesAll == Spec => []HistoryIsWhole
<1>1. TurnsInv => HistoryIsWhole
  BY DEF TurnsInv, CacheInv, HistoryIsWhole, InConversation, Running
<1> QED  BY <1>1, TurnsInvariant, PTL
=============================================================================
