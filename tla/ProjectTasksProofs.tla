------------------------- MODULE ProjectTasksProofs -------------------------
(***************************************************************************)
(* ProjectTasks for every set of tasks and requests: what a deletion       *)
(* leaves behind and which cycles a dependency cannot close, as long as    *)
(* requests do not overlap, and what can bring a deleted row back when     *)
(* they do.                                                                *)
(***************************************************************************)
EXTENDS ProjectTasks, WellFoundedInduction, TLAPS

CreateReqs == [pc : {"createCheck", "createInsert"}, task : Tasks \cup {NoTask}]
SaveReqs   == [pc : {"editSave", "moveSave", "deleteSave"}, task : Things]
LinkReqs   == [pc : {"linkTarget", "linkCheck", "linkInsert", "unlink"},
               task : Tasks, target : Tasks]
Reqs       == {Idle} \cup CreateReqs \cup SaveReqs \cup LinkReqs

(* The rows a request names exist, once it has looked for them.              *)
Known(r) ==
    /\ r.pc = "createInsert" => r.task \in created \cup {NoTask}
    /\ r.pc \in {"editSave", "moveSave", "deleteSave"} => r.task \in created \cup {Project}
    /\ r.pc \in {"linkTarget", "linkCheck", "linkInsert", "unlink"} => r.task \in created
    /\ r.pc \in {"linkCheck", "linkInsert"} => r.target \in created

(* A walk of n dependencies; a task that one leads back to; a way between    *)
(* tasks that the search of LinkCheck would find.                            *)
Walk(w, n, L)  == w \in [0 .. n -> Tasks] /\ \A i \in 1 .. n : <<w[i - 1], w[i]>> \in L
ShortCycle(L)  == \E n \in 1 .. MaxDepth + 1 :
                     \E w \in [0 .. n -> Tasks] : Walk(w, n, L) /\ w[0] = w[n]
WayWithin(n, t, u) == \E k \in 0 .. n : \E w \in [0 .. k -> Tasks] :
                         Walk(w, k, links) /\ w[0] = t /\ w[k] = u

(* What a request has read is still so.                                      *)
AsRead(r) ==
    /\ r.pc \in {"createCheck", "createInsert"} => Project \notin deleted
    /\ r.pc = "createInsert" => r.task \notin deleted
    /\ r.pc = "editSave" => r.task \notin deleted
    /\ r.pc = "linkInsert" => ~WayWithin(MaxDepth, r.target, r.task)

Empty   == Project \in deleted => created \subseteq deleted
Outlive == \A t \in created \ deleted : parent[t] \in deleted => parent[parent[t]] \in deleted

RowInv ==
    /\ created \subseteq Tasks
    /\ parent \in [Tasks -> created \cup {NoTask}]
    /\ deleted \subseteq created \cup {Project}
    /\ links \subseteq created \X created
    /\ alone \in BOOLEAN
    /\ req \in [Requests -> Reqs]
    /\ \A q \in Requests : Known(req[q])

(* Without overlap, one request is in progress and what it has read holds.   *)
AloneInv ==
    alone => /\ \A p, q \in Requests : req[p] # Idle /\ req[q] # Idle => p = q
             /\ \A q \in Requests : AsRead(req[q])
             /\ Empty /\ Outlive /\ ~ShortCycle(links)

TasksInv == RowInv /\ AloneInv

-----------------------------------------------------------------------------
(* The project and the absence of a parent are not tasks.                    *)
LEMMA Apart == Project \notin Tasks /\ NoTask \notin Tasks /\ NoTask # Project
BY ProjectTasksAssumption

(* Every set of numbers that is not empty has a least one.                   *)
LEMMA LeastElement ==
    ASSUME NEW T \in SUBSET Nat, T # {}
    PROVE  \E n \in T : \A m \in T : n <= m
<1> DEFINE R == OpToRel(<, Nat)
<1>1. IsWellFoundedOn(R, Nat)
  BY NatLessThanWellFounded
<1>2. \A x, y \in Nat : x < y => <<x, y>> \in R
  BY DEF OpToRel
<1> HIDE DEF R
<1>3. PICK x \in T : \A y \in T : ~ (<<y, x>> \in R)
  BY <1>1, WFMin
<1>4. \A y \in T : x <= y
  <2> TAKE y \in T
  <2>1. x \in Nat /\ y \in Nat /\ ~(y < x)
    BY <1>2, <1>3
  <2> QED  BY <2>1
<1> QED  BY <1>4

(* The walk that goes one dependency farther.                                *)
LEMMA WalkOn ==
    ASSUME NEW k \in Nat, NEW w, Walk(w, k, links), NEW u \in Tasks, <<w[k], u>> \in links
    PROVE  \E v \in [0 .. k + 1 -> Tasks] : Walk(v, k + 1, links) /\ v[0] = w[0] /\ v[k + 1] = u
<1> DEFINE v == [i \in 0 .. k + 1 |-> IF i = k + 1 THEN u ELSE w[i]]
<1>1. v \in [0 .. k + 1 -> Tasks] /\ v[0] = w[0] /\ v[k + 1] = u
  BY DEF Walk
<1>2. \A i \in 1 .. k + 1 : <<v[i - 1], v[i]>> \in links
  BY DEF Walk
<1> HIDE DEF v
<1> QED  BY <1>1, <1>2 DEF Walk

(* What is within n dependencies of t, one more at a time.                   *)
LEMMA WithinSteps ==
    ASSUME NEW t \in Tasks, NEW n \in Nat
    PROVE  LET near(m) == {u \in Tasks : WayWithin(m, t, u)} IN
           near(n) = IF n = 0 THEN {t} ELSE near(n - 1) \cup Successors(near(n - 1))
<1> DEFINE near(m) == {u \in Tasks : WayWithin(m, t, u)}
<1>1. t \in near(0)
  <2> DEFINE w == [i \in 0 .. 0 |-> t]
  <2>1. w \in [0 .. 0 -> Tasks] /\ Walk(w, 0, links) /\ w[0] = t
    BY DEF Walk
  <2> QED  BY <2>1 DEF WayWithin
<1>2. near(0) \subseteq {t}
  BY DEF WayWithin
<1>3. CASE n # 0
  <2>1. n - 1 \in Nat /\ 0 .. n - 1 \subseteq 0 .. n /\ n \in 0 .. n
    BY <1>3
  <2>2. near(n - 1) \subseteq near(n)
    BY <2>1 DEF WayWithin
  <2>3. Successors(near(n - 1)) \subseteq near(n)
    <3>1. SUFFICES ASSUME NEW s \in near(n - 1), NEW u \in Tasks, <<s, u>> \in links
                   PROVE  WayWithin(n, t, u)
      BY DEF Successors
    <3>2. PICK k \in 0 .. n - 1 : \E w \in [0 .. k -> Tasks] :
             Walk(w, k, links) /\ w[0] = t /\ w[k] = s
      BY DEF WayWithin
    <3>3. k \in Nat /\ k + 1 \in 0 .. n
      BY <2>1
    <3>4. \E v \in [0 .. k + 1 -> Tasks] : Walk(v, k + 1, links) /\ v[0] = t /\ v[k + 1] = u
      BY <3>1, <3>2, <3>3, WalkOn
    <3> QED  BY <3>3, <3>4 DEF WayWithin
  <2>4. near(n) \subseteq near(n - 1) \cup Successors(near(n - 1))
    <3>1. SUFFICES ASSUME NEW u \in Tasks, NEW k \in 0 .. n, NEW w \in [0 .. k -> Tasks],
                          Walk(w, k, links), w[0] = t, w[k] = u, k = n
                   PROVE  u \in Successors(near(n - 1))
      BY <2>1 DEF WayWithin
    <3> DEFINE v == [i \in 0 .. n - 1 |-> w[i]]
    <3>2. Walk(v, n - 1, links) /\ v[0] = t /\ v[n - 1] = w[n - 1]
      BY <2>1, <3>1 DEF Walk
    <3>3. v \in [0 .. n - 1 -> Tasks] /\ n - 1 \in 0 .. n - 1 /\ w[n - 1] \in Tasks
      BY <2>1, <3>1 DEF Walk
    <3> HIDE DEF v
    <3>4. w[n - 1] \in near(n - 1)
      BY <3>2, <3>3 DEF WayWithin
    <3>5. <<w[n - 1], u>> \in links
      BY <1>3, <3>1 DEF Walk
    <3> QED  BY <3>4, <3>5 DEF Successors
  <2> QED  BY <1>3, <2>2, <2>3, <2>4
<1> QED  BY <1>1, <1>2, <1>3

(* The search of add_dependency visits what is at most MaxDepth dependencies *)
(* away, and nothing else.                                                   *)
LEMMA VisitedIsWithin ==
    ASSUME NEW t \in Tasks
    PROVE  Visited(t) = {u \in Tasks : WayWithin(MaxDepth, t, u)}
<1> DEFINE near[n \in Nat] == IF n = 0 THEN {t} ELSE near[n - 1] \cup Successors(near[n - 1])
           within == [n \in Nat |-> {u \in Tasks : WayWithin(n, t, u)}]
<1>1. Visited(t) = near[MaxDepth]
  BY DEF Visited
<1>2. within = [n \in Nat |-> IF n = 0 THEN {t} ELSE within[n - 1] \cup Successors(within[n - 1])]
  BY WithinSteps
<1> HIDE DEF within
<1>3. near = [n \in Nat |-> IF n = 0 THEN {t} ELSE near[n - 1] \cup Successors(near[n - 1])]
  BY <1>2
<1> HIDE DEF near
<1>4. \A n \in Nat : near[n] = within[n]
  <2> DEFINE Differ == {n \in Nat : near[n] # within[n]}
  <2>1. SUFFICES ASSUME Differ # {} PROVE FALSE
    OBVIOUS
  <2>2. PICK n \in Differ : \A m \in Differ : n <= m
    BY <2>1, LeastElement
  <2>3. n \in Nat /\ n # 0
    BY <1>2, <1>3
  <2>4. n - 1 \in Nat /\ n - 1 \notin Differ
    BY <2>2, <2>3
  <2>5. near[n - 1] = within[n - 1]
    BY <2>4
  <2>6. near[n] = near[n - 1] \cup Successors(near[n - 1])
    BY <1>3, <2>3
  <2>7. within[n] = within[n - 1] \cup Successors(within[n - 1])
    BY <1>2, <2>3
  <2>8. near[n] = within[n]
    BY <2>5, <2>6, <2>7
  <2> QED  BY <2>2, <2>8
<1> QED  BY <1>1, <1>4, ProjectTasksAssumption DEF within

(* A dependency that closes a short cycle has a way back from its target to  *)
(* its source that the search would have found.                              *)
LEMMA LinkClosesNoCycle ==
    ASSUME NEW s \in Tasks, NEW d \in Tasks,
           ~WayWithin(MaxDepth, d, s), ~ShortCycle(links)
    PROVE  ~ShortCycle(links \cup {<<s, d>>})
<1> SUFFICES ASSUME NEW n \in 1 .. MaxDepth + 1, NEW w \in [0 .. n -> Tasks],
                    Walk(w, n, links \cup {<<s, d>>}), w[0] = w[n]
             PROVE  FALSE
  BY DEF ShortCycle
<1>1. MaxDepth \in Nat /\ n \in Nat /\ n >= 1 /\ n <= MaxDepth + 1
  BY ProjectTasksAssumption
<1> DEFINE Uses == {i \in 1 .. n : <<w[i - 1], w[i]>> \notin links}
           Left == {n - i : i \in Uses}
<1>2. \A i \in Uses : w[i - 1] = s /\ w[i] = d
  BY DEF Walk
<1>3. Uses # {}
  BY DEF Walk, ShortCycle
<1>4. PICK i \in Uses : \A m \in Uses : i <= m
  <2>1. Uses \in SUBSET Nat
    OBVIOUS
  <2> HIDE DEF Uses
  <2> QED  BY <1>3, <2>1, LeastElement
<1>5. PICK l \in Left : \A m \in Left : l <= m
  <2>1. \A m \in Uses : n - m \in Nat
    BY <1>1
  <2>2. Left \in SUBSET Nat /\ Left # {}
    BY <1>3, <2>1
  <2> HIDE DEF Left
  <2> QED  BY <2>2, LeastElement
<1>6. PICK j \in Uses : l = n - j
  BY <1>5
<1>7. \A m \in Uses : m <= j
  <2> SUFFICES ASSUME NEW m \in Uses PROVE m <= j
    OBVIOUS
  <2>1. n - m \in Left /\ m \in 1 .. n /\ j \in 1 .. n
    OBVIOUS
  <2>2. n - j <= n - m
    BY <1>5, <1>6, <2>1
  <2> QED  BY <1>1, <2>1, <2>2
<1>8. /\ i \in 1 .. n /\ j \in 1 .. n
      /\ \A m \in 1 .. n : m < i \/ m > j => <<w[m - 1], w[m]>> \in links
  <2>1. \A m \in 1 .. n : m \in Uses \/ <<w[m - 1], w[m]>> \in links
    OBVIOUS
  <2> HIDE DEF Uses
  <2>2. \A m \in 1 .. n : m < i \/ m > j => m \notin Uses
    <3>1. i \in 1 .. n /\ j \in 1 .. n
      BY DEF Uses
    <3> QED  BY <1>4, <1>7, <3>1
  <2> QED  BY <2>1, <2>2 DEF Uses
<1>9. w[i - 1] = s /\ w[j] = d
  BY <1>2
<1> HIDE DEF Uses, Left
<1> DEFINE k == (n - j) + (i - 1)
           v == [m \in 0 .. k |-> IF m <= n - j THEN w[j + m] ELSE w[j + m - n]]
<1>10. k \in 0 .. MaxDepth
  <2>1. i <= j
    BY <1>4, <1>6
  <2> QED  BY <1>1, <1>8, <2>1
<1>11. v \in [0 .. k -> Tasks] /\ v[0] = d /\ v[k] = s
  <2>1. \A m \in 0 .. k : (IF m <= n - j THEN j + m ELSE j + m - n) \in 0 .. n
    BY <1>1, <1>8
  <2>2. v \in [0 .. k -> Tasks]
    BY <2>1
  <2>3. v[0] = w[j]
    BY <1>1, <1>8
  <2>4. v[k] = w[i - 1]
    <3>1. CASE i = 1
      BY <1>1, <1>8, <3>1
    <3>2. CASE i # 1
      BY <1>1, <1>8, <3>2
    <3> QED  BY <3>1, <3>2
  <2> QED  BY <1>9, <2>2, <2>3, <2>4
<1>12. \A m \in 1 .. k : <<v[m - 1], v[m]>> \in links
  <2> SUFFICES ASSUME NEW m \in 1 .. k PROVE <<v[m - 1], v[m]>> \in links
    OBVIOUS
  <2>1. CASE m <= n - j
    <3>1. v[m - 1] = w[j + m - 1] /\ v[m] = w[j + m] /\ j + m \in 1 .. n /\ j + m > j
      BY <1>1, <1>8, <2>1
    <3> QED  BY <1>8, <3>1
  <2>2. CASE m > n - j
    <3>1. v[m] = w[j + m - n] /\ j + m - n \in 1 .. n /\ j + m - n < i
      BY <1>1, <1>8, <2>2
    <3>2. v[m - 1] = w[j + m - n - 1]
      <4>1. CASE m - 1 = n - j
        <5>1. j + m - n - 1 = 0 /\ j + (m - 1) = n /\ m - 1 \in 0 .. k
          BY <1>1, <1>8, <4>1
        <5>2. v[m - 1] = w[n]
          BY <4>1, <5>1
        <5> QED  BY <5>1, <5>2
      <4>2. CASE m - 1 # n - j
        BY <1>1, <1>8, <2>2, <4>2
      <4> QED  BY <4>1, <4>2
    <3> QED  BY <1>8, <3>1, <3>2
  <2> QED  BY <1>1, <1>8, <2>1, <2>2
<1> HIDE DEF k, v
<1> QED  BY <1>10, <1>11, <1>12 DEF WayWithin, Walk

(* Without dependencies there is no cycle, and fewer do not make one.        *)
LEMMA FewerNoCycle ==
    ASSUME NEW L, NEW K, L \subseteq K, ~ShortCycle(K)
    PROVE  ~ShortCycle(L)
BY DEF ShortCycle, Walk

(* Nothing is there at first.                                                *)
LEMMA TasksInit == Init => TasksInv
<1> SUFFICES ASSUME Init PROVE TasksInv
  OBVIOUS
<1>1. RowInv
  BY DEF Init, RowInv, Reqs, Known, Idle
<1>2. AloneInv
  <2>1. ~ShortCycle({})
    BY ProjectTasksAssumption DEF ShortCycle, Walk
  <2> QED  BY <2>1 DEF Init, AloneInv, AsRead, Empty, Outlive, Idle
<1> QED  BY <1>1, <1>2 DEF TasksInv

(* The ways between tasks depend on the dependencies only.                   *)
LEMMA WayKept ==
    ASSUME NEW t, NEW u, UNCHANGED links
    PROVE  WayWithin(MaxDepth, t, u)' <=> WayWithin(MaxDepth, t, u)
BY DEF WayWithin, Walk

(* A request begins: it overlaps with another, or is the only one.           *)
LEMMA BeginKeeps ==
    ASSUME TasksInv, NEW q \in Requests, NEW r \in Reqs, Begin(q, r),
           Known(r), AsRead(r), r # Idle
    PROVE  TasksInv'
<1>1. /\ req[q] = Idle /\ req' = [req EXCEPT ![q] = r]
      /\ alone' = (alone /\ \A p \in Requests : req[p] = Idle)
      /\ UNCHANGED <<created, parent, deleted, links>>
  BY DEF Begin
<1>2. req \in [Requests -> Reqs] /\ alone \in BOOLEAN
  BY DEF TasksInv, RowInv
<1>3. RowInv'
  <2>1. alone' \in BOOLEAN  BY <1>1, <1>2
  <2>2. \A p \in Requests : Known(req[p])'
    BY <1>1, <1>2 DEF TasksInv, RowInv, Known
  <2> QED  BY <1>1, <1>2, <2>1, <2>2 DEF TasksInv, RowInv
<1>4. AloneInv'
  <2>1. SUFFICES ASSUME alone' PROVE AloneInv'
    BY DEF AloneInv
  <2>2. alone /\ \A p \in Requests : req[p] = Idle
    BY <1>1, <2>1
  <2>3. \A p \in Requests : p # q => req'[p] = Idle
    BY <1>1, <1>2, <2>2
  <2>4. \A p \in Requests : AsRead(req[p])'
    <3>1. AsRead(r)'
      BY <1>1, WayKept DEF AsRead
    <3>2. AsRead(Idle)'
      BY DEF AsRead, Idle
    <3> QED  BY <1>1, <1>2, <2>3, <3>1, <3>2
  <2>5. Empty' /\ Outlive' /\ ~ShortCycle(links')
    BY <1>1, <2>2 DEF TasksInv, AloneInv, Empty, Outlive
  <2> QED  BY <2>3, <2>4, <2>5 DEF AloneInv
<1> QED  BY <1>3, <1>4 DEF TasksInv

(* A request takes a step that writes no row, or ends.                       *)
LEMMA ReadKeeps ==
    ASSUME TasksInv, NEW q \in Requests, NEW r \in Reqs, req' = [req EXCEPT ![q] = r],
           UNCHANGED <<created, parent, deleted, links, alone>>,
           req[q] # Idle, Known(r), alone => AsRead(r)
    PROVE  TasksInv'
<1>1. req \in [Requests -> Reqs] /\ links' = links
  BY DEF TasksInv, RowInv
<1>2. RowInv'
  BY <1>1 DEF TasksInv, RowInv, Known
<1>3. AloneInv'
  <2>1. \A p \in Requests : alone => AsRead(req'[p])
    BY <1>1 DEF TasksInv, AloneInv
  <2>2. ASSUME NEW p, AsRead(p) PROVE AsRead(p)'
    BY <2>2, WayKept DEF AsRead
  <2> QED  BY <1>1, <2>1, <2>2 DEF TasksInv, AloneInv, Empty, Outlive
<1> QED  BY <1>2, <1>3 DEF TasksInv

(* A request ends with a write: without overlap, all others are idle.        *)
LEMMA WriteEnds ==
    ASSUME TasksInv, NEW q \in Requests, req[q] # Idle, End(q), UNCHANGED alone,
           created \subseteq created', created' \subseteq Tasks,
           parent' \in [Tasks -> created' \cup {NoTask}],
           deleted' \subseteq created' \cup {Project},
           links' \subseteq created' \X created',
           alone => Empty' /\ Outlive' /\ ~ShortCycle(links')
    PROVE  TasksInv'
<1>1. req \in [Requests -> Reqs] /\ req' = [req EXCEPT ![q] = Idle]
  BY DEF TasksInv, RowInv, End
<1>2. req' \in [Requests -> Reqs]
  BY <1>1 DEF Reqs
<1>3. \A p \in Requests : Known(req[p])'
  BY <1>1 DEF TasksInv, RowInv, Known, Idle
<1>4. RowInv'
  BY <1>2, <1>3 DEF TasksInv, RowInv
<1>5. AloneInv'
  <2>1. SUFFICES ASSUME alone PROVE AloneInv'
    BY DEF AloneInv
  <2>2. \A p \in Requests : req'[p] = Idle
    BY <1>1, <2>1 DEF TasksInv, AloneInv
  <2> QED  BY <2>1, <2>2 DEF AloneInv, AsRead, Idle
<1> QED  BY <1>4, <1>5 DEF TasksInv

-----------------------------------------------------------------------------
(* Every request begins with a fetch.                                        *)
LEMMA FetchKeeps ==
    ASSUME TasksInv, NEW q \in Requests,
           \/ \E p \in Tasks \cup {NoTask} : CreateFetch(q, p)
           \/ \E x \in Things : EditFetch(q, x) \/ MoveFetch(q, x) \/ DeleteFetch(q, x)
           \/ \E s, t \in Tasks : LinkFetch(q, s, t) \/ UnlinkFetch(q, s, t)
    PROVE  TasksInv'
<1>1. ASSUME NEW p \in Tasks \cup {NoTask}, CreateFetch(q, p) PROVE TasksInv'
  <2> DEFINE r == [pc |-> "createCheck", task |-> p]
  <2>1. r \in Reqs /\ r # Idle /\ Known(r) /\ AsRead(r)
    BY <1>1 DEF CreateFetch, Reqs, CreateReqs, Idle, Known, AsRead
  <2>2. Begin(q, r)  BY <1>1 DEF CreateFetch
  <2> QED  BY <2>1, <2>2, BeginKeeps
<1>2. ASSUME NEW x \in Things, NEW pc \in {"editSave", "moveSave", "deleteSave"},
             x \in (created \cup {Project}) \ deleted, Begin(q, [pc |-> pc, task |-> x])
      PROVE  TasksInv'
  <2> DEFINE r == [pc |-> pc, task |-> x]
  <2>1. r \in Reqs /\ r # Idle /\ Known(r) /\ AsRead(r)
    BY <1>2 DEF Reqs, SaveReqs, Idle, Known, AsRead
  <2> QED  BY <1>2, <2>1, BeginKeeps
<1>3. ASSUME NEW s \in Tasks, NEW t \in Tasks, NEW pc \in {"linkTarget", "unlink"},
             s \in created, Begin(q, [pc |-> pc, task |-> s, target |-> t])
      PROVE  TasksInv'
  <2> DEFINE r == [pc |-> pc, task |-> s, target |-> t]
  <2>1. r \in Reqs /\ r # Idle /\ Known(r) /\ AsRead(r)
    BY <1>3 DEF Reqs, LinkReqs, Idle, Known, AsRead
  <2> QED  BY <1>3, <2>1, BeginKeeps
<1> QED
  BY <1>1, <1>2, <1>3 DEF EditFetch, MoveFetch, DeleteFetch, LinkFetch, UnlinkFetch, Live

(* A check lets the request go on, knowing what it has found, or ends it.    *)
LEMMA CheckKeeps ==
    ASSUME TasksInv, NEW q \in Requests, CreateCheck(q) \/ LinkTarget(q) \/ LinkCheck(q)
    PROVE  TasksInv'
<1>1. /\ req \in [Requests -> Reqs] /\ req[q] # Idle
      /\ UNCHANGED <<created, parent, deleted, links, alone>>
  BY DEF TasksInv, RowInv, CreateCheck, LinkTarget, LinkCheck, Check, Idle
<1>2. CASE End(q)
  <2>1. Idle \in Reqs /\ Known(Idle) /\ AsRead(Idle)
    BY DEF Reqs, Known, AsRead, Idle
  <2> QED  BY <1>1, <1>2, <2>1, ReadKeeps DEF End
<1>3. CASE CreateCheck(q) /\ Continue(q, "createInsert")
           /\ (req[q].task = NoTask \/ Live(req[q].task))
  <2> DEFINE r == [req[q] EXCEPT !.pc = "createInsert"]
  <2>1. req[q] \in CreateReqs
    BY <1>1, <1>3 DEF CreateCheck, Reqs, CreateReqs, SaveReqs, LinkReqs, Idle
  <2>2. r \in Reqs /\ r.pc = "createInsert" /\ r.task = req[q].task
    BY <2>1 DEF Reqs, CreateReqs
  <2>3. req' = [req EXCEPT ![q] = r]
    BY <1>1, <1>3 DEF Continue
  <2> HIDE DEF r
  <2>4. NoTask \notin deleted
    BY Apart DEF TasksInv, RowInv
  <2>5. Known(r)
    BY <1>3, <2>2 DEF Known, Live
  <2>6. alone => AsRead(r)
    BY <1>3, <2>2, <2>4 DEF TasksInv, AloneInv, AsRead, CreateCheck, Live
  <2> QED  BY <1>1, <2>2, <2>3, <2>5, <2>6, ReadKeeps
<1>4. ASSUME NEW pc \in {"linkCheck", "linkInsert"}, Continue(q, pc),
             \/ req[q].pc = "linkTarget" /\ Live(req[q].target) /\ pc = "linkCheck"
             \/ req[q].pc = "linkCheck" /\ req[q].task \notin Visited(req[q].target)
      PROVE  TasksInv'
  <2> DEFINE r == [req[q] EXCEPT !.pc = pc]
  <2>1. req[q] \in LinkReqs
    BY <1>1, <1>4 DEF Reqs, CreateReqs, SaveReqs, LinkReqs, Idle
  <2>2. r \in Reqs /\ r.pc = pc /\ r.task = req[q].task /\ r.target = req[q].target
    BY <2>1 DEF Reqs, LinkReqs
  <2>3. req' = [req EXCEPT ![q] = r]
    BY <1>1, <1>4 DEF Continue
  <2> HIDE DEF r
  <2>4. Known(r)
    BY <1>4, <2>2 DEF TasksInv, RowInv, Known, Live
  <2>5. req[q].task \in Tasks /\ req[q].target \in Tasks
    BY <2>1 DEF LinkReqs
  <2>6. pc = "linkInsert" => ~WayWithin(MaxDepth, r.target, r.task)
    BY <1>4, <2>2, <2>5, VisitedIsWithin
  <2>7. AsRead(r)
    BY <2>2, <2>6 DEF AsRead
  <2> QED  BY <1>1, <2>2, <2>3, <2>4, <2>7, ReadKeeps
<1> QED  BY <1>2, <1>3, <1>4 DEF CreateCheck, LinkTarget, LinkCheck, Check

-----------------------------------------------------------------------------
(* A new task has a live parent or none, in a live project.                  *)
LEMMA InsertKeeps ==
    ASSUME TasksInv, NEW q \in Requests, CreateInsert(q)
    PROVE  TasksInv'
<1>1. PICK t \in Tasks \ created : /\ created' = created \cup {t}
                                   /\ parent' = [parent EXCEPT ![t] = req[q].task]
  BY DEF CreateInsert
<1>2. /\ req[q].pc = "createInsert" /\ req[q] # Idle
      /\ End(q) /\ UNCHANGED <<deleted, links, alone>>
      /\ req[q].task \in created \cup {NoTask}
  BY DEF CreateInsert, Idle, TasksInv, RowInv, Known
<1>3. parent' \in [Tasks -> created' \cup {NoTask}]
  BY <1>1, <1>2 DEF TasksInv, RowInv
<1>4. alone => Empty' /\ Outlive' /\ ~ShortCycle(links')
  <2>1. SUFFICES ASSUME alone PROVE Empty' /\ Outlive' /\ ~ShortCycle(links')
    OBVIOUS
  <2>2. Project \notin deleted /\ req[q].task \notin deleted
    BY <1>2, <2>1 DEF TasksInv, AloneInv, AsRead
  <2>3. \A s \in created : parent'[s] = parent[s]
    BY <1>1 DEF TasksInv, RowInv
  <2>4. \A s \in created : parent[s] \in deleted => parent[s] \in created
    BY Apart DEF TasksInv, RowInv
  <2>5. parent'[t] = req[q].task
    BY <1>1 DEF TasksInv, RowInv
  <2>6. Outlive'
    BY <1>1, <1>2, <2>1, <2>2, <2>3, <2>4, <2>5 DEF TasksInv, AloneInv, Outlive
  <2>7. ~ShortCycle(links')
    BY <1>2, <2>1 DEF TasksInv, AloneInv
  <2> QED  BY <1>2, <2>2, <2>6, <2>7 DEF Empty
<1>5. /\ created \subseteq created' /\ created' \subseteq Tasks
      /\ deleted' \subseteq created' \cup {Project}
      /\ links' \subseteq created' \X created'
  BY <1>1, <1>2 DEF TasksInv, RowInv
<1> QED  BY <1>2, <1>3, <1>4, <1>5, WriteEnds

(* An edit that overlapped with nothing revives nothing; a move never does.  *)
LEMMA SaveKeeps ==
    ASSUME TasksInv, NEW q \in Requests, EditSave(q) \/ MoveSave(q)
    PROVE  TasksInv'
<1>1. /\ req[q] # Idle /\ End(q) /\ UNCHANGED <<created, parent, links, alone>>
      /\ deleted' \in {deleted, deleted \ {req[q].task}}
  BY DEF EditSave, MoveSave, AfterMove, Idle
<1>2. alone => deleted' = deleted
  BY DEF TasksInv, AloneInv, AsRead, EditSave, MoveSave, AfterMove
<1>3. alone => Empty' /\ Outlive' /\ ~ShortCycle(links')
  BY <1>1, <1>2 DEF TasksInv, AloneInv, Empty, Outlive
<1> QED  BY <1>1, <1>3, WriteEnds DEF TasksInv, RowInv

(* A task goes with its sub-tasks, a project with its tasks.                 *)
LEMMA DeleteKeeps ==
    ASSUME TasksInv, NEW q \in Requests, DeleteSave(q)
    PROVE  TasksInv'
<1> DEFINE x == req[q].task
<1>1. /\ req[q] # Idle /\ End(q) /\ UNCHANGED <<created, parent, links, alone>>
      /\ deleted' = deleted \cup IF x = Project THEN WithProject ELSE DeletedWith(x)
      /\ x \in created \cup {Project}
  BY DEF DeleteSave, Idle, TasksInv, RowInv, Known
<1> HIDE DEF x
<1>2. deleted' \subseteq created \cup {Project}
  BY <1>1 DEF TasksInv, RowInv, WithProject, DeletedWith, Subtasks
<1>3. alone => Empty' /\ Outlive' /\ ~ShortCycle(links')
  <2>1. SUFFICES ASSUME alone PROVE Empty' /\ Outlive'
    BY <1>1 DEF TasksInv, AloneInv
  <2>2. CASE x = Project
    BY <1>1, <2>2 DEF WithProject, Empty, Outlive
  <2>3. CASE x # Project
    <3>1. x \in created /\ deleted' = deleted \cup {x} \cup Subtasks(x)
      BY <1>1, <2>3 DEF DeletedWith
    <3>2. Empty'
      BY <1>1, <2>1, <3>1, Apart DEF TasksInv, RowInv, AloneInv, Empty, Subtasks
    <3>3. Outlive'
      BY <1>1, <2>1, <3>1 DEF TasksInv, RowInv, AloneInv, Outlive, Subtasks
    <3> QED  BY <3>2, <3>3
  <2> QED  BY <2>2, <2>3
<1> QED  BY <1>1, <1>2, <1>3, WriteEnds DEF TasksInv, RowInv

(* Dependencies are between tasks that have a row.                           *)
LEMMA LinkKeeps ==
    ASSUME TasksInv, NEW q \in Requests, LinkInsert(q) \/ Unlink(q)
    PROVE  TasksInv'
<1>1. /\ req[q] # Idle /\ End(q) /\ UNCHANGED <<created, parent, deleted, alone>>
      /\ links' \subseteq created \X created
  BY DEF LinkInsert, Unlink, Idle, TasksInv, RowInv, Known
<1>2. alone => Empty' /\ Outlive'
  BY <1>1 DEF TasksInv, AloneInv, Empty, Outlive
<1>3. alone => ~ShortCycle(links')
  <2>1. SUFFICES ASSUME alone PROVE ~ShortCycle(links')
    OBVIOUS
  <2>2. ~ShortCycle(links) /\ AsRead(req[q])
    BY <2>1 DEF TasksInv, AloneInv
  <2>3. CASE LinkInsert(q)
    <3>1. req[q] \in LinkReqs
      BY <2>3 DEF LinkInsert, TasksInv, RowInv, Reqs, CreateReqs, SaveReqs, LinkReqs, Idle
    <3>2. req[q].task \in Tasks /\ req[q].target \in Tasks
      BY <3>1 DEF LinkReqs
    <3>3. ~WayWithin(MaxDepth, req[q].target, req[q].task)
      BY <2>2, <2>3 DEF LinkInsert, AsRead
    <3> QED  BY <2>2, <2>3, <3>2, <3>3, LinkClosesNoCycle DEF LinkInsert
  <2>4. CASE Unlink(q)
    BY <2>2, <2>4, FewerNoCycle DEF Unlink
  <2> QED  BY <2>3, <2>4
<1> QED  BY <1>1, <1>2, <1>3, WriteEnds DEF TasksInv, RowInv

-----------------------------------------------------------------------------
(* Every step keeps the invariant.                                           *)
LEMMA TasksNext == TasksInv /\ [Next]_vars => TasksInv'
<1> SUFFICES ASSUME TasksInv, [Next]_vars PROVE TasksInv'
  OBVIOUS
<1>1. CASE UNCHANGED vars
  <2>1. RowInv' /\ UNCHANGED <<created, parent, deleted, links, req, alone>>
    BY <1>1 DEF vars, TasksInv, RowInv, Known
  <2>2. \A q \in Requests : alone => AsRead(req[q])'
    BY <2>1, WayKept DEF TasksInv, AloneInv, AsRead
  <2> QED  BY <2>1, <2>2 DEF TasksInv, AloneInv, Empty, Outlive
<1> QED
  BY <1>1, FetchKeeps, CheckKeeps, InsertKeeps, SaveKeeps, DeleteKeeps, LinkKeeps DEF Next

(* The invariant holds of the specification.                                 *)
LEMMA TasksInvariant == Spec => []TasksInv
BY TasksInit, TasksNext, PTL DEF Spec

(* Requests and rows are of their kinds: a parent has a row, and so have the *)
(* two ends of a dependency.                                                 *)
THEOREM TasksTypeCorrect == Spec => []TypeOK
<1>1. TasksInv => TypeOK
  BY DEF TasksInv, RowInv, TypeOK, Reqs, CreateReqs, SaveReqs, LinkReqs
<1> QED  BY <1>1, TasksInvariant, PTL

(* Without overlapping requests, delete_project leaves no live task, and     *)
(* none is created in a deleted project.                                     *)
THEOREM DeletedProjectStaysEmpty == Spec => []DeadProjectIsEmpty
<1>1. TasksInv => DeadProjectIsEmpty
  BY DEF TasksInv, AloneInv, Empty, DeadProjectIsEmpty
<1> QED  BY <1>1, TasksInvariant, PTL

(* Without overlapping requests, add_dependency closes no cycle that its     *)
(* search reaches, whatever is removed and deleted in between.               *)
THEOREM NoShortCycleCloses == Spec => []NoShortCycle
<1>1. TasksInv => NoShortCycle
  BY DEF TasksInv, AloneInv, NoShortCycle, ShortCycle, Walk
<1> QED  BY <1>1, TasksInvariant, PTL

(* Without overlapping requests, only sub-tasks of sub-tasks outlive what    *)
(* they belong to.                                                           *)
THEOREM SubtasksGoAlong == Spec => []OnlyGrandchildrenOutlive
<1>1. TasksInv => OnlyGrandchildrenOutlive
  BY DEF TasksInv, AloneInv, Outlive, OnlyGrandchildrenOutlive
<1> QED  BY <1>1, TasksInvariant, PTL

(* However requests overlap, a deleted row comes back only by an edit that   *)
(* saves every field of it.                                                  *)
THEOREM RevivedByEdits == Spec => OnlyEditsRevive
<1> DEFINE Revived == \A x \in deleted \ deleted' :
                         \E q \in Requests : req[q].pc = "editSave" /\ req[q].task = x
<1>1. ASSUME NEW q \in Requests, EditSave(q) PROVE Revived
  BY <1>1 DEF EditSave
<1>2. ASSUME NEW q \in Requests,
             \/ \E p \in Tasks \cup {NoTask} : CreateFetch(q, p)
             \/ \E x \in Things : EditFetch(q, x) \/ MoveFetch(q, x) \/ DeleteFetch(q, x)
             \/ \E s, t \in Tasks : LinkFetch(q, s, t) \/ UnlinkFetch(q, s, t)
      PROVE  Revived
  BY <1>2 DEF CreateFetch, EditFetch, MoveFetch, DeleteFetch, LinkFetch, UnlinkFetch, Begin
<1>3. ASSUME NEW q \in Requests,
             \/ CreateCheck(q) \/ CreateInsert(q) \/ MoveSave(q) \/ DeleteSave(q)
             \/ LinkTarget(q) \/ LinkCheck(q) \/ LinkInsert(q) \/ Unlink(q)
      PROVE  Revived
  BY <1>3 DEF CreateCheck, CreateInsert, MoveSave, AfterMove, DeleteSave, LinkTarget,
              LinkCheck, LinkInsert, Unlink, Check
<1>4. [Next]_vars => [Revived]_vars
  BY <1>1, <1>2, <1>3 DEF Next
<1> QED  BY <1>4, PTL DEF Spec, OnlyEditsRevive
=============================================================================
