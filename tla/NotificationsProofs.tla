------------------------ MODULE NotificationsProofs ------------------------
(***************************************************************************)
(* Notifications for every number of members, workers, retries and faults: *)
(* what the broker holds stays a bag of jobs, and the copies of a          *)
(* notification are bounded by the faults.  The bound is proved by         *)
(* counting, for an event and a member, the rows there are and those that  *)
(* may still come without another fault.                                   *)
(***************************************************************************)
EXTENDS Notifications, FiniteSetTheorems, SequenceTheorems, TLAPS

Bag      == IsABag(queue) /\ BagToSet(queue) \subseteq Jobs
NowOf(w) == worker[w].pc
JobOf(w) == worker[w].job

(* Each copy of a job for m that waits in the broker, and each worker that   *)
(* has one it has not stored.                                                *)
Waiting(ev, m) == {p \in Jobs \X Nat : /\ p[1] \in DOMAIN queue
                                       /\ p[1].ev = ev /\ p[1].who = m
                                       /\ 1 <= p[2] /\ p[2] <= queue[p[1]]}
Held(ev, m)    == {w \in Workers : NowOf(w) = "taken" /\ JobOf(w).ev = ev /\ JobOf(w).who = m}

(* The request, and the consumer, will still queue one.                      *)
CoreMay(ev, m) ==
    \/ core.pc \in {"idle", "created", "published"}
    \/ core.pc = "fanout" /\ (ev = "created" => m \in core.todo)
From == IF consumer.pc = "down" THEN consumer.committed ELSE consumer.next
ConsumerMay(ev, m) ==
    /\ ev = "created"
    /\ \/ core.pc \in {"idle", "created"}
       \/ log # <<>> /\ log[1] = "created" /\ From = 1
       \/ consumer.ev = "created" /\ m \in consumer.todo

CoreDue(ev, m)     == IF CoreMay(ev, m) THEN 1 ELSE 0
ConsumerDue(ev, m) == IF ConsumerMay(ev, m) THEN 1 ELSE 0
Owed(ev, m) == rows[ev][m] + Cardinality(Waiting(ev, m)) + Cardinality(Held(ev, m))
                 + CoreDue(ev, m) + ConsumerDue(ev, m)
Limit(ev)   == IF ev = "created" THEN 2 ELSE 1
For(j, ev, m) == IF j.ev = ev /\ j.who = m THEN 1 ELSE 0

(* The kinds of the values, and where the request and the consumer are in    *)
(* the topic.                                                                *)
Kinds ==
    /\ core \in [pc : {"idle", "created", "published", "fanout", "done", "dead"},
                 todo : SUBSET Members]
    /\ log \in {<<>>, <<"created">>, <<"assigned">>, <<"created", "assigned">>}
    /\ consumer \in [pc : {"polling", "handling", "down"}, next : 1 .. Len(log) + 1,
                     committed : 1 .. Len(log) + 1, ev : Events, todo : SUBSET Recipients]
    /\ Bag
    /\ worker \in [Workers -> [pc : {"idle", "taken", "stored"}, job : Jobs]]
    /\ rows \in [Events -> [Recipients -> Nat]]
    /\ faults \in 0 .. MaxFaults

Order ==
    /\ core.pc \in {"idle", "created"} => log = <<>>
    /\ core.pc = "published" => log \in {<<>>, <<"created">>}
    /\ consumer.committed <= consumer.next
    /\ consumer.pc = "handling" => consumer.next > 1
    /\ consumer.todo \subseteq Addressed(consumer.ev)
    /\ consumer.pc # "handling" => consumer.todo = {}

Counted(ev, m) ==
    /\ IsFiniteSet(Waiting(ev, m)) /\ IsFiniteSet(Held(ev, m))
    /\ Owed(ev, m) <= Limit(ev) + faults

NewsInv == Kinds /\ Order /\ \A ev \in Events : \A m \in Members : Counted(ev, m)

-----------------------------------------------------------------------------
(* A job with a count more or less of it in a bag of jobs.                   *)
LEMMA BagMoves ==
    ASSUME Bag, NEW j \in Jobs
    PROVE  /\ IsABag(Queued(j)) /\ BagToSet(Queued(j)) = BagToSet(queue) \cup {j}
           /\ IsABag(Unqueued(j)) /\ BagToSet(Unqueued(j)) \subseteq BagToSet(queue)
<1>1. IsABag(Queued(j)) /\ BagToSet(Queued(j)) = BagToSet(queue) \cup {j}
  BY DEF Bag, IsABag, BagToSet, Queued, SetToBag, (+)
<1>2. IsABag(Unqueued(j)) /\ BagToSet(Unqueued(j)) \subseteq BagToSet(queue)
  BY DEF Bag, IsABag, BagToSet, Unqueued, SetToBag, (-)
<1> QED  BY <1>1, <1>2

(* A copy more of j is a copy more for its recipient, and for nobody else.   *)
LEMMA WaitsOnce ==
    ASSUME Bag, NEW j \in Jobs, queue' = Queued(j), NEW ev, NEW m,
           IsFiniteSet(Waiting(ev, m))
    PROVE  /\ IsFiniteSet(Waiting(ev, m)')
           /\ Cardinality(Waiting(ev, m)') =
                 Cardinality(Waiting(ev, m)) + For(j, ev, m)
<1> DEFINE n == IF j \in DOMAIN queue THEN queue[j] + 1 ELSE 1
<1>1. /\ n \in Nat /\ n >= 1 /\ DOMAIN queue' = DOMAIN queue \cup {j}
      /\ queue'[j] = n /\ \A k \in DOMAIN queue : k # j => queue'[k] = queue[k]
      /\ \A k \in DOMAIN queue : queue[k] \in Nat
      /\ j \in DOMAIN queue => queue[j] = n - 1
      /\ j \notin DOMAIN queue => n = 1
  BY DEF Bag, IsABag, Queued, SetToBag, (+)
<1> HIDE DEF n
<1>2. CASE j.ev = ev /\ j.who = m
  <2>1. Waiting(ev, m)' = Waiting(ev, m) \cup {<<j, n>>}
    BY <1>1, <1>2 DEF Waiting
  <2>2. <<j, n>> \notin Waiting(ev, m)
    BY <1>1 DEF Waiting
  <2>3. /\ IsFiniteSet(Waiting(ev, m) \cup {<<j, n>>})
        /\ Cardinality(Waiting(ev, m) \cup {<<j, n>>}) = Cardinality(Waiting(ev, m)) + 1
    BY <2>2, FS_AddElement
  <2> QED  BY <1>2, <2>1, <2>3 DEF For
<1>3. CASE ~(j.ev = ev /\ j.who = m)
  <2>1. Waiting(ev, m)' = Waiting(ev, m)
    BY <1>1, <1>3 DEF Waiting
  <2> QED  BY <1>3, <2>1, FS_CardinalityType DEF For
<1> QED  BY <1>2, <1>3

(* A copy less of j is a copy less for its recipient, and for nobody else.   *)
LEMMA WaitsNoMore ==
    ASSUME Bag, NEW j \in DOMAIN queue, queue' = Unqueued(j), NEW ev, NEW m,
           IsFiniteSet(Waiting(ev, m))
    PROVE  /\ IsFiniteSet(Waiting(ev, m)')
           /\ Cardinality(Waiting(ev, m)') + For(j, ev, m) = Cardinality(Waiting(ev, m))
<1> DEFINE n == queue[j]
<1>1. /\ n \in Nat /\ n >= 1 /\ j \in Jobs
      /\ DOMAIN queue' = IF n = 1 THEN DOMAIN queue \ {j} ELSE DOMAIN queue
      /\ n # 1 => queue'[j] = n - 1
      /\ \A k \in DOMAIN queue : k # j => queue'[k] = queue[k]
      /\ \A k \in DOMAIN queue : queue[k] \in Nat
  BY DEF Bag, IsABag, BagToSet, Unqueued, SetToBag, (-)
<1>2. CASE j.ev = ev /\ j.who = m
  <2>1. <<j, n>> \in Waiting(ev, m)
    BY <1>1, <1>2 DEF Waiting
  <2>2. Waiting(ev, m)' = Waiting(ev, m) \ {<<j, n>>}
    <3> SUFFICES ASSUME NEW k \in Jobs, NEW i \in Nat
                 PROVE  <<k, i>> \in Waiting(ev, m)' <=> <<k, i>> \in Waiting(ev, m) \ {<<j, n>>}
      BY DEF Waiting
    <3>1. CASE k = j
      BY <1>1, <3>1 DEF Waiting
    <3>2. CASE k # j
      BY <1>1, <3>2 DEF Waiting
    <3> QED  BY <3>1, <3>2
  <2> HIDE DEF n
  <2>3. /\ IsFiniteSet(Waiting(ev, m)')
        /\ Cardinality(Waiting(ev, m)') = Cardinality(Waiting(ev, m)) - 1
    BY <2>1, <2>2, FS_RemoveElement
  <2> QED  BY <1>2, <2>3, FS_CardinalityType DEF For
<1>3. CASE ~(j.ev = ev /\ j.who = m)
  <2>1. Waiting(ev, m)' = Waiting(ev, m)
    <3> SUFFICES ASSUME NEW k \in Jobs, NEW i \in Nat
                 PROVE  <<k, i>> \in Waiting(ev, m)' <=> <<k, i>> \in Waiting(ev, m)
      BY DEF Waiting
    <3>1. CASE k = j
      BY <1>3, <3>1 DEF Waiting
    <3>2. CASE k # j
      BY <1>1, <3>2 DEF Waiting
    <3> QED  BY <3>1, <3>2
  <2> QED  BY <1>3, <2>1, FS_CardinalityType DEF For
<1> QED  BY <1>2, <1>3

(* What is added up are numbers.                                             *)
LEMMA Amounts ==
    ASSUME Kinds, NEW ev \in Events, NEW m \in Members, Counted(ev, m)
    PROVE  /\ rows[ev][m] \in Nat /\ faults \in Nat /\ Limit(ev) \in Nat
           /\ Cardinality(Waiting(ev, m)) \in Nat /\ Cardinality(Held(ev, m)) \in Nat
           /\ CoreDue(ev, m) \in {0, 1} /\ ConsumerDue(ev, m) \in {0, 1}
<1>1. rows[ev][m] \in Nat /\ faults \in Nat
  BY NotificationsAssumption DEF Kinds, Recipients
<1>2. Cardinality(Waiting(ev, m)) \in Nat /\ Cardinality(Held(ev, m)) \in Nat
  BY FS_CardinalityType DEF Counted
<1> QED  BY <1>1, <1>2 DEF Limit, CoreDue, ConsumerDue

(* The broker and the workers leave a count alone that they do not touch.    *)
LEMMA Untouched ==
    ASSUME NEW ev, NEW m
    PROVE  /\ UNCHANGED queue => Waiting(ev, m)' = Waiting(ev, m)
           /\ UNCHANGED worker => Held(ev, m)' = Held(ev, m)
           /\ UNCHANGED core => CoreDue(ev, m)' = CoreDue(ev, m)
           /\ UNCHANGED <<core, log, consumer>> => ConsumerDue(ev, m)' = ConsumerDue(ev, m)
<1>1. UNCHANGED queue => Waiting(ev, m)' = Waiting(ev, m)
  BY DEF Waiting
<1>2. UNCHANGED worker => Held(ev, m)' = Held(ev, m)
  BY DEF Held, NowOf, JobOf
<1>3. UNCHANGED core => CoreDue(ev, m)' = CoreDue(ev, m)
  BY DEF CoreDue, CoreMay
<1>4. UNCHANGED <<core, log, consumer>> => ConsumerDue(ev, m)' = ConsumerDue(ev, m)
  BY DEF ConsumerDue, ConsumerMay, From
<1> QED  BY <1>1, <1>2, <1>3, <1>4

(* A step that trades one thing counted for another, or pays with a fault.   *)
LEMMA Balanced ==
    ASSUME Kinds, NEW ev \in Events, NEW m \in Members, Counted(ev, m),
           IsFiniteSet(Waiting(ev, m)'), IsFiniteSet(Held(ev, m)'),
           rows'[ev][m] \in Nat, faults' \in Nat,
           rows'[ev][m] + Cardinality(Waiting(ev, m)') + Cardinality(Held(ev, m)')
               + CoreDue(ev, m)' + ConsumerDue(ev, m)' + faults
             <= rows[ev][m] + Cardinality(Waiting(ev, m)) + Cardinality(Held(ev, m))
               + CoreDue(ev, m) + ConsumerDue(ev, m) + faults'
    PROVE  Counted(ev, m)'
<1>1. Cardinality(Waiting(ev, m)') \in Nat /\ Cardinality(Held(ev, m)') \in Nat
  BY FS_CardinalityType
<1>2. CoreDue(ev, m)' \in {0, 1} /\ ConsumerDue(ev, m)' \in {0, 1}
  BY DEF CoreDue, ConsumerDue
<1>3. Owed(ev, m)' <= Limit(ev) + faults'
  BY <1>1, <1>2, Amounts DEF Counted, Owed
<1> QED  BY <1>3 DEF Counted, Limit

(* A step that queues nothing and owes no more.                              *)
LEMMA NothingQueued ==
    ASSUME Kinds, NEW ev \in Events, NEW m \in Members, Counted(ev, m),
           UNCHANGED <<queue, worker, rows>>, faults' \in Nat, faults <= faults',
           CoreDue(ev, m)' + ConsumerDue(ev, m)' + faults
              <= CoreDue(ev, m) + ConsumerDue(ev, m) + faults'
    PROVE  Counted(ev, m)'
<1>1. Waiting(ev, m)' = Waiting(ev, m) /\ Held(ev, m)' = Held(ev, m)
  BY Untouched
<1>2. CoreDue(ev, m)' \in {0, 1} /\ ConsumerDue(ev, m)' \in {0, 1}
  BY DEF CoreDue, ConsumerDue
<1> HIDE DEF Counted
<1>3. IsFiniteSet(Waiting(ev, m)) /\ IsFiniteSet(Held(ev, m))
  BY DEF Counted
<1> QED  BY <1>1, <1>2, <1>3, Amounts, Balanced

(* A job is queued, or refused by a fault, and is owed no more.              *)
LEMMA OneQueued ==
    ASSUME Kinds, NEW ev \in Events, NEW m \in Members, Counted(ev, m),
           NEW j \in Jobs, UNCHANGED <<worker, rows>>,
           (queue' = Queued(j) /\ UNCHANGED faults) \/ (Fault /\ UNCHANGED queue),
           CoreDue(ev, m)' + ConsumerDue(ev, m)' + For(j, ev, m)
              <= CoreDue(ev, m) + ConsumerDue(ev, m)
    PROVE  Counted(ev, m)'
<1>1. Held(ev, m)' = Held(ev, m) /\ IsFiniteSet(Held(ev, m)) /\ IsFiniteSet(Waiting(ev, m))
  BY Untouched DEF Counted
<1>2. CoreDue(ev, m)' \in {0, 1} /\ ConsumerDue(ev, m)' \in {0, 1} /\ For(j, ev, m) \in {0, 1}
  BY DEF CoreDue, ConsumerDue, For
<1>3. CASE queue' = Queued(j) /\ UNCHANGED faults
  <2>1. /\ IsFiniteSet(Waiting(ev, m)')
        /\ Cardinality(Waiting(ev, m)') = Cardinality(Waiting(ev, m)) + For(j, ev, m)
    BY <1>1, <1>3, WaitsOnce DEF Kinds
  <2> QED  BY <1>1, <1>2, <1>3, <2>1, Amounts, Balanced
<1>4. CASE Fault /\ UNCHANGED queue
  <2>1. faults' \in Nat /\ faults <= faults'
    BY <1>4, Amounts DEF Fault
  <2> QED  BY <1>2, <1>4, <2>1, Amounts, NothingQueued
<1> QED  BY <1>3, <1>4

-----------------------------------------------------------------------------
(* Nothing has happened, and one copy at most is due from each side.         *)
LEMMA NewsInit == Init => NewsInv
<1> SUFFICES ASSUME Init PROVE NewsInv
  OBVIOUS
<1>1. Kinds
  <2>1. NoJob \in Jobs
    BY NotificationsAssumption DEF NoJob, Jobs, Events, Recipients
  <2>2. worker \in [Workers -> [pc : {"idle", "taken", "stored"}, job : Jobs]]
    BY <2>1 DEF Init
  <2>3. Bag
    BY DEF Init, Bag, IsABag, BagToSet, EmptyBag, SetToBag
  <2>4. consumer \in [pc : {"polling", "handling", "down"}, next : 1 .. Len(log) + 1,
                     committed : 1 .. Len(log) + 1, ev : Events, todo : SUBSET Recipients]
    BY DEF Init, Events
  <2>5. rows \in [Events -> [Recipients -> Nat]] /\ faults \in 0 .. MaxFaults
    BY NotificationsAssumption DEF Init
  <2>6. /\ core \in [pc : {"idle", "created", "published", "fanout", "done", "dead"},
                     todo : SUBSET Members]
        /\ log \in {<<>>, <<"created">>, <<"assigned">>, <<"created", "assigned">>}
    BY DEF Init
  <2> QED  BY <2>2, <2>3, <2>4, <2>5, <2>6 DEF Kinds
<1>2. Order
  BY DEF Init, Order
<1>3. ASSUME NEW ev \in Events, NEW m \in Members PROVE Counted(ev, m)
  <2>1. Waiting(ev, m) = {} /\ Held(ev, m) = {}
    BY DEF Init, Waiting, Held, EmptyBag, SetToBag, NowOf
  <2>2. rows[ev][m] = 0 /\ faults = 0
    BY <1>3 DEF Init, Recipients
  <2>3. CoreDue(ev, m) = 1 /\ ConsumerDue(ev, m) = IF ev = "created" THEN 1 ELSE 0
    BY DEF Init, CoreDue, CoreMay, ConsumerDue, ConsumerMay
  <2>4. IsFiniteSet({}) /\ Cardinality({}) = 0
    BY FS_EmptySet
  <2> QED  BY <2>1, <2>2, <2>3, <2>4 DEF Counted, Owed, Limit
<1> QED  BY <1>1, <1>2, <1>3 DEF NewsInv

(* The topic when the second event follows the first.                        *)
LEMMA BothEvents == Append(<<"created">>, "assigned") = <<"created", "assigned">>
<1> DEFINE s == Append(<<"created">>, "assigned")
           t == <<"created", "assigned">>
<1>1. <<"created">> \in Seq(Events) /\ t \in Seq(Events)
  BY DEF Events
<1>2. s \in Seq(Events) /\ Len(s) = 2
  BY <1>1 DEF Events
<1>3. s[1] = "created" /\ s[2] = "assigned"
  BY <1>1
<1>4. \A i \in 1 .. 2 : s[i] = t[i]
  BY <1>3
<1> QED  BY <1>1, <1>2, <1>4, SeqEqual

(* The request writes the task, publishes, and queues jobs of its own.       *)
LEMMA CoreKeeps ==
    ASSUME NewsInv, Create \/ CoreStep \/ CoreDies
    PROVE  NewsInv'
<1>1. /\ Kinds /\ Order /\ \A ev \in Events : \A m \in Members : Counted(ev, m)
      /\ faults \in 0 .. MaxFaults /\ MaxFaults \in Nat /\ Bag
      /\ core \in [pc : {"idle", "created", "published", "fanout", "done", "dead"},
                   todo : SUBSET Members]
  BY NotificationsAssumption DEF NewsInv, Kinds
<1>2. \A ev \in Events : \A m \in Members :
         CoreDue(ev, m) \in {0, 1} /\ ConsumerDue(ev, m) \in {0, 1}
  BY DEF CoreDue, ConsumerDue
<1>3. CASE Create
  <2>1. Kinds'
    BY <1>1, <1>3 DEF Create, Kinds, Bag
  <2>2. Order'
    BY <1>1, <1>3 DEF Create, Order
  <2>3. ASSUME NEW ev \in Events, NEW m \in Members PROVE Counted(ev, m)'
    <3>1. CoreDue(ev, m)' = CoreDue(ev, m) /\ ConsumerDue(ev, m)' = ConsumerDue(ev, m)
      BY <1>1, <1>3 DEF Create, CoreDue, CoreMay, ConsumerDue, ConsumerMay, From
    <3> QED  BY <1>1, <1>2, <1>3, <3>1, NothingQueued DEF Create
  <2> QED  BY <2>1, <2>2, <2>3 DEF NewsInv
<1>4. CASE PublishCreated
  <2>1. /\ core.pc = "created" /\ log = <<>> /\ log' \in {<<>>, <<"created">>}
        /\ core' = [pc |-> "published", todo |-> {}]
        /\ UNCHANGED <<consumer, queue, worker, rows>>
        /\ faults' \in 0 .. MaxFaults /\ faults <= faults'
    BY <1>1, <1>4 DEF PublishCreated, Publish, Order, Fault
  <2>2. consumer.next = 1 /\ consumer.committed = 1 /\ Len(log) = 0 /\ Len(log') \in {0, 1}
    BY <1>1, <2>1 DEF Kinds
  <2>3. Kinds'
    BY <1>1, <2>1, <2>2 DEF Kinds, Bag
  <2>4. Order'
    BY <1>1, <2>1 DEF Order
  <2>5. ASSUME NEW ev \in Events, NEW m \in Members PROVE Counted(ev, m)'
    <3>1. /\ CoreDue(ev, m) = 1 /\ CoreDue(ev, m)' = 1
          /\ ev = "created" => ConsumerDue(ev, m) = 1
          /\ ev # "created" => ConsumerDue(ev, m)' = 0
          /\ ConsumerDue(ev, m)' \in {0, 1}
      BY <2>1 DEF CoreDue, CoreMay, ConsumerDue, ConsumerMay
    <3> QED  BY <1>1, <1>2, <2>1, <3>1, NothingQueued
  <2> QED  BY <2>3, <2>4, <2>5 DEF NewsInv
<1>5. CASE PublishAssigned
  <2>1. /\ core.pc = "published" /\ log \in {<<>>, <<"created">>}
        /\ log' \in {log, Append(log, "assigned")}
        /\ core' = [pc |-> "fanout", todo |-> Members \ {Reporter}]
        /\ UNCHANGED <<consumer, queue, worker, rows>>
        /\ faults' \in 0 .. MaxFaults /\ faults <= faults'
    BY <1>1, <1>5 DEF PublishAssigned, Publish, Order, Fault
  <2>2. /\ log' \in {<<>>, <<"created">>, <<"assigned">>, <<"created", "assigned">>}
        /\ Len(log) \in Nat /\ Len(log') \in Nat /\ Len(log) <= Len(log')
        /\ log' # <<>> /\ log'[1] = "created" => log # <<>> /\ log[1] = "created"
    <3>1. CASE log' = log
      BY <2>1, <3>1
    <3>2. CASE log = <<>> /\ log' = Append(log, "assigned")
      <4>1. log' = <<"assigned">>
        BY <3>2
      <4> QED  BY <3>2, <4>1
    <3>3. CASE log = <<"created">> /\ log' = Append(log, "assigned")
      <4>1. log' = <<"created", "assigned">>
        BY <3>3, BothEvents
      <4>2. Len(log') = 2 /\ Len(log) = 1 /\ log' # <<>> /\ log # <<>> /\ log[1] = "created"
        BY <3>3, <4>1
      <4> QED  BY <4>1, <4>2
    <3> QED  BY <2>1, <3>1, <3>2, <3>3
  <2>3. consumer \in [pc : {"polling", "handling", "down"}, next : 1 .. Len(log') + 1,
                      committed : 1 .. Len(log') + 1, ev : Events, todo : SUBSET Recipients]
    <3>1. 1 .. Len(log) + 1 \subseteq 1 .. Len(log') + 1
      BY <2>2
    <3> QED  BY <1>1, <3>1 DEF Kinds
  <2>4. Kinds'
    BY <1>1, <2>1, <2>2, <2>3 DEF Kinds, Bag
  <2>5. Order'
    BY <1>1, <2>1 DEF Order
  <2>6. ASSUME NEW ev \in Events, NEW m \in Members PROVE Counted(ev, m)'
    <3>1. CoreDue(ev, m) = 1 /\ CoreDue(ev, m)' \in {0, 1}
      BY <2>1 DEF CoreDue, CoreMay
    <3>2. ConsumerDue(ev, m)' <= ConsumerDue(ev, m) /\ ConsumerDue(ev, m)' \in {0, 1}
      BY <2>1, <2>2 DEF ConsumerDue, ConsumerMay, From
    <3> QED  BY <1>1, <1>2, <2>1, <3>1, <3>2, NothingQueued
  <2> QED  BY <2>4, <2>5, <2>6 DEF NewsInv
<1>6. ASSUME NEW n \in Members, Fanout(n) PROVE NewsInv'
  <2> DEFINE j == Job("created", n)
  <2>1. j \in Jobs /\ j.ev = "created" /\ j.who = n
    BY NotificationsAssumption DEF Job, Jobs, Events, Recipients
  <2> HIDE DEF j
  <2>2. /\ core.pc = "fanout" /\ n \in core.todo /\ core'.pc = "fanout"
        /\ core'.todo = core.todo \ {n} /\ core' = [core EXCEPT !.todo = core.todo \ {n}]
        /\ UNCHANGED <<log, consumer, worker, rows>>
        /\ (queue' = Queued(j) /\ UNCHANGED faults) \/ (Fault /\ UNCHANGED queue)
    BY <1>1, <1>6 DEF Fanout, j
  <2>3. Bag' /\ faults' \in 0 .. MaxFaults
    BY <1>1, <2>1, <2>2, BagMoves DEF Bag, Fault
  <2>4. Kinds'
    BY <1>1, <2>2, <2>3 DEF Kinds
  <2>5. Order'
    BY <1>1, <2>2 DEF Order
  <2>6. ASSUME NEW ev \in Events, NEW m \in Members PROVE Counted(ev, m)'
    <3>1. CoreDue(ev, m)' + For(j, ev, m) = CoreDue(ev, m)
      BY <2>1, <2>2 DEF CoreDue, CoreMay, For
    <3>2. ConsumerDue(ev, m)' = ConsumerDue(ev, m)
      BY <2>2 DEF ConsumerDue, ConsumerMay, From
    <3>3. For(j, ev, m) \in {0, 1} /\ CoreDue(ev, m)' \in {0, 1}
      BY DEF For, CoreDue
    <3> QED  BY <1>1, <1>2, <2>1, <2>2, <3>1, <3>2, <3>3, OneQueued
  <2> QED  BY <2>4, <2>5, <2>6 DEF NewsInv
<1>7. CASE Assign
  <2> DEFINE j == Job("assigned", Assignee)
  <2>1. j \in Jobs /\ j.ev = "assigned" /\ j.who = Assignee
    BY NotificationsAssumption DEF Job, Jobs, Events, Recipients
  <2> HIDE DEF j
  <2>2. /\ core.pc = "fanout" /\ core.todo = {} /\ core'.pc = "done"
        /\ core' = [core EXCEPT !.pc = "done"]
        /\ UNCHANGED <<log, consumer, worker, rows>>
        /\ (queue' = Queued(j) /\ UNCHANGED faults) \/ (Fault /\ UNCHANGED queue)
    BY <1>1, <1>7 DEF Assign, j
  <2>3. Bag' /\ faults' \in 0 .. MaxFaults
    BY <1>1, <2>1, <2>2, BagMoves DEF Bag, Fault
  <2>4. Kinds'
    BY <1>1, <2>2, <2>3 DEF Kinds
  <2>5. Order'
    BY <1>1, <2>2 DEF Order
  <2>6. ASSUME NEW ev \in Events, NEW m \in Members PROVE Counted(ev, m)'
    <3>1. CoreDue(ev, m)' = 0 /\ For(j, ev, m) <= CoreDue(ev, m) /\ For(j, ev, m) \in {0, 1}
      BY <2>1, <2>2 DEF CoreDue, CoreMay, For, Events
    <3>2. ConsumerDue(ev, m)' = ConsumerDue(ev, m)
      BY <2>2 DEF ConsumerDue, ConsumerMay, From
    <3> QED  BY <1>1, <1>2, <2>1, <2>2, <3>1, <3>2, OneQueued
  <2> QED  BY <2>4, <2>5, <2>6 DEF NewsInv
<1>8. CASE CoreDies
  <2>1. /\ core' = [pc |-> "dead", todo |-> {}]
        /\ UNCHANGED <<log, consumer, queue, worker, rows>>
        /\ faults' \in 0 .. MaxFaults /\ faults <= faults'
    BY <1>1, <1>8 DEF CoreDies, Fault
  <2>2. Kinds'
    BY <1>1, <2>1 DEF Kinds, Bag
  <2>3. Order'
    BY <1>1, <2>1 DEF Order
  <2>4. ASSUME NEW ev \in Events, NEW m \in Members PROVE Counted(ev, m)'
    <3>1. /\ CoreDue(ev, m)' = 0 /\ ConsumerDue(ev, m)' <= ConsumerDue(ev, m)
          /\ ConsumerDue(ev, m)' \in {0, 1}
      BY <2>1 DEF CoreDue, CoreMay, ConsumerDue, ConsumerMay, From
    <3> QED  BY <1>1, <1>2, <2>1, <3>1, NothingQueued
  <2> QED  BY <2>2, <2>3, <2>4 DEF NewsInv
<1> QED  BY <1>3, <1>4, <1>5, <1>6, <1>7, <1>8 DEF CoreStep

(* The consumer reads the topic, queues jobs, dies and is restarted.         *)
LEMMA ConsumerKeeps ==
    ASSUME NewsInv, ConsumerStep \/ AutoCommit \/ ConsumerDies
    PROVE  NewsInv'
<1> DEFINE Consumers(l) == [pc : {"polling", "handling", "down"}, next : 1 .. l + 1,
                            committed : 1 .. l + 1, ev : Events, todo : SUBSET Recipients]
<1>1. /\ Kinds /\ Order /\ \A ev \in Events : \A m \in Members : Counted(ev, m)
      /\ faults \in 0 .. MaxFaults /\ MaxFaults \in Nat /\ Bag
      /\ log \in {<<>>, <<"created">>, <<"assigned">>, <<"created", "assigned">>}
      /\ consumer \in Consumers(Len(log)) /\ Len(log) \in Nat
      /\ consumer.next \in 1 .. Len(log) + 1 /\ consumer.committed \in 1 .. Len(log) + 1
  BY NotificationsAssumption DEF NewsInv, Kinds
<1>2. \A ev \in Events : \A m \in Members :
         CoreDue(ev, m) \in {0, 1} /\ ConsumerDue(ev, m) \in {0, 1}
  BY DEF CoreDue, ConsumerDue
<1>3. UNCHANGED <<core, log, worker, rows>>
  BY DEF ConsumerStep, Poll, Handled, ConsumerRestarts, Dispatch, AutoCommit, ConsumerDies
<1>4. \A ev \in Events : \A m \in Members : CoreDue(ev, m)' = CoreDue(ev, m)
  BY <1>3, Untouched
<1>5. ASSUME UNCHANGED queue, consumer' \in Consumers(Len(log)), Order',
             faults' \in 0 .. MaxFaults, faults <= faults',
             \A m \in Members : ConsumerDue("created", m)' + faults
                                   <= ConsumerDue("created", m) + faults'
      PROVE  NewsInv'
  <2>1. Kinds'
    BY <1>1, <1>3, <1>5 DEF Kinds, Bag
  <2>2. ASSUME NEW ev \in Events, NEW m \in Members PROVE Counted(ev, m)'
    <3>1. ev # "created" => ConsumerDue(ev, m) = 0 /\ ConsumerDue(ev, m)' = 0
      BY DEF ConsumerDue, ConsumerMay
    <3>2. ConsumerDue(ev, m)' + faults <= ConsumerDue(ev, m) + faults'
      BY <1>1, <1>5, <3>1
    <3>3. ConsumerDue(ev, m)' \in {0, 1}
      BY DEF ConsumerDue
    <3> HIDE DEF Consumers
    <3> QED  BY <1>1, <1>2, <1>3, <1>4, <1>5, <3>2, <3>3, NothingQueued
  <2> QED  BY <1>5, <2>1, <2>2 DEF NewsInv
<1>6. CASE Poll
  <2>1. /\ consumer.pc = "polling" /\ consumer.next <= Len(log)
        /\ consumer' = [consumer EXCEPT !.pc = "handling", !.next = consumer.next + 1,
                                        !.ev = log[consumer.next],
                                        !.todo = Addressed(log[consumer.next])]
        /\ UNCHANGED <<queue, faults>>
    BY <1>1, <1>6 DEF Poll
  <2>2. /\ log[consumer.next] \in Events
        /\ log[consumer.next] = "created" => consumer.next = 1
    BY <1>1, <2>1 DEF Events
  <2>3. Addressed(log[consumer.next]) \in SUBSET Recipients
    BY DEF Addressed, Recipients
  <2>4. consumer.next + 1 \in 1 .. Len(log) + 1
    BY <1>1, <2>1
  <2>5. /\ consumer'.pc = "handling" /\ consumer'.next = consumer.next + 1
        /\ consumer'.ev = log[consumer.next] /\ consumer'.committed = consumer.committed
        /\ consumer'.todo = Addressed(log[consumer.next])
    BY <1>1, <2>1
  <2>6. consumer' \in Consumers(Len(log))
    BY <1>1, <2>1, <2>2, <2>3, <2>4
  <2>7. Order'
    BY <1>1, <1>3, <2>1, <2>5 DEF Order
  <2>8. \A m \in Members : ConsumerMay("created", m)' => ConsumerMay("created", m)
    BY <1>1, <1>3, <2>1, <2>2, <2>5 DEF ConsumerMay, From
  <2> QED  BY <1>1, <1>5, <2>1, <2>6, <2>7, <2>8 DEF ConsumerDue
<1>7. CASE Handled \/ AutoCommit \/ ConsumerRestarts
  <2>1. /\ UNCHANGED <<queue, faults>> /\ consumer'.ev = consumer.ev
        /\ consumer' \in Consumers(Len(log)) /\ consumer'.todo = consumer.todo
        /\ From' = From
    BY <1>1, <1>7 DEF Handled, AutoCommit, ConsumerRestarts, From
  <2>2. Order'
    <3>1. CASE Handled
      <4>1. /\ consumer.pc = "handling" /\ consumer.todo = {}
            /\ consumer'.pc = "polling" /\ consumer'.next = consumer.next
            /\ consumer'.committed = consumer.committed
        BY <1>1, <3>1 DEF Handled
      <4> QED  BY <1>1, <1>3, <2>1, <4>1 DEF Order
    <3>2. CASE AutoCommit
      <4>1. /\ consumer'.pc = consumer.pc /\ consumer'.next = consumer.next
            /\ consumer'.committed = consumer.next
        BY <1>1, <3>2 DEF AutoCommit
      <4>2. consumer.next \in Nat
        BY <1>1
      <4> QED  BY <1>1, <1>3, <2>1, <4>1, <4>2 DEF Order
    <3>3. CASE ConsumerRestarts
      <4>1. /\ consumer.pc = "down" /\ consumer'.pc = "polling"
            /\ consumer'.next = consumer.committed /\ consumer'.committed = consumer.committed
        BY <1>1, <3>3 DEF ConsumerRestarts
      <4>2. consumer.committed \in Nat
        BY <1>1
      <4> QED  BY <1>1, <1>3, <2>1, <4>1, <4>2 DEF Order
    <3> QED  BY <1>7, <3>1, <3>2, <3>3
  <2>3. \A m \in Members : ConsumerMay("created", m)' => ConsumerMay("created", m)
    BY <1>3, <2>1 DEF ConsumerMay
  <2> QED  BY <1>1, <1>5, <2>1, <2>2, <2>3 DEF ConsumerDue
<1>8. CASE ConsumerDies
  <2>1. /\ UNCHANGED queue /\ faults' = faults + 1 /\ faults' \in 0 .. MaxFaults
        /\ consumer' = [consumer EXCEPT !.pc = "down", !.todo = {}]
    BY <1>1, <1>8 DEF ConsumerDies, Fault
  <2>2. consumer' \in Consumers(Len(log)) /\ consumer'.pc = "down" /\ consumer'.todo = {}
        /\ consumer'.next = consumer.next /\ consumer'.committed = consumer.committed
    BY <1>1, <2>1
  <2>3. Order'
    BY <1>1, <1>3, <2>2 DEF Order
  <2>4. \A m \in Members : ConsumerDue("created", m)' \in {0, 1}
    BY DEF ConsumerDue
  <2>5. \A m \in Members : ConsumerDue("created", m) \in {0, 1}
    BY DEF ConsumerDue
  <2> HIDE DEF Consumers
  <2>6. \A m \in Members : ConsumerDue("created", m)' + faults <= ConsumerDue("created", m) + faults'
    BY <1>1, <2>1, <2>4, <2>5
  <2> QED  BY <1>1, <1>5, <2>1, <2>2, <2>3, <2>6
<1>9. ASSUME NEW n \in Recipients, Dispatch(n) PROVE NewsInv'
  <2> DEFINE j == Job(consumer.ev, n)
  <2>1. j \in Jobs /\ j.ev = consumer.ev /\ j.who = n
    BY <1>1, NotificationsAssumption DEF Job, Jobs
  <2> HIDE DEF j
  <2>2. /\ consumer.pc = "handling" /\ n \in consumer.todo
        /\ consumer' = [consumer EXCEPT !.todo = consumer.todo \ {n}]
        /\ (queue' = Queued(j) /\ UNCHANGED faults) \/ (Fault /\ UNCHANGED queue)
    BY <1>1, <1>9 DEF Dispatch, j
  <2>3. /\ consumer' \in Consumers(Len(log)) /\ consumer'.todo = consumer.todo \ {n}
        /\ consumer'.pc = "handling" /\ consumer'.ev = consumer.ev
        /\ consumer'.next = consumer.next /\ consumer'.committed = consumer.committed
    BY <1>1, <2>2
  <2>4. Bag' /\ faults' \in 0 .. MaxFaults
    BY <1>1, <2>1, <2>2, BagMoves DEF Bag, Fault
  <2>5. Kinds'
    BY <1>1, <1>3, <2>3, <2>4 DEF Kinds
  <2>6. Order'
    BY <1>1, <1>3, <2>2, <2>3 DEF Order
  <2>7. consumer.next > 1 /\ core.pc \notin {"idle", "created"}
    BY <1>1, <2>2 DEF Order
  <2>8. n \in Members => consumer.ev = "created"
    BY <1>1, <2>2, NotificationsAssumption DEF Order, Addressed, Workspace
  <2>9. ASSUME NEW ev \in Events, NEW m \in Members PROVE Counted(ev, m)'
    <3>1. CASE ev = "created" /\ consumer.ev = "created" /\ m = n
      <4>1. ConsumerDue(ev, m) = 1 /\ ConsumerDue(ev, m)' = 0 /\ For(j, ev, m) = 1
        BY <1>1, <1>3, <2>1, <2>2, <2>3, <2>7, <3>1 DEF ConsumerDue, ConsumerMay, From, For
      <4> QED  BY <1>1, <1>2, <1>3, <1>4, <2>1, <2>2, <4>1, OneQueued
    <3>2. CASE ~(ev = "created" /\ consumer.ev = "created" /\ m = n)
      <4>1. For(j, ev, m) = 0
        BY <2>1, <2>8, <3>2 DEF For
      <4>2. ConsumerDue(ev, m)' = ConsumerDue(ev, m)
        BY <1>1, <1>3, <2>2, <2>3, <3>2 DEF ConsumerDue, ConsumerMay, From
      <4> QED  BY <1>1, <1>2, <1>3, <1>4, <2>1, <2>2, <4>1, <4>2, OneQueued
    <3> QED  BY <3>1, <3>2
  <2> QED  BY <2>5, <2>6, <2>9 DEF NewsInv
<1> QED  BY <1>6, <1>7, <1>8, <1>9 DEF ConsumerStep

-----------------------------------------------------------------------------
(* A worker takes a job, or lets go of the one it has.                       *)
LEMMA HoldsOnce ==
    ASSUME Kinds, NEW w \in Workers, worker[w].pc = "idle", NEW j \in Jobs, NEW ev, NEW m,
           worker' = [worker EXCEPT ![w] = [pc |-> "taken", job |-> j]],
           IsFiniteSet(Held(ev, m))
    PROVE  /\ IsFiniteSet(Held(ev, m)')
           /\ Cardinality(Held(ev, m)') = Cardinality(Held(ev, m)) + For(j, ev, m)
<1>1. /\ worker'[w].pc = "taken" /\ worker'[w].job = j
      /\ \A v \in Workers : v # w => worker'[v] = worker[v]
  BY DEF Kinds
<1>2. w \notin Held(ev, m)
  BY DEF Held, NowOf
<1>3. CASE j.ev = ev /\ j.who = m
  <2>1. Held(ev, m)' = Held(ev, m) \cup {w}
    BY <1>1, <1>3 DEF Held, NowOf, JobOf
  <2>2. /\ IsFiniteSet(Held(ev, m) \cup {w})
        /\ Cardinality(Held(ev, m) \cup {w}) = Cardinality(Held(ev, m)) + 1
    BY <1>2, FS_AddElement
  <2> QED  BY <1>3, <2>1, <2>2 DEF For
<1>4. CASE ~(j.ev = ev /\ j.who = m)
  <2>1. Held(ev, m)' = Held(ev, m)
    BY <1>1, <1>2, <1>4 DEF Held, NowOf, JobOf
  <2> QED  BY <1>4, <2>1, FS_CardinalityType DEF For
<1> QED  BY <1>3, <1>4

(* Its recipient is then owed one copy less.                                 *)
LEMMA HoldsNoMore ==
    ASSUME Kinds, NEW w \in Workers, NEW ev, NEW m, IsFiniteSet(Held(ev, m)),
           NEW x, x.pc # "taken", worker' = [worker EXCEPT ![w] = x]
    PROVE  /\ IsFiniteSet(Held(ev, m)')
           /\ worker[w].pc = "taken" =>
                 Cardinality(Held(ev, m)') + For(worker[w].job, ev, m) = Cardinality(Held(ev, m))
           /\ worker[w].pc # "taken" => Cardinality(Held(ev, m)') = Cardinality(Held(ev, m))
<1>1. /\ worker'[w] = x /\ \A v \in Workers : v # w => worker'[v] = worker[v]
  BY DEF Kinds
<1>2. Held(ev, m)' = Held(ev, m) \ {w}
  BY <1>1 DEF Held, NowOf, JobOf
<1>3. CASE w \in Held(ev, m)
  <2>1. worker[w].pc = "taken" /\ For(worker[w].job, ev, m) = 1
    BY <1>3 DEF Held, NowOf, JobOf, For
  <2>2. /\ IsFiniteSet(Held(ev, m) \ {w})
        /\ Cardinality(Held(ev, m) \ {w}) = Cardinality(Held(ev, m)) - 1
    BY <1>3, FS_RemoveElement
  <2> QED  BY <1>2, <2>1, <2>2, FS_CardinalityType
<1>4. CASE w \notin Held(ev, m)
  <2>1. Held(ev, m)' = Held(ev, m)
    BY <1>2, <1>4
  <2>2. worker[w].pc = "taken" => For(worker[w].job, ev, m) = 0
    BY <1>4 DEF Held, NowOf, JobOf, For
  <2> QED  BY <2>1, <2>2, FS_CardinalityType
<1> QED  BY <1>3, <1>4

(* A worker takes a job, stores its row, fails to, ends, or dies.            *)
LEMMA WorkerKeeps ==
    ASSUME NewsInv, NEW w \in Workers, WorkerStep(w) \/ StoreFails(w) \/ WorkerDies(w)
    PROVE  NewsInv'
<1> DEFINE job == worker[w].job
           idle == [pc |-> "idle", job |-> NoJob]
<1>1. /\ Kinds /\ Order /\ \A ev \in Events : \A m \in Members : Counted(ev, m)
      /\ faults \in 0 .. MaxFaults /\ MaxFaults \in Nat /\ Bag
      /\ rows \in [Events -> [Recipients -> Nat]]
      /\ worker \in [Workers -> [pc : {"idle", "taken", "stored"}, job : Jobs]]
      /\ job \in Jobs
  BY NotificationsAssumption DEF NewsInv, Kinds
<1>2. UNCHANGED <<core, log, consumer>>
  BY DEF WorkerStep, Take, Store, Push, StoreFails, WorkerDies
<1>3. Order'
  BY <1>1, <1>2 DEF Order
<1>4. \A ev \in Events : \A m \in Members :
         /\ CoreDue(ev, m)' = CoreDue(ev, m) /\ ConsumerDue(ev, m)' = ConsumerDue(ev, m)
         /\ CoreDue(ev, m) \in {0, 1} /\ ConsumerDue(ev, m) \in {0, 1}
  BY <1>2, Untouched DEF CoreDue, ConsumerDue
<1>5. /\ idle \in [pc : {"idle", "taken", "stored"}, job : Jobs] /\ idle.pc = "idle"
  BY NotificationsAssumption DEF NoJob, Jobs, Events, Recipients
<1>6. \A j, ev, m : For(j, ev, m) \in {0, 1}
  BY DEF For
<1> HIDE DEF idle
<1>7. ASSUME NEW j \in Jobs, Take(w, j) PROVE NewsInv'
  <2>1. /\ worker[w].pc = "idle" /\ j \in DOMAIN queue /\ queue' = Unqueued(j)
        /\ worker' = [worker EXCEPT ![w] = [pc |-> "taken", job |-> j]]
        /\ UNCHANGED <<rows, faults>>
    BY <1>7 DEF Take, BagIn, BagToSet
  <2>2. Bag'
    BY <1>1, <2>1, BagMoves DEF Bag
  <2>3. Kinds'
    BY <1>1, <1>2, <2>1, <2>2 DEF Kinds
  <2>4. ASSUME NEW ev \in Events, NEW m \in Members PROVE Counted(ev, m)'
    <3>1. IsFiniteSet(Waiting(ev, m)) /\ IsFiniteSet(Held(ev, m))
      BY <1>1 DEF Counted
    <3>2. /\ IsFiniteSet(Waiting(ev, m)')
          /\ Cardinality(Waiting(ev, m)') + For(j, ev, m) = Cardinality(Waiting(ev, m))
      BY <1>1, <2>1, <3>1, WaitsNoMore
    <3>3. /\ IsFiniteSet(Held(ev, m)')
          /\ Cardinality(Held(ev, m)') = Cardinality(Held(ev, m)) + For(j, ev, m)
      <4>1. Kinds /\ worker[w].pc = "idle" /\ IsFiniteSet(Held(ev, m))
        BY <1>1, <2>1, <3>1
      <4>2. worker' = [worker EXCEPT ![w] = [pc |-> "taken", job |-> j]]
        BY <2>1
      <4> QED  BY <4>1, <4>2, HoldsOnce
    <3>4. Cardinality(Waiting(ev, m)') \in Nat /\ Cardinality(Held(ev, m)') \in Nat
      BY <3>2, <3>3, FS_CardinalityType
    <3> QED  BY <1>1, <1>4, <1>6, <2>1, <3>2, <3>3, <3>4, Amounts, Balanced
  <2> QED  BY <1>3, <2>3, <2>4 DEF NewsInv
<1>8. CASE Store(w)
  <2>1. /\ worker[w].pc = "taken" /\ UNCHANGED <<queue, faults>>
        /\ rows' = [rows EXCEPT ![job.ev][job.who] = rows[job.ev][job.who] + 1]
        /\ worker' = [worker EXCEPT ![w] = [worker[w] EXCEPT !.pc = "stored"]]
        /\ [worker[w] EXCEPT !.pc = "stored"].pc = "stored"
        /\ [worker[w] EXCEPT !.pc = "stored"] \in [pc : {"idle", "taken", "stored"}, job : Jobs]
    BY <1>1, <1>8 DEF Store
  <2>2. job.ev \in Events /\ job.who \in Recipients
    BY <1>1 DEF Jobs
  <2>3. rows' \in [Events -> [Recipients -> Nat]]
    <3>1. rows[job.ev][job.who] + 1 \in Nat
      BY <1>1, <2>2
    <3> QED  BY <1>1, <2>1, <2>2, <3>1
  <2>4. Kinds'
    BY <1>1, <1>2, <2>1, <2>3 DEF Kinds, Bag
  <2>5. ASSUME NEW ev \in Events, NEW m \in Members PROVE Counted(ev, m)'
    <3>1. IsFiniteSet(Waiting(ev, m)) /\ IsFiniteSet(Held(ev, m))
      BY <1>1 DEF Counted
    <3>2. Waiting(ev, m)' = Waiting(ev, m)
      BY <2>1, Untouched
    <3>3. /\ IsFiniteSet(Held(ev, m)')
          /\ Cardinality(Held(ev, m)') + For(job, ev, m) = Cardinality(Held(ev, m))
      BY <1>1, <2>1, <3>1, HoldsNoMore
    <3>4. m \in Recipients
      BY DEF Recipients
    <3>5. rows'[ev][m] = rows[ev][m] + For(job, ev, m)
      <4>1. rows[ev][m] \in Nat
        BY <1>1, <3>4
      <4>2. CASE ev = job.ev /\ m = job.who
        BY <1>1, <2>1, <2>2, <4>2 DEF For
      <4>3. CASE ~(ev = job.ev /\ m = job.who)
        <5>1. rows'[ev][m] = rows[ev][m]
          BY <1>1, <2>1, <2>2, <3>4, <4>3
        <5>2. For(job, ev, m) = 0
          BY <4>3 DEF For
        <5> QED  BY <4>1, <5>1, <5>2
      <4> QED  BY <4>2, <4>3
    <3>6. Cardinality(Held(ev, m)') \in Nat /\ rows'[ev][m] \in Nat
      BY <2>3, <3>3, <3>4, FS_CardinalityType
    <3> HIDE DEF job
    <3>7. /\ Kinds /\ Counted(ev, m) /\ faults' = faults /\ faults \in Nat
          /\ CoreDue(ev, m)' = CoreDue(ev, m) /\ ConsumerDue(ev, m)' = ConsumerDue(ev, m)
      BY <1>1, <1>4, <2>1
    <3>8. For(job, ev, m) \in {0, 1}
      BY <1>6
    <3>9. IsFiniteSet(Waiting(ev, m)')
      BY <3>1, <3>2
    <3>10. rows'[ev][m] + Cardinality(Waiting(ev, m)') + Cardinality(Held(ev, m)')
              + CoreDue(ev, m)' + ConsumerDue(ev, m)' + faults
            <= rows[ev][m] + Cardinality(Waiting(ev, m)) + Cardinality(Held(ev, m))
              + CoreDue(ev, m) + ConsumerDue(ev, m) + faults'
      <4>1. /\ rows[ev][m] \in Nat /\ Cardinality(Waiting(ev, m)) \in Nat
            /\ Cardinality(Held(ev, m)) \in Nat
            /\ CoreDue(ev, m) \in {0, 1} /\ ConsumerDue(ev, m) \in {0, 1}
        BY <3>7, Amounts
      <4> QED  BY <3>2, <3>3, <3>5, <3>6, <3>7, <3>8, <4>1
    <3> QED  BY <3>3, <3>6, <3>7, <3>9, <3>10, Balanced
  <2> QED  BY <1>3, <2>4, <2>5 DEF NewsInv
<1>9. CASE Push(w)
  <2>1. /\ worker[w].pc = "stored" /\ UNCHANGED <<queue, rows, faults>>
        /\ worker' = [worker EXCEPT ![w] = idle]
    BY <1>9 DEF Push, PushFailed, idle
  <2>2. Kinds'
    BY <1>1, <1>2, <1>5, <2>1 DEF Kinds, Bag
  <2>3. ASSUME NEW ev \in Events, NEW m \in Members PROVE Counted(ev, m)'
    <3>1. IsFiniteSet(Waiting(ev, m)) /\ IsFiniteSet(Held(ev, m))
      BY <1>1 DEF Counted
    <3>2. Waiting(ev, m)' = Waiting(ev, m)
      BY <2>1, Untouched
    <3>3. /\ IsFiniteSet(Held(ev, m)')
          /\ Cardinality(Held(ev, m)') = Cardinality(Held(ev, m))
      BY <1>1, <1>5, <2>1, <3>1, HoldsNoMore
    <3> QED  BY <1>1, <1>4, <2>1, <3>1, <3>2, <3>3, Amounts, Balanced
  <2> QED  BY <1>3, <2>2, <2>3 DEF NewsInv
<1>10. ASSUME NEW j \in Jobs, \A ev, m : For(j, ev, m) = For(job, ev, m),
              queue' \in {queue, Queued(j)}, UNCHANGED rows, Fault,
              worker' = [worker EXCEPT ![w] = idle]
       PROVE  NewsInv'
  <2>1. Bag'
    BY <1>1, <1>10, BagMoves DEF Bag
  <2>2. faults' = faults + 1 /\ faults' \in 0 .. MaxFaults
    BY <1>1, <1>10 DEF Fault
  <2>3. Kinds'
    BY <1>1, <1>2, <1>5, <1>10, <2>1, <2>2 DEF Kinds
  <2>4. ASSUME NEW ev \in Events, NEW m \in Members PROVE Counted(ev, m)'
    <3>1. IsFiniteSet(Waiting(ev, m)) /\ IsFiniteSet(Held(ev, m))
      BY <1>1 DEF Counted
    <3>2. /\ IsFiniteSet(Waiting(ev, m)') /\ Cardinality(Waiting(ev, m)') \in Nat
          /\ Cardinality(Waiting(ev, m)') <= Cardinality(Waiting(ev, m)) + For(j, ev, m)
      <4>1. CASE queue' = Queued(j)
        BY <1>1, <1>6, <3>1, <4>1, WaitsOnce, FS_CardinalityType
      <4>2. CASE queue' = queue
        BY <1>6, <3>1, <4>2, Untouched, FS_CardinalityType
      <4> QED  BY <1>10, <4>1, <4>2
    <3>3. /\ IsFiniteSet(Held(ev, m)') /\ Cardinality(Held(ev, m)') \in Nat
          /\ Cardinality(Held(ev, m)') <= Cardinality(Held(ev, m))
      <4>1. /\ IsFiniteSet(Held(ev, m)')
            /\ worker[w].pc = "taken" =>
                  Cardinality(Held(ev, m)') + For(job, ev, m) = Cardinality(Held(ev, m))
            /\ worker[w].pc # "taken" => Cardinality(Held(ev, m)') = Cardinality(Held(ev, m))
        <5>1. Kinds /\ idle.pc # "taken" /\ IsFiniteSet(Held(ev, m))
          BY <1>1, <1>5, <3>1
        <5>2. worker' = [worker EXCEPT ![w] = idle]
          BY <1>10
        <5> QED  BY <5>1, <5>2, HoldsNoMore
      <4>2. Cardinality(Held(ev, m)') \in Nat /\ Cardinality(Held(ev, m)) \in Nat
        BY <3>1, <4>1, FS_CardinalityType
      <4>3. For(job, ev, m) \in {0, 1}
        BY <1>6
      <4> HIDE DEF job
      <4> QED  BY <4>1, <4>2, <4>3
    <3> QED  BY <1>1, <1>4, <1>6, <1>10, <2>2, <3>2, <3>3, Amounts, Balanced
  <2> QED  BY <1>3, <2>3, <2>4 DEF NewsInv
<1>11. CASE StoreFails(w)
  <2> DEFINE again == [job EXCEPT !.tries = job.tries + 1]
  <2>1. CASE MayRetry(job)
    <3>1. again \in Jobs /\ again.ev = job.ev /\ again.who = job.who
      BY <1>1, <2>1, NotificationsAssumption DEF Jobs, MayRetry
    <3>2. \A ev, m : For(again, ev, m) = For(job, ev, m)
      BY <3>1 DEF For
    <3>3. queue' = Queued(again) /\ UNCHANGED rows /\ Fault /\ worker' = [worker EXCEPT ![w] = idle]
      BY <1>11, <2>1 DEF StoreFails, idle
    <3> HIDE DEF again, job
    <3> QED  BY <1>10, <3>1, <3>2, <3>3
  <2>2. CASE ~MayRetry(job)
    <3>1. queue' = queue /\ UNCHANGED rows /\ Fault /\ worker' = [worker EXCEPT ![w] = idle]
      BY <1>11, <2>2 DEF StoreFails, idle
    <3> HIDE DEF job
    <3> QED  BY <1>1, <1>10, <3>1
  <2> QED  BY <2>1, <2>2
<1>12. CASE WorkerDies(w)
  <2>1. /\ queue' \in {queue, Queued(job)} /\ UNCHANGED rows /\ Fault
        /\ worker' = [worker EXCEPT ![w] = idle]
    BY <1>12 DEF WorkerDies, idle
  <2> HIDE DEF job
  <2> QED  BY <1>1, <1>10, <2>1
<1> QED  BY <1>7, <1>8, <1>9, <1>11, <1>12 DEF WorkerStep

-----------------------------------------------------------------------------
(* The invariant holds of the specification.                                 *)
LEMMA NewsInvariant == Spec => []NewsInv
<1>1. NewsInv /\ [Next]_vars => NewsInv'
  <2> SUFFICES ASSUME NewsInv, [Next]_vars PROVE NewsInv'
    OBVIOUS
  <2>1. CASE UNCHANGED vars
    <3>1. UNCHANGED <<core, log, consumer, queue, worker, rows, faults>>
      BY <2>1 DEF vars
    <3>2. Kinds' /\ Order'
      BY <3>1 DEF NewsInv, Kinds, Bag, Order
    <3>3. ASSUME NEW ev \in Events, NEW m \in Members PROVE Counted(ev, m)'
      BY <3>1, Untouched DEF NewsInv, Counted, Owed
    <3> QED  BY <3>2, <3>3 DEF NewsInv
  <2> QED  BY <2>1, CoreKeeps, ConsumerKeeps, WorkerKeeps DEF Next
<1> QED  BY <1>1, NewsInit, PTL DEF Spec

(* The broker holds jobs, each retried MaxRetries times at most, and the     *)
(* consumer never reads past the end of the topic.                           *)
THEOREM NotificationsTypeCorrect == Spec => []TypeOK
<1>1. NewsInv => TypeOK
  BY DEF NewsInv, Kinds, Bag, TypeOK
<1> QED  BY <1>1, NewsInvariant, PTL

(* A member gets at most two notifications of a task, and at most one of its *)
(* assignment, and one more for each fault.                                  *)
THEOREM CopiesBounded == Spec => []CopiesAreBounded
<1>1. NewsInv => CopiesAreBounded
  <2> SUFFICES ASSUME NewsInv, NEW m \in Members
               PROVE  rows["created"][m] <= 2 + faults /\ rows["assigned"][m] <= 1 + faults
    BY DEF CopiesAreBounded
  <2>1. ASSUME NEW ev \in Events PROVE rows[ev][m] <= Limit(ev) + faults
    <3>1. Kinds /\ Counted(ev, m)
      BY DEF NewsInv
    <3>2. Owed(ev, m) <= Limit(ev) + faults
      BY <3>1 DEF Counted
    <3> QED  BY <3>1, <3>2, Amounts DEF Owed
  <2> QED  BY <2>1 DEF Events, Limit
<1> QED  BY <1>1, NewsInvariant, PTL

-----------------------------------------------------------------------------
(***************************************************************************)
(* The other side of the count: what is stored and what may still come is  *)
(* never less than two for a member, but for the faults so far.  So one    *)
(* fault, wherever it strikes, leaves one notification.                    *)
(***************************************************************************)

(* The request died before it came to its event, or lost the event first.    *)
Silent == core.pc = "dead" /\ log = <<>>

Total(m)  == Owed("created", m) + faults
Backed(m) == Silent \/ Total(m) >= 2

(* The request is over, the consumer has read the topic to its end, and no   *)
(* job waits or is with a worker.                                            *)
AtRest ==
    /\ core.pc \in {"done", "dead"}
    /\ consumer.pc = "polling" /\ consumer.next > Len(log)
    /\ BagToSet(queue) = {}
    /\ \A w \in Workers : NowOf(w) = "idle"

(* When everything has come to rest, and at most one fault has happened,     *)
(* every member but the reporter has been told, unless the request itself    *)
(* never came to its event.                                                  *)
QuietMeansTold ==
    AtRest /\ ~Silent /\ faults <= 1 =>
        \A m \in Members \ {Reporter} : rows["created"][m] > 0

(* What is added up of two states of which both are counted.                 *)
LEMMA TwoAmounts ==
    ASSUME NewsInv, NewsInv', NEW m \in Members
    PROVE  /\ rows["created"][m] \in Nat /\ rows'["created"][m] \in Nat
           /\ faults \in Nat /\ faults' \in Nat
           /\ IsFiniteSet(Waiting("created", m)) /\ IsFiniteSet(Held("created", m))
           /\ Cardinality(Waiting("created", m)) \in Nat
           /\ Cardinality(Waiting("created", m)') \in Nat
           /\ Cardinality(Held("created", m)) \in Nat
           /\ Cardinality(Held("created", m)') \in Nat
           /\ CoreDue("created", m) \in {0, 1} /\ CoreDue("created", m)' \in {0, 1}
           /\ ConsumerDue("created", m) \in {0, 1} /\ ConsumerDue("created", m)' \in {0, 1}
<1>1. "created" \in Events
  BY DEF Events
<1>2. /\ Kinds /\ Counted("created", m)
      /\ IsFiniteSet(Waiting("created", m)) /\ IsFiniteSet(Held("created", m))
  BY <1>1 DEF NewsInv, Counted
<1>3. IsFiniteSet(Waiting("created", m)') /\ IsFiniteSet(Held("created", m)')
  BY <1>1 DEF NewsInv, Counted
<1>4. /\ rows'["created"][m] \in Nat /\ faults' \in Nat
  <2>1. rows' \in [Events -> [Recipients -> Nat]] /\ faults' \in 0 .. MaxFaults
    BY DEF NewsInv, Kinds
  <2> QED  BY <1>1, <2>1, NotificationsAssumption DEF Recipients
<1>5. CoreDue("created", m)' \in {0, 1} /\ ConsumerDue("created", m)' \in {0, 1}
  BY DEF CoreDue, ConsumerDue
<1> QED  BY <1>1, <1>2, <1>3, <1>4, <1>5, Amounts, FS_CardinalityType

(* Where no job moves, what is due is all that may fall, at the cost of a    *)
(* fault.                                                                    *)
LEMMA NothingLost ==
    ASSUME NewsInv, NewsInv', NEW m \in Members, UNCHANGED <<queue, worker, rows>>,
           CoreDue("created", m) + ConsumerDue("created", m) + faults
              <= CoreDue("created", m)' + ConsumerDue("created", m)' + faults'
    PROVE  Total(m) <= Total(m)'
<1>1. /\ Waiting("created", m)' = Waiting("created", m)
      /\ Held("created", m)' = Held("created", m)
  BY Untouched
<1> QED  BY <1>1, TwoAmounts DEF Total, Owed

(* A job is queued for one that was due, or refused by a fault.              *)
LEMMA OneForOne ==
    ASSUME NewsInv, NewsInv', NEW m \in Members, NEW j \in Jobs,
           UNCHANGED <<worker, rows>>,
           (queue' = Queued(j) /\ UNCHANGED faults) \/ (Fault /\ UNCHANGED queue),
           CoreDue("created", m) + ConsumerDue("created", m)
              <= CoreDue("created", m)' + ConsumerDue("created", m)' + For(j, "created", m)
    PROVE  Total(m) <= Total(m)'
<1>1. Held("created", m)' = Held("created", m)
  BY Untouched
<1>2. For(j, "created", m) \in {0, 1}
  BY DEF For
<1>3. CASE queue' = Queued(j) /\ UNCHANGED faults
  <2>1. Cardinality(Waiting("created", m)') =
           Cardinality(Waiting("created", m)) + For(j, "created", m)
    BY <1>3, TwoAmounts, WaitsOnce DEF NewsInv, Kinds
  <2> QED  BY <1>1, <1>2, <1>3, <2>1, TwoAmounts DEF Total, Owed
<1>4. CASE Fault /\ UNCHANGED queue
  <2>1. faults' = faults + 1
    BY <1>4 DEF Fault
  <2>2. CoreDue("created", m) + ConsumerDue("created", m) + faults
           <= CoreDue("created", m)' + ConsumerDue("created", m)' + faults'
    BY <1>2, <2>1, TwoAmounts
  <2> QED  BY <1>4, <2>2, NothingLost
<1> QED  BY <1>3, <1>4

(* The request passes on what it owes, or dies before anyone can know.       *)
LEMMA CoreBacks ==
    ASSUME NewsInv, NewsInv', Create \/ CoreStep \/ CoreDies, NEW m \in Members \ {Reporter}
    PROVE  Silent' \/ Total(m) <= Total(m)'
<1>1. /\ core \in [pc : {"idle", "created", "published", "fanout", "done", "dead"},
                   todo : SUBSET Members]
      /\ Order /\ log \in {<<>>, <<"created">>, <<"assigned">>, <<"created", "assigned">>}
      /\ consumer.next \in 1 .. Len(log) + 1 /\ consumer.committed \in 1 .. Len(log) + 1
  BY DEF NewsInv, Kinds
<1>2. CASE Create
  <2>1. /\ core.pc = "idle" /\ core'.pc = "created"
        /\ UNCHANGED <<log, consumer, queue, worker, rows, faults>>
    BY <1>1, <1>2 DEF Create
  <2>2. /\ CoreDue("created", m)' = CoreDue("created", m)
        /\ ConsumerDue("created", m)' = ConsumerDue("created", m)
    BY <2>1 DEF CoreDue, CoreMay, ConsumerDue, ConsumerMay, From
  <2> QED  BY <2>1, <2>2, NothingLost, TwoAmounts
<1>3. CASE PublishCreated
  <2>1. /\ core.pc = "created" /\ log = <<>> /\ core'.pc = "published"
        /\ UNCHANGED <<consumer, queue, worker, rows>>
        /\ \/ log' = Append(log, "created") /\ faults' = faults
           \/ faults' = faults + 1
    BY <1>1, <1>3 DEF PublishCreated, Publish, Order, Fault
  <2>2. consumer.next = 1 /\ consumer.committed = 1
    BY <1>1, <2>1
  <2>3. CoreDue("created", m)' = 1
    BY <2>1 DEF CoreDue, CoreMay
  <2>4. CASE log' = Append(log, "created") /\ faults' = faults
    <3>1. log' # <<>> /\ log'[1] = "created"
      BY <2>1, <2>4
    <3>2. ConsumerDue("created", m)' = 1
      BY <2>1, <2>2, <3>1 DEF ConsumerDue, ConsumerMay, From
    <3> QED  BY <2>1, <2>3, <2>4, <3>2, NothingLost, TwoAmounts
  <2>5. CASE faults' = faults + 1
    BY <2>1, <2>3, <2>5, NothingLost, TwoAmounts
  <2> QED  BY <2>1, <2>4, <2>5
<1>4. CASE PublishAssigned
  <2>1. /\ core.pc = "published" /\ log \in {<<>>, <<"created">>}
        /\ core' = [pc |-> "fanout", todo |-> Members \ {Reporter}]
        /\ UNCHANGED <<consumer, queue, worker, rows>>
        /\ faults' \in {faults, faults + 1}
        /\ log' \in {log, Append(log, "assigned")}
    BY <1>1, <1>4 DEF PublishAssigned, Publish, Order, Fault
  <2>2. CoreDue("created", m)' = 1
    BY <2>1 DEF CoreDue, CoreMay
  <2>3. log = <<"created">> => log' # <<>> /\ log'[1] = "created"
    <3>1. CASE log = <<"created">> /\ log' = Append(log, "assigned")
      <4>1. log' = <<"created", "assigned">>
        BY <3>1, BothEvents
      <4> QED  BY <4>1
    <3>2. CASE log = <<"created">> /\ log' = log
      BY <3>2
    <3> QED  BY <2>1, <3>1, <3>2
  <2>4. ConsumerDue("created", m) <= ConsumerDue("created", m)'
    <3>1. ConsumerMay("created", m) => ConsumerMay("created", m)'
      BY <2>1, <2>3 DEF ConsumerMay, From
    <3> QED  BY <3>1 DEF ConsumerDue
  <2> QED  BY <2>1, <2>2, <2>4, NothingLost, TwoAmounts
<1>5. ASSUME NEW n \in Members, Fanout(n) PROVE Total(m) <= Total(m)'
  <2> DEFINE j == Job("created", n)
  <2>1. j \in Jobs /\ j.ev = "created" /\ j.who = n
    BY NotificationsAssumption DEF Job, Jobs, Events, Recipients
  <2> HIDE DEF j
  <2>2. /\ core.pc = "fanout" /\ core'.pc = "fanout" /\ core'.todo = core.todo \ {n}
        /\ UNCHANGED <<log, consumer, worker, rows>>
        /\ (queue' = Queued(j) /\ UNCHANGED faults) \/ (Fault /\ UNCHANGED queue)
    BY <1>1, <1>5 DEF Fanout, j
  <2>3. CoreDue("created", m) <= CoreDue("created", m)' + For(j, "created", m)
    BY <2>1, <2>2 DEF CoreDue, CoreMay, For
  <2>4. ConsumerDue("created", m)' = ConsumerDue("created", m)
    BY <2>2 DEF ConsumerDue, ConsumerMay, From
  <2>5. For(j, "created", m) \in {0, 1}
    BY DEF For
  <2>6. CoreDue("created", m) + ConsumerDue("created", m)
           <= CoreDue("created", m)' + ConsumerDue("created", m)' + For(j, "created", m)
    BY <2>3, <2>4, <2>5, TwoAmounts
  <2> QED  BY <2>1, <2>2, <2>6, OneForOne
<1>6. CASE Assign
  <2> DEFINE j == Job("assigned", Assignee)
  <2>1. j \in Jobs
    BY NotificationsAssumption DEF Job, Jobs, Events, Recipients
  <2> HIDE DEF j
  <2>2. /\ core.pc = "fanout" /\ core.todo = {} /\ core'.pc = "done"
        /\ UNCHANGED <<log, consumer, worker, rows>>
        /\ (queue' = Queued(j) /\ UNCHANGED faults) \/ (Fault /\ UNCHANGED queue)
    BY <1>1, <1>6 DEF Assign, j
  <2>3. CoreDue("created", m) = 0
    BY <2>2 DEF CoreDue, CoreMay
  <2>4. ConsumerDue("created", m)' = ConsumerDue("created", m)
    BY <2>2 DEF ConsumerDue, ConsumerMay, From
  <2>5. For(j, "created", m) \in {0, 1}
    BY DEF For
  <2>6. CoreDue("created", m) + ConsumerDue("created", m)
           <= CoreDue("created", m)' + ConsumerDue("created", m)' + For(j, "created", m)
    BY <2>3, <2>4, <2>5, TwoAmounts
  <2> QED  BY <2>1, <2>2, <2>6, OneForOne
<1>7. CASE CoreDies
  <2>1. /\ core.pc \in {"created", "published", "fanout"} /\ core'.pc = "dead"
        /\ UNCHANGED <<log, consumer, queue, worker, rows>> /\ faults' = faults + 1
    BY <1>7 DEF CoreDies, Fault
  <2>2. CASE log = <<>>
    BY <2>1, <2>2 DEF Silent
  <2>3. CASE log # <<>>
    <3>1. core.pc \notin {"idle", "created"}
      BY <1>1, <2>3 DEF Order
    <3>2. ConsumerDue("created", m)' = ConsumerDue("created", m)
      BY <2>1, <3>1 DEF ConsumerDue, ConsumerMay, From
    <3>3. CoreDue("created", m) + ConsumerDue("created", m) + faults
             <= CoreDue("created", m)' + ConsumerDue("created", m)' + faults'
      BY <2>1, <3>2, TwoAmounts
    <3> QED  BY <2>1, <3>3, NothingLost
  <2> QED  BY <2>2, <2>3
<1> QED  BY <1>2, <1>3, <1>4, <1>5, <1>6, <1>7 DEF CoreStep

(* The consumer reads an event again after a crash unless it has committed   *)
(* past it, so that a crash loses at most what it was about to queue.        *)
LEMMA ConsumerBacks ==
    ASSUME NewsInv, NewsInv', ConsumerStep \/ AutoCommit \/ ConsumerDies, NEW m \in Members
    PROVE  Total(m) <= Total(m)'
<1>1. /\ Order /\ log \in {<<>>, <<"created">>, <<"assigned">>, <<"created", "assigned">>}
      /\ consumer \in [pc : {"polling", "handling", "down"}, next : 1 .. Len(log) + 1,
                       committed : 1 .. Len(log) + 1, ev : Events, todo : SUBSET Recipients]
      /\ Len(log) \in Nat
  BY DEF NewsInv, Kinds
<1>2. UNCHANGED <<core, log, worker, rows>>
  BY DEF ConsumerStep, Poll, Handled, ConsumerRestarts, Dispatch, AutoCommit, ConsumerDies
<1>3. CoreDue("created", m)' = CoreDue("created", m)
  BY <1>2, Untouched
<1>4. ASSUME UNCHANGED <<queue, faults>>,
             ConsumerMay("created", m) => ConsumerMay("created", m)'
      PROVE  Total(m) <= Total(m)'
  <2>1. ConsumerDue("created", m) <= ConsumerDue("created", m)'
    BY <1>4 DEF ConsumerDue
  <2> QED  BY <1>2, <1>3, <1>4, <2>1, NothingLost, TwoAmounts
<1>5. CASE Poll
  <2>1. /\ consumer.pc = "polling" /\ consumer.next <= Len(log)
        /\ consumer'.pc = "handling" /\ consumer'.next = consumer.next + 1
        /\ consumer'.ev = log[consumer.next]
        /\ consumer'.todo = Addressed(log[consumer.next])
        /\ UNCHANGED <<queue, faults>>
    BY <1>1, <1>5 DEF Poll
  <2>2. consumer.todo = {}
    BY <1>1, <2>1 DEF Order
  <2>3. log[1] = "created" /\ From = 1 => consumer'.ev = "created" /\ m \in consumer'.todo
    BY <2>1 DEF From, Addressed
  <2>4. ConsumerMay("created", m) => ConsumerMay("created", m)'
    BY <1>2, <2>2, <2>3 DEF ConsumerMay
  <2> QED  BY <1>4, <2>1, <2>4
<1>6. CASE Handled \/ AutoCommit \/ ConsumerRestarts
  <2>1. /\ UNCHANGED <<queue, faults>> /\ consumer'.ev = consumer.ev
        /\ consumer'.todo = consumer.todo /\ From' = From
    BY <1>1, <1>6 DEF Handled, AutoCommit, ConsumerRestarts, From
  <2>2. ConsumerMay("created", m) => ConsumerMay("created", m)'
    BY <1>2, <2>1 DEF ConsumerMay
  <2> QED  BY <1>4, <2>1, <2>2
<1>7. CASE ConsumerDies
  <2>1. UNCHANGED queue /\ faults' = faults + 1
    BY <1>7 DEF ConsumerDies, Fault
  <2> QED  BY <1>2, <1>3, <2>1, NothingLost, TwoAmounts
<1>8. ASSUME NEW n \in Recipients, Dispatch(n) PROVE Total(m) <= Total(m)'
  <2> DEFINE j == Job(consumer.ev, n)
  <2>1. j \in Jobs /\ j.ev = consumer.ev /\ j.who = n
    BY <1>1, NotificationsAssumption DEF Job, Jobs
  <2> HIDE DEF j
  <2>2. /\ consumer.pc = "handling" /\ consumer'.pc = "handling"
        /\ consumer'.todo = consumer.todo \ {n}
        /\ consumer'.ev = consumer.ev /\ consumer'.next = consumer.next
        /\ (queue' = Queued(j) /\ UNCHANGED faults) \/ (Fault /\ UNCHANGED queue)
    BY <1>1, <1>8 DEF Dispatch, j
  <2>3. ConsumerDue("created", m) <= ConsumerDue("created", m)' + For(j, "created", m)
    BY <1>2, <2>1, <2>2 DEF ConsumerDue, ConsumerMay, From, For
  <2>4. For(j, "created", m) \in {0, 1}
    BY DEF For
  <2>5. CoreDue("created", m) + ConsumerDue("created", m)
           <= CoreDue("created", m)' + ConsumerDue("created", m)' + For(j, "created", m)
    BY <1>3, <2>3, <2>4, TwoAmounts
  <2> QED  BY <1>2, <2>1, <2>2, <2>5, OneForOne
<1> QED  BY <1>5, <1>6, <1>7, <1>8 DEF ConsumerStep

(* A worker turns a job into a row, puts it back, or loses it by a fault.    *)
LEMMA WorkerBacks ==
    ASSUME NewsInv, NewsInv', NEW w \in Workers, NEW m \in Members,
           WorkerStep(w) \/ StoreFails(w) \/ WorkerDies(w)
    PROVE  Total(m) <= Total(m)'
<1> DEFINE W == Waiting("created", m)
           H == Held("created", m)
<1>1. /\ Kinds /\ Bag /\ IsFiniteSet(W) /\ IsFiniteSet(H)
      /\ rows \in [Events -> [Recipients -> Nat]]
      /\ worker \in [Workers -> [pc : {"idle", "taken", "stored"}, job : Jobs]]
  BY TwoAmounts DEF NewsInv, Kinds
<1>2. UNCHANGED <<core, log, consumer>>
  BY DEF WorkerStep, Take, Store, Push, StoreFails, WorkerDies
<1>3. /\ CoreDue("created", m)' = CoreDue("created", m)
      /\ ConsumerDue("created", m)' = ConsumerDue("created", m)
  BY <1>2, Untouched
<1>4. \A j : For(j, "created", m) \in {0, 1}
  BY DEF For
<1>5. ASSUME rows["created"][m] + Cardinality(W) + Cardinality(H) + faults
               <= rows'["created"][m] + Cardinality(W') + Cardinality(H') + faults'
      PROVE  Total(m) <= Total(m)'
  BY <1>3, <1>5, TwoAmounts DEF Total, Owed
<1>6. ASSUME NEW j \in Jobs, Take(w, j) PROVE Total(m) <= Total(m)'
  <2>1. /\ worker[w].pc = "idle" /\ j \in DOMAIN queue /\ queue' = Unqueued(j)
        /\ worker' = [worker EXCEPT ![w] = [pc |-> "taken", job |-> j]]
        /\ UNCHANGED <<rows, faults>>
    BY <1>6 DEF Take, BagIn, BagToSet
  <2>2. Cardinality(W') + For(j, "created", m) = Cardinality(W)
    BY <1>1, <2>1, WaitsNoMore
  <2>3. Cardinality(H') = Cardinality(H) + For(j, "created", m)
    <3>1. Kinds /\ worker[w].pc = "idle" /\ IsFiniteSet(H)
      BY <1>1, <2>1
    <3>2. worker' = [worker EXCEPT ![w] = [pc |-> "taken", job |-> j]]
      BY <2>1
    <3> QED  BY <3>1, <3>2, HoldsOnce
  <2> HIDE DEF W, H
  <2> QED  BY <1>4, <1>5, <2>1, <2>2, <2>3, TwoAmounts DEF W, H
<1>7. CASE Store(w)
  <2> DEFINE job == worker[w].job
             x == [worker[w] EXCEPT !.pc = "stored"]
  <2>1. job.ev \in Events /\ job.who \in Recipients /\ x.pc # "taken"
    BY <1>1 DEF Jobs
  <2>2. /\ worker[w].pc = "taken" /\ UNCHANGED <<queue, faults>>
        /\ rows' = [rows EXCEPT ![job.ev][job.who] = rows[job.ev][job.who] + 1]
        /\ worker' = [worker EXCEPT ![w] = x]
    BY <1>1, <1>7 DEF Store
  <2>3. Cardinality(H') + For(job, "created", m) = Cardinality(H)
    <3> HIDE DEF x, H
    <3> QED  BY <1>1, <2>1, <2>2, HoldsNoMore DEF H
  <2>4. W' = W
    BY <2>2, Untouched
  <2>5. m \in Recipients /\ "created" \in Events
    BY DEF Recipients, Events
  <2>6. rows'["created"][m] = rows["created"][m] + For(job, "created", m)
    <3>1. CASE "created" = job.ev /\ m = job.who
      BY <1>1, <2>1, <2>2, <3>1 DEF For
    <3>2. CASE ~("created" = job.ev /\ m = job.who)
      <4>1. rows'["created"][m] = rows["created"][m]
        BY <1>1, <2>1, <2>2, <2>5, <3>2
      <4>2. For(job, "created", m) = 0
        BY <3>2 DEF For
      <4> QED  BY <4>1, <4>2, TwoAmounts
    <3> QED  BY <3>1, <3>2
  <2>7. faults' = faults /\ For(job, "created", m) \in {0, 1}
    BY <1>4, <2>2
  <2> HIDE DEF W, H, job
  <2>8. /\ rows["created"][m] \in Nat /\ faults \in Nat /\ rows'["created"][m] \in Nat
        /\ Cardinality(W) \in Nat /\ Cardinality(H) \in Nat /\ Cardinality(H') \in Nat
    BY TwoAmounts DEF W, H
  <2> QED  BY <1>5, <2>3, <2>4, <2>6, <2>7, <2>8
<1>8. CASE Push(w)
  <2> DEFINE x == [pc |-> "idle", job |-> NoJob]
  <2>1. /\ worker[w].pc = "stored" /\ UNCHANGED <<queue, rows, faults>>
        /\ worker' = [worker EXCEPT ![w] = x] /\ x.pc # "taken"
    BY <1>8 DEF Push, PushFailed
  <2> HIDE DEF x
  <2>2. Cardinality(H') = Cardinality(H)
    BY <1>1, <2>1, HoldsNoMore
  <2>3. W' = W
    BY <2>1, Untouched
  <2> QED  BY <1>5, <2>1, <2>2, <2>3, TwoAmounts
<1>9. CASE StoreFails(w) \/ WorkerDies(w)
  <2> DEFINE x == [pc |-> "idle", job |-> NoJob]
             job == worker[w].job
             again == [job EXCEPT !.tries = job.tries + 1]
  <2>1. /\ worker' = [worker EXCEPT ![w] = x] /\ x.pc # "taken"
        /\ UNCHANGED rows /\ faults' = faults + 1
    BY <1>9 DEF StoreFails, WorkerDies, Fault
  <2>2. \E j \in Jobs : queue' \in {queue, Queued(j)}
    <3>1. job \in Jobs
      BY <1>1
    <3>2. MayRetry(job) => again \in Jobs
      BY <3>1, NotificationsAssumption DEF MayRetry, Jobs
    <3>3. CASE StoreFails(w)
      <4>1. queue' = IF MayRetry(job) THEN Queued(again) ELSE queue
        BY <3>3 DEF StoreFails
      <4> HIDE DEF job, again
      <4> QED  BY <3>1, <3>2, <4>1
    <3>4. CASE WorkerDies(w)
      <4>1. queue' \in {queue, Queued(job)}
        BY <3>4 DEF WorkerDies
      <4> HIDE DEF job
      <4> QED  BY <3>1, <4>1
    <3> QED  BY <1>9, <3>3, <3>4
  <2> HIDE DEF x, job, again
  <2>3. Cardinality(H) <= Cardinality(H') + 1
    <3>1. /\ worker[w].pc = "taken" =>
               Cardinality(H') + For(worker[w].job, "created", m) = Cardinality(H)
          /\ worker[w].pc # "taken" => Cardinality(H') = Cardinality(H)
      BY <1>1, <2>1, HoldsNoMore
    <3>2. /\ For(worker[w].job, "created", m) \in {0, 1}
          /\ Cardinality(H') \in Nat /\ Cardinality(H) \in Nat
      BY <1>4, TwoAmounts
    <3> HIDE DEF H
    <3> QED  BY <3>1, <3>2
  <2>4. Cardinality(W) <= Cardinality(W')
    <3>1. PICK j \in Jobs : queue' \in {queue, Queued(j)}
      BY <2>2
    <3>2. CASE queue' = Queued(j)
      <4>1. Cardinality(W') = Cardinality(W) + For(j, "created", m)
        BY <1>1, <3>2, WaitsOnce
      <4>2. For(j, "created", m) \in {0, 1} /\ Cardinality(W) \in Nat
        BY <1>4, TwoAmounts
      <4> HIDE DEF W
      <4> QED  BY <4>1, <4>2
    <3>3. CASE queue' = queue
      <4>1. W' = W
        BY <3>3, Untouched
      <4>2. Cardinality(W) \in Nat
        BY TwoAmounts
      <4> HIDE DEF W
      <4> QED  BY <4>1, <4>2
    <3> QED  BY <3>1, <3>2, <3>3
  <2>5. /\ rows["created"][m] \in Nat /\ faults \in Nat
        /\ Cardinality(W) \in Nat /\ Cardinality(H) \in Nat
        /\ Cardinality(W') \in Nat /\ Cardinality(H') \in Nat
    BY TwoAmounts
  <2> HIDE DEF W, H
  <2> QED  BY <1>5, <2>1, <2>3, <2>4, <2>5
<1> QED  BY <1>6, <1>7, <1>8, <1>9 DEF WorkerStep

(* Whatever happens, a member is owed two notifications, less the faults.    *)
LEMMA BackedInvariant == Spec => [](\A m \in Members \ {Reporter} : Backed(m))
<1> DEFINE AllBacked == \A m \in Members \ {Reporter} : Backed(m)
<1>1. NewsInv /\ Init => AllBacked
  <2> SUFFICES ASSUME NewsInv, Init, NEW m \in Members PROVE Total(m) >= 2
    BY DEF Backed
  <2>1. CoreDue("created", m) = 1 /\ ConsumerDue("created", m) = 1
    BY DEF Init, CoreDue, CoreMay, ConsumerDue, ConsumerMay
  <2>2. Kinds /\ Counted("created", m) /\ "created" \in Events
    BY DEF NewsInv, Events
  <2> QED  BY <2>1, <2>2, Amounts DEF Total, Owed
<1>2. NewsInv /\ NewsInv' /\ AllBacked /\ [Next]_vars => AllBacked'
  <2> SUFFICES ASSUME NewsInv, NewsInv', [Next]_vars, NEW m \in Members \ {Reporter},
                      Backed(m)
               PROVE  Backed(m)'
    OBVIOUS
  <2>1. Silent => Silent'
    <3>1. ASSUME Silent, Next PROVE Silent'
      <4>1. core.pc = "dead" /\ log = <<>>
        BY <3>1 DEF Silent
      <4>2. ~Create /\ ~CoreStep /\ ~CoreDies
        BY <4>1 DEF Create, CoreStep, PublishCreated, PublishAssigned, Publish, Assign,
                    Fanout, CoreDies
      <4>3. UNCHANGED <<core, log>>
        BY <3>1, <4>2 DEF Next, ConsumerStep, Poll, Handled, ConsumerRestarts, Dispatch,
                    AutoCommit, ConsumerDies, WorkerStep, Take, Store, Push, StoreFails,
                    WorkerDies
      <4> QED  BY <4>1, <4>3 DEF Silent
    <3>2. ASSUME Silent, UNCHANGED vars PROVE Silent'
      BY <3>2 DEF Silent, vars
    <3> QED  BY <3>1, <3>2
  <2>2. Silent' \/ Total(m) <= Total(m)'
    <3>1. CASE UNCHANGED vars
      <4>1. UNCHANGED <<core, log, consumer, queue, worker, rows, faults>>
        BY <3>1 DEF vars
      <4>2. /\ CoreDue("created", m)' = CoreDue("created", m)
            /\ ConsumerDue("created", m)' = ConsumerDue("created", m)
        BY <4>1, Untouched
      <4> QED  BY <4>1, <4>2, NothingLost, TwoAmounts
    <3> QED  BY <3>1, CoreBacks, ConsumerBacks, WorkerBacks DEF Next
  <2>3. Total(m) \in Nat /\ Total(m)' \in Nat
    BY TwoAmounts DEF Total, Owed
  <2> QED  BY <2>1, <2>2, <2>3 DEF Backed
<1> QED  BY <1>1, <1>2, NewsInvariant, PTL DEF Spec

(* "Durable fallback": a single fault in the request, the topic, the         *)
(* consumer, the broker or a worker keeps the news from nobody.              *)
THEOREM OneFaultLosesNothing == Spec => []QuietMeansTold
<1> DEFINE AllBacked == \A m \in Members \ {Reporter} : Backed(m)
<1>1. NewsInv /\ AllBacked => QuietMeansTold
  <2> SUFFICES ASSUME NewsInv, AtRest, ~Silent, faults <= 1,
                      NEW m \in Members \ {Reporter}, Backed(m)
               PROVE  rows["created"][m] > 0
    BY DEF QuietMeansTold
  <2>1. Kinds /\ Order /\ Counted("created", m) /\ "created" \in Events
    BY DEF NewsInv, Events
  <2>2. Waiting("created", m) = {} /\ Held("created", m) = {}
    BY DEF AtRest, Waiting, Held, BagToSet
  <2>3. CoreDue("created", m) = 0
    BY DEF AtRest, CoreDue, CoreMay
  <2>4. ConsumerDue("created", m) = 0
    <3>1. /\ core.pc \in {"done", "dead"} /\ consumer.pc = "polling"
          /\ consumer.next > Len(log) /\ consumer.todo = {}
      BY <2>1 DEF AtRest, Order
    <3>2. log # <<>> => Len(log) \in Nat /\ Len(log) >= 1 /\ consumer.next \in Nat
      BY <2>1 DEF Kinds
    <3>3. ~(log # <<>> /\ From = 1)
      BY <3>1, <3>2 DEF From
    <3> QED  BY <3>1, <3>3 DEF ConsumerDue, ConsumerMay
  <2>5. Total(m) = rows["created"][m] + faults
    BY <2>1, <2>2, <2>3, <2>4, Amounts, FS_EmptySet DEF Total, Owed
  <2> QED  BY <2>1, <2>5, Amounts DEF Backed
<1> QED  BY <1>1, BackedInvariant, NewsInvariant, PTL
=============================================================================
