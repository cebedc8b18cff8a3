--------------------------- MODULE Notifications ---------------------------
(***************************************************************************)
(* How the members of a workspace hear of a new task (services/core).      *)
(* TaskService.create writes the task, publishes task.created and          *)
(* task.assigned to Kafka, and queues a Celery job for every member but    *)
(* the reporter and one for the assignee.  consume_events reads the topic  *)
(* and queues jobs again, as a fallback.  A worker stores a row per job.   *)
(*                                                                         *)
(* Faults are a refused queue, a lost event, a dead request, a dead        *)
(* consumer, a dead worker and a refused insert; MaxFaults bounds their    *)
(* number.  A push or a broadcast that fails is only logged, and is none.  *)
(***************************************************************************)
EXTENDS Naturals, Sequences, FiniteSets, Bags

CONSTANTS
    Members,     \* the active members of the workspace
    Reporter,    \* the member who creates the task
    Assignee,    \* the member it is assigned to
    Workers,     \* Celery worker processes
    MaxRetries,  \* max_retries of dispatch_notification
    MaxFaults    \* bounds the faults

ASSUME NotificationsAssumption ==
    /\ IsFiniteSet(Members) /\ {Reporter, Assignee} \subseteq Members
    /\ Reporter # Assignee
    /\ "workspace" \notin Members  \* ids of users and of workspaces are apart
    /\ MaxRetries \in Nat /\ MaxFaults \in Nat

VARIABLES
    core,        \* the request: where it is, members it still has to queue
    log,         \* the events in the topic
    consumer,    \* where it is, next offset, committed offset, event, members to do
    queue,       \* the bag of the jobs that wait in the broker
    worker,      \* per worker, where it is and its job
    rows,        \* per event and recipient, the notifications stored
    faults

vars == <<core, log, consumer, queue, worker, rows, faults>>

-----------------------------------------------------------------------------
Events     == {"created", "assigned"}
Workspace  == "workspace"
Recipients == Members \cup {Workspace}
Jobs       == [ev : Events, who : Recipients, tries : 0 .. MaxRetries]
NoJob      == [ev |-> "created", who |-> Workspace, tries |-> 0]

Job(ev, m)  == [ev |-> ev, who |-> m, tries |-> 0]
Queued(j)   == queue (+) SetToBag({j})
Unqueued(j) == queue (-) SetToBag({j})

(* Variants of the definitions below, each with a mistake the code avoids.   *)
FannedOutTaskless(ev) == {}
AnotherTry(j)         == j.tries <= MaxRetries
RetriedPush(j)        == IF BagIn(j, queue) THEN queue ELSE Queued(j)

(* Whom _process_message addresses.  The payload of task.created names no    *)
(* actor, so that nobody is excluded; that of task.assigned names no         *)
(* user_id, so that the id of the workspace is taken for one.                *)
Addressed(ev) == IF ev = "created" THEN Members ELSE {Workspace}

(* self.retry queues the job once more and acknowledges this copy.           *)
MayRetry(j) == j.tries < MaxRetries

(* A failed push or broadcast is caught; the job is acknowledged.            *)
PushFailed(j) == queue

Fault == faults < MaxFaults /\ faults' = faults + 1

-----------------------------------------------------------------------------
Init ==
    /\ core = [pc |-> "idle", todo |-> {}]
    /\ log = <<>>
    /\ consumer = [pc |-> "polling", next |-> 1, committed |-> 1, ev |-> "created", todo |-> {}]
    /\ queue = EmptyBag
    /\ worker = [w \in Workers |-> [pc |-> "idle", job |-> NoJob]]
    /\ rows = [ev \in Events |-> [m \in Recipients |-> 0]]
    /\ faults = 0

-----------------------------------------------------------------------------
(* TaskService.create, which no transaction surrounds: the insert commits,   *)
(* and on_commit publishes at once.                                          *)
Create ==
    /\ core.pc = "idle"
    /\ core' = [core EXCEPT !.pc = "created"]
    /\ UNCHANGED <<log, consumer, queue, worker, rows, faults>>

(* _publish logs a failure and returns.                                      *)
Publish(ev, from, to) ==
    /\ core.pc = from
    /\ \/ log' = Append(log, ev) /\ UNCHANGED faults
       \/ Fault /\ UNCHANGED log
    /\ core' = [pc |-> to, todo |-> IF to = "fanout" THEN Members \ {Reporter} ELSE {}]
    /\ UNCHANGED <<consumer, queue, worker, rows>>

PublishCreated  == Publish("created", "created", "published")
PublishAssigned == Publish("assigned", "published", "fanout")

(* fanout_to_workspace_members: one job per member; a refused one is logged. *)
Fanout(m) ==
    /\ core.pc = "fanout" /\ m \in core.todo
    /\ \/ queue' = Queued(Job("created", m)) /\ UNCHANGED faults
       \/ Fault /\ UNCHANGED queue
    /\ core' = [core EXCEPT !.todo = @ \ {m}]
    /\ UNCHANGED <<log, consumer, worker, rows>>

(* The assignee's own job; a refused one ends the request with an error.     *)
Assign ==
    /\ core.pc = "fanout" /\ core.todo = {}
    /\ \/ queue' = Queued(Job("assigned", Assignee)) /\ UNCHANGED faults
       \/ Fault /\ UNCHANGED queue
    /\ core' = [core EXCEPT !.pc = "done"]
    /\ UNCHANGED <<log, consumer, worker, rows>>

CoreDies ==
    /\ core.pc \in {"created", "published", "fanout"}
    /\ Fault
    /\ core' = [pc |-> "dead", todo |-> {}]
    /\ UNCHANGED <<log, consumer, queue, worker, rows>>

-----------------------------------------------------------------------------
(* consume_events: poll stores the offset after the message it returns.      *)
Poll ==
    /\ consumer.pc = "polling" /\ consumer.next <= Len(log)
    /\ LET ev == log[consumer.next]
       IN consumer' = [consumer EXCEPT !.pc = "handling", !.next = @ + 1,
                                       !.ev = ev, !.todo = Addressed(ev)]
    /\ UNCHANGED <<core, log, queue, worker, rows, faults>>

(* The stored offset is committed every five seconds, handled or not.        *)
AutoCommit ==
    /\ consumer.pc # "down" /\ consumer.committed # consumer.next
    /\ consumer' = [consumer EXCEPT !.committed = consumer.next]
    /\ UNCHANGED <<core, log, queue, worker, rows, faults>>

Dispatch(m) ==
    /\ consumer.pc = "handling" /\ m \in consumer.todo
    /\ \/ queue' = Queued(Job(consumer.ev, m)) /\ UNCHANGED faults
       \/ Fault /\ UNCHANGED queue
    /\ consumer' = [consumer EXCEPT !.todo = @ \ {m}]
    /\ UNCHANGED <<core, log, worker, rows>>

Handled ==
    /\ consumer.pc = "handling" /\ consumer.todo = {}
    /\ consumer' = [consumer EXCEPT !.pc = "polling"]
    /\ UNCHANGED <<core, log, queue, worker, rows, faults>>

ConsumerDies ==
    /\ consumer.pc # "down"
    /\ Fault
    /\ consumer' = [consumer EXCEPT !.pc = "down", !.todo = {}]
    /\ UNCHANGED <<core, log, queue, worker, rows>>

ConsumerRestarts ==
    /\ consumer.pc = "down"
    /\ consumer' = [consumer EXCEPT !.pc = "polling", !.next = consumer.committed]
    /\ UNCHANGED <<core, log, queue, worker, rows, faults>>

-----------------------------------------------------------------------------
(* dispatch_notification: acks_late keeps the job with the broker till its   *)
(* end; queue holds the copies no worker has.                                *)
Take(w, j) ==
    /\ worker[w].pc = "idle" /\ BagIn(j, queue)
    /\ queue' = Unqueued(j)
    /\ worker' = [worker EXCEPT ![w] = [pc |-> "taken", job |-> j]]
    /\ UNCHANGED <<core, log, consumer, rows, faults>>

Store(w) ==
    LET j == worker[w].job IN
    /\ worker[w].pc = "taken"
    /\ rows' = [rows EXCEPT ![j.ev][j.who] = @ + 1]
    /\ worker' = [worker EXCEPT ![w].pc = "stored"]
    /\ UNCHANGED <<core, log, consumer, queue, faults>>

(* The insert fails: queue a retry, or give up after the last one.           *)
StoreFails(w) ==
    LET j == worker[w].job IN
    /\ worker[w].pc = "taken"
    /\ Fault
    /\ queue' = IF MayRetry(j) THEN Queued([j EXCEPT !.tries = @ + 1]) ELSE queue
    /\ worker' = [worker EXCEPT ![w] = [pc |-> "idle", job |-> NoJob]]
    /\ UNCHANGED <<core, log, consumer, rows>>

(* Broadcast and push, whether they succeed or not, and acknowledge.         *)
Push(w) ==
    /\ worker[w].pc = "stored"
    /\ queue' \in {queue, PushFailed(worker[w].job)}
    /\ worker' = [worker EXCEPT ![w] = [pc |-> "idle", job |-> NoJob]]
    /\ UNCHANGED <<core, log, consumer, rows, faults>>

(* A worker dies.  When its connection goes with it, the broker delivers     *)
(* again what was not acknowledged; when only a child of its pool is killed, *)
(* Celery acknowledges the job, for reject_on_worker_lost is not set.        *)
WorkerDies(w) ==
    /\ worker[w].pc # "idle"
    /\ Fault
    /\ queue' \in {queue, Queued(worker[w].job)}
    /\ worker' = [worker EXCEPT ![w] = [pc |-> "idle", job |-> NoJob]]
    /\ UNCHANGED <<core, log, consumer, rows>>

-----------------------------------------------------------------------------
CoreStep     == PublishCreated \/ PublishAssigned \/ Assign \/ \E m \in Members : Fanout(m)
ConsumerStep == Poll \/ Handled \/ ConsumerRestarts \/ \E m \in Recipients : Dispatch(m)
WorkerStep(w) == Store(w) \/ Push(w) \/ \E j \in Jobs : Take(w, j)

Next ==
    \/ Create \/ CoreStep \/ CoreDies
    \/ ConsumerStep \/ AutoCommit \/ ConsumerDies
    \/ \E w \in Workers : WorkerStep(w) \/ StoreFails(w) \/ WorkerDies(w)

Spec == Init /\ [][Next]_vars

(* The request, the consumer and the workers go on, a dead consumer is       *)
(* restarted by its container; faults and commits need not happen.           *)
FairSpec ==
    /\ Spec
    /\ WF_vars(CoreStep) /\ WF_vars(ConsumerStep)
    /\ \A w \in Workers : WF_vars(WorkerStep(w))

-----------------------------------------------------------------------------
(* The values each variable may have; a job is retried MaxRetries times.     *)
TypeOK ==
    /\ core \in [pc : {"idle", "created", "published", "fanout", "done", "dead"},
                 todo : SUBSET Members]
    /\ log \in {<<>>, <<"created">>, <<"assigned">>, <<"created", "assigned">>}
    /\ consumer \in [pc : {"polling", "handling", "down"}, next : 1 .. Len(log) + 1,
                     committed : 1 .. Len(log) + 1, ev : Events, todo : SUBSET Recipients]
    /\ IsABag(queue) /\ BagToSet(queue) \subseteq Jobs
    /\ worker \in [Workers -> [pc : {"idle", "taken", "stored"}, job : Jobs]]
    /\ faults \in 0 .. MaxFaults

(* "Durable fallback" of consume_events: once the request has come to its    *)
(* event, one fault, wherever it strikes and whatever it interrupts, does    *)
(* not keep the news of the task from any member but the reporter.           *)
LossNeedsTwoFaults ==
    core.pc = "published" ~>
        faults > 1 \/ \A m \in Members \ {Reporter} : rows["created"][m] > 0

(* Nothing tells a job of the consumer from one of the request, or a second  *)
(* delivery from a first; still a member is told at most twice, and once     *)
(* more per fault, for a retry follows an insert that failed and no other.   *)
CopiesAreBounded ==
    \A m \in Members : rows["created"][m] <= 2 + faults /\ rows["assigned"][m] <= 1 + faults
=============================================================================
