-------------------------- MODULE AnalysisPipeline --------------------------
(***************************************************************************)
(* The life of one analysis job in services/analysis: the row in           *)
(* analysis_jobs, the checkpoint file that makes a failed run resumable,   *)
(* and the asyncio tasks (runs) that execute the stages of the pipeline.   *)
(*                                                                         *)
(* Jobs share no state (every statement and every file is keyed by the     *)
(* job's UUID), so one job with all the requests that can reach it is the  *)
(* whole component.  An action is one database transaction or one file     *)
(* operation; everything between two awaits is inside the action before.   *)
(***************************************************************************)
EXTENDS Naturals, Sequences, FiniteSets

CONSTANTS
    Stages,         \* the stages a run executes, in order
    Runs,           \* identities of background tasks: bounds the attempts
    Retriers,       \* clients that may be inside POST /jobs/{id}/retry
    Deep,           \* the job was requested with depth > 1
    AllowReEnrich,  \* POST /jobs/{id}/re-enrich may be called
    Faults          \* which of FaultKinds the environment exhibits

(* What an analysis stage does when the row is gone, and whether it inserts  *)
(* child rows, is decided by its name; all seventeen stages are classified.  *)
EngineStages  == {"churn", "rules", "dead_code", "errors", "reliability",
                  "maintainability", "devops", "perf", "simulation"}
RaisesIfGone  == {"clone", "dead_code", "errors", "reliability",
                  "maintainability", "devops", "perf", "simulation",
                  "guide_gen", "ai_enrich"}
ReturnsIfGone == {"churn", "save_findings", "finalize"}
ForeignKeyed  == {"churn", "parse", "save_findings", "dead_code", "errors",
                  "reliability", "maintainability", "devops", "perf",
                  "simulation", "guide_gen"}
StageNames    == {"start", "rules", "score"} \cup RaisesIfGone
                   \cup ReturnsIfGone \cup ForeignKeyed

(* A stage leaves the row's status alone, or does when it swallows an error, *)
(* or writes it more than once before it ends.                               *)
KeepsStatus   == {"save_findings", "score"}
Swallows      == {"simulation", "guide_gen"}
PushesInside  == {"parse", "rules"}

FaultKinds == {"crash",          \* the process dies, its tasks with it
               "checkpoint",     \* a checkpoint write or unlink fails
               "failure_write",  \* the transaction recording a failure fails
               "delete_abort"}   \* a delete request rolls back

N == Len(Stages)

ASSUME StagesAssumption ==
    /\ Stages \in Seq(StageNames)
    /\ N >= 2
    /\ Stages[1] = "start"
    /\ \A i \in 1..N : Stages[i] = "finalize" <=> i = N
    /\ \A i, j \in 1..N : Stages[i] = Stages[j] => i = j
    /\ \A i \in 2..N : Stages[i] = "churn" => Stages[i - 1] = "clone"

ASSUME FlagsAssumption ==
    /\ Deep \in BOOLEAN
    /\ AllowReEnrich \in BOOLEAN
    /\ Faults \subseteq FaultKinds

VARIABLES
    created,    \* the job has been submitted: a UUID is never submitted twice
    status,     \* analysis_jobs.status; "running" stands for every stage status
    error,      \* analysis_jobs.error_message: the stage it names, or "none"
    completed,  \* analysis_jobs.completed_at is set
    engines,    \* analysis_jobs.engine_statuses: engine stage index -> state
    outputs,    \* per stage, how often its finished output was stored
    checkpoint, \* the checkpoint file: index of the last finished stage, 0 none
    workspace,  \* the cloned repository is still on disk
    pc,         \* per run, where its task is
    at,         \* per run, the stage it is at; 0 for a resume not yet planned
    cmdId,      \* per run, its cmd_dict still holds "job_id"
    retry,      \* per client, where its retry request is
    deleting,   \* a delete request holds the row's lock
    enriching   \* a re-enrich request has read the row and not yet written

rowVars  == <<status, error, completed, engines>>
fileVars == <<checkpoint, workspace>>
runVars  == <<pc, at, cmdId>>
reqVars  == <<retry, deleting, enriching>>
vars     == <<created, rowVars, outputs, fileVars, runVars, reqVars>>

-----------------------------------------------------------------------------
Statuses     == {"absent", "queued", "running", "failed", "completed"}
EngineStates == {"pending", "running", "completed", "failed"}
EngineAt     == {i \in 1..N : Stages[i] \in EngineStages}
NoEngines    == [i \in {} |-> "pending"]

(* The task is between its launch and the last effect it can have.           *)
Stepping == {"begin", "check", "work", "persist", "save", "cleanup"}
Live     == {"launched", "failing", "refusing"} \cup Stepping
RunPcs   == Live \cup {"unused", "reraise", "done", "dead"}
Active(r) == pc[r] \in Live

RowExists == status # "absent"
(* A statement on the row waits while a delete request holds its lock.       *)
Unlocked  == ~deleting

(* The stage status the run has in memory, for each engine: the stages       *)
(* before the current one finished in this attempt or came back with the     *)
(* checkpoint.                                                               *)
EnginePayload(r, state) ==
    [i \in EngineAt |-> IF i < at[r] THEN "completed"
                        ELSE IF i = at[r] THEN state ELSE "pending"]

(* Variants of the definitions below, each with a mistake the code avoids.   *)
ResumableWithoutClone == checkpoint \in 1..(N - 1)
RestartAt == IF checkpoint \in 1..(N - 1) THEN checkpoint + 1 ELSE 1
NextStage(r) == at[r] + 1
ClaimableOnceChecked == RowExists
ClaimRowKeepingEnd == status' = "queued" /\ UNCHANGED <<error, completed, engines>>
KeepJobId(r) == cmdId
RecordFailureKeepingEngines(stage, payload) ==
    /\ Unlocked
    /\ IF RowExists
         THEN status' = "failed" /\ error' = stage /\ completed' = TRUE
         ELSE UNCHANGED <<status, error, completed>>
    /\ UNCHANGED engines
RefuseSilently(r) ==
    /\ pc[r] = "refusing"
    /\ pc' = [pc EXCEPT ![r] = "done"]
    /\ UNCHANGED <<created, rowVars, outputs, fileVars, at, cmdId, reqVars>>

(* _plan_from_state: a position resumes unless it is missing, or past the    *)
(* last stage, or the next stage is a deep churn whose clone is gone.        *)
Resumable ==
    /\ checkpoint \in 1..(N - 1)
    /\ (Deep /\ Stages[checkpoint + 1] = "churn") => workspace

(* What a stage's transaction may leave in the status column.                *)
StatusAfter(stage) ==
    CASE stage = "finalize"     -> {"completed"}
      [] stage \in KeepsStatus -> {status}
      [] stage \in Swallows    -> {status, "running"}
      [] OTHER                  -> {"running"}

(* Where a resuming run starts; 0 when the position is gone.                 *)
ResumeAt == IF Resumable THEN checkpoint + 1 ELSE 0

(* The position SaveCheckpoint stores: _last_stage, the stage just finished. *)
LastStage(r) == at[r]

(* The write of handle_analysis_failure, which tests the row first.          *)
RecordFailure(stage, payload) ==
    /\ Unlocked
    /\ IF RowExists
         THEN /\ status' = "failed"
              /\ error' = stage
              /\ completed' = TRUE
              /\ engines' = payload
         ELSE UNCHANGED rowVars

(* The guard of queue_if_failed and the columns it writes.                   *)
Claimable == status = "failed"
ClaimRow ==
    /\ status' = "queued"
    /\ error' = "none"
    /\ completed' = FALSE
    /\ UNCHANGED engines

(* The entry of run_full_analysis pops "job_id" from the caller's cmd_dict.  *)
PopJobId(r) == [cmdId EXCEPT ![r] = FALSE]

(* create_task(_run_analysis_safe(cmd_dict)).  Right after a commit there is *)
(* no await before it, so the launch belongs to the committing action; a     *)
(* crash in between is a crash of a launched run.                            *)
Launch(r, from) ==
    /\ pc[r] = "unused"
    /\ pc' = [pc EXCEPT ![r] = "launched"]
    /\ at' = [at EXCEPT ![r] = from]
    /\ cmdId' = [cmdId EXCEPT ![r] = TRUE]

Goto(r, label) == pc' = [pc EXCEPT ![r] = label]

-----------------------------------------------------------------------------
Init ==
    /\ created = FALSE
    /\ status = "absent"
    /\ error = "none"
    /\ completed = FALSE
    /\ engines = NoEngines
    /\ outputs = [i \in 1..N |-> 0]
    /\ checkpoint = 0
    /\ workspace = FALSE
    /\ pc = [r \in Runs |-> "unused"]
    /\ at = [r \in Runs |-> 0]
    /\ cmdId = [r \in Runs |-> FALSE]
    /\ retry = [c \in Retriers |-> "idle"]
    /\ deleting = FALSE
    /\ enriching = FALSE

-----------------------------------------------------------------------------
(* Requests *)

(* POST /jobs: insert the queued row, commit, launch the first run.          *)
StartAnalysis ==
    /\ ~created
    /\ created' = TRUE
    /\ status' = "queued"
    /\ \E r \in Runs : Launch(r, 1)
    /\ UNCHANGED <<error, completed, engines, outputs, fileVars, reqVars>>

(* POST /jobs/{id}/retry, first half: the row is read, then the checkpoint   *)
(* file.  Any refusal (404, not_failed, no_checkpoint) changes nothing.      *)
RetryCheck(c) ==
    /\ retry[c] = "idle"
    /\ retry' = [retry EXCEPT ![c] = IF status = "failed" /\ Resumable
                                       THEN "checked" ELSE "idle"]
    /\ UNCHANGED <<created, rowVars, outputs, fileVars, runVars,
                   deleting, enriching>>

(* Second half: queue_if_failed claims the row only if it still reads        *)
(* `failed`, and the winner launches a resuming run.  A retry that would     *)
(* need a run identity beyond Runs is not started.                           *)
RetryClaim(c) ==
    /\ retry[c] = "checked"
    /\ Unlocked
    /\ retry' = [retry EXCEPT ![c] = "idle"]
    /\ IF Claimable
         THEN ClaimRow /\ \E r \in Runs : Launch(r, 0)
         ELSE UNCHANGED <<rowVars, runVars>>
    /\ UNCHANGED <<created, outputs, fileVars, deleting, enriching>>

(* DELETE /jobs/{id}: the deletes are executed and the row is locked, then   *)
(* the checkpoint is unlinked, before anything is committed.                 *)
DeleteJob ==
    /\ RowExists
    /\ ~deleting
    /\ deleting' = TRUE
    /\ \/ checkpoint' = 0
       \/ "checkpoint" \in Faults /\ UNCHANGED checkpoint
    /\ UNCHANGED <<created, rowVars, outputs, workspace, runVars,
                   retry, enriching>>

(* The delete commits: the row goes and its children cascade with it.        *)
CommitDelete ==
    /\ deleting
    /\ deleting' = FALSE
    /\ status' = "absent"
    /\ error' = "none"
    /\ completed' = FALSE
    /\ engines' = NoEngines
    /\ outputs' = [i \in 1..N |-> 0]
    /\ UNCHANGED <<created, fileVars, runVars, retry, enriching>>

(* The delete's transaction is rolled back; the unlink is not.               *)
AbortDelete ==
    /\ "delete_abort" \in Faults
    /\ deleting
    /\ deleting' = FALSE
    /\ UNCHANGED <<created, rowVars, outputs, fileVars, runVars,
                   retry, enriching>>

(* POST /jobs/{id}/re-enrich reads the row, whatever its status, then talks  *)
(* to the AI service.                                                        *)
ReEnrich ==
    /\ AllowReEnrich
    /\ RowExists
    /\ ~enriching
    /\ enriching' = TRUE
    /\ UNCHANGED <<created, rowVars, outputs, fileVars, runVars,
                   retry, deleting>>

(* ... and ends by writing the status of the ai_enrich stage, or rolls back. *)
CommitReEnrich ==
    /\ enriching
    /\ Unlocked
    /\ enriching' = FALSE
    /\ status' \in {status, IF RowExists THEN "running" ELSE "absent"}
    /\ UNCHANGED <<created, error, completed, engines, outputs, fileVars,
                   runVars, retry, deleting>>

-----------------------------------------------------------------------------
(* One run of run_full_analysis under _run_analysis_safe *)

(* Entry: "job_id" is popped from cmd_dict.  A fresh run starts at the first *)
(* stage; a resume reads the position again and may find it gone.            *)
RunFullAnalysis(r) ==
    /\ pc[r] = "launched"
    /\ cmdId' = PopJobId(r)
    /\ at' = [at EXCEPT ![r] = IF @ = 0 THEN ResumeAt ELSE @]
    /\ Goto(r, IF at'[r] = 0 THEN "refusing" ELSE "begin")
    /\ UNCHANGED <<created, rowVars, outputs, fileVars, reqVars>>

(* A resume whose position is gone records the failure under the stage name  *)
(* "resume", with no engine map, and returns without raising.                *)
RefuseResume(r) ==
    /\ pc[r] = "refusing"
    /\ \/ RecordFailure("resume", NoEngines) /\ Goto(r, "done")
       \/ /\ "failure_write" \in Faults
          /\ Goto(r, "reraise")
          /\ UNCHANGED rowVars
    /\ UNCHANGED <<created, outputs, fileVars, at, cmdId, reqVars>>

(* The stage begins: the row is told, best effort (the write times out, or   *)
(* fails, and is dropped).                                                   *)
PushStageProgress(r) ==
    /\ pc[r] = "begin"
    /\ Goto(r, "check")
    /\ \/ UNCHANGED rowVars
       \/ /\ Unlocked
          /\ RowExists
          /\ status' = "running"
          /\ engines' = EnginePayload(r, "running")
          /\ UNCHANGED <<error, completed>>
    /\ UNCHANGED <<created, outputs, fileVars, at, cmdId, reqVars>>

(* The handler's first look at the row.  A shallow churn has nothing to do;  *)
(* a missing row makes a stage raise, or return, or go unnoticed.            *)
StageCheck(r) ==
    LET stage == Stages[at[r]]
        gone  == ~RowExists
        skips == stage = "churn" /\ ~Deep IN
    /\ pc[r] = "check"
    /\ Goto(r, CASE gone /\ stage \in RaisesIfGone -> "failing"
                 [] gone /\ stage \in ReturnsIfGone -> "persist"
                 [] OTHER -> IF skips THEN "persist" ELSE "work")
    /\ outputs' = IF skips /\ ~gone THEN [outputs EXCEPT ![at[r]] = @ + 1]
                                    ELSE outputs
    /\ UNCHANGED <<created, rowVars, fileVars, at, cmdId, reqVars>>

(* The stage's transaction commits.  With the row gone an insert fails on    *)
(* its foreign key, an UPDATE matches nothing, and the score history that    *)
(* finalize appends, which has no foreign key, is stored all the same.       *)
StageCommit(r) ==
    LET stage == Stages[at[r]]
        last  == stage = "finalize" IN
    /\ pc[r] = "work"
    /\ Unlocked
    /\ IF RowExists
         THEN /\ status' \in StatusAfter(stage)
              /\ completed' = IF last THEN TRUE ELSE completed
              /\ engines' = IF last THEN EnginePayload(r, "completed") ELSE engines
              /\ UNCHANGED error
         ELSE UNCHANGED rowVars
    /\ outputs' = IF RowExists \/ last THEN [outputs EXCEPT ![at[r]] = @ + 1]
                                       ELSE outputs
    /\ workspace' = IF stage = "clone" THEN TRUE ELSE workspace
    /\ \/ Goto(r, "persist")
       \/ ~RowExists /\ stage \in ForeignKeyed /\ Goto(r, "failing")
    /\ UNCHANGED <<created, checkpoint, at, cmdId, reqVars>>

(* The handler raises and its transaction rolls back; parse and rules may    *)
(* have pushed progress of their own by then.  The engine map with the       *)
(* failed engine is written, best effort.                                    *)
StageRaise(r) ==
    /\ pc[r] = "work"
    /\ Goto(r, "failing")
    /\ \/ UNCHANGED rowVars
       \/ /\ Unlocked
          /\ RowExists
          /\ engines' \in {engines, EnginePayload(r, "failed")}
          /\ status' \in {status} \cup
                (IF Stages[at[r]] \in PushesInside THEN {"running"} ELSE {})
          /\ UNCHANGED <<error, completed>>
    /\ UNCHANGED <<created, outputs, fileVars, at, cmdId, reqVars>>

(* The engine map with the finished engine is written, best effort.          *)
PersistEngineStatuses(r) ==
    /\ pc[r] = "persist"
    /\ Goto(r, "save")
    /\ \/ UNCHANGED engines
       \/ Unlocked /\ RowExists /\ engines' = EnginePayload(r, "completed")
    /\ UNCHANGED <<created, status, error, completed, outputs, fileVars,
                   at, cmdId, reqVars>>

(* The position is saved, best effort, and the loop goes on.                 *)
SaveCheckpoint(r) ==
    /\ pc[r] = "save"
    /\ \/ checkpoint' = LastStage(r)
       \/ "checkpoint" \in Faults /\ UNCHANGED checkpoint
    /\ IF at[r] < N
         THEN Goto(r, "begin") /\ at' = [at EXCEPT ![r] = @ + 1]
         ELSE Goto(r, "cleanup") /\ UNCHANGED at
    /\ UNCHANGED <<created, rowVars, outputs, workspace, cmdId, reqVars>>

(* The pipeline returned: the position is deleted, best effort.              *)
DeleteCheckpoint(r) ==
    /\ pc[r] = "cleanup"
    /\ \/ checkpoint' = 0
       \/ "checkpoint" \in Faults /\ UNCHANGED checkpoint
    /\ Goto(r, "done")
    /\ UNCHANGED <<created, rowVars, outputs, workspace, at, cmdId, reqVars>>

(* _handle_failure_async, whose own transaction may fail; either way the     *)
(* exception goes on to _run_analysis_safe.                                  *)
HandleFailure(r) ==
    /\ pc[r] = "failing"
    /\ Goto(r, "reraise")
    /\ \/ RecordFailure(Stages[at[r]], EnginePayload(r, "failed"))
       \/ "failure_write" \in Faults /\ UNCHANGED rowVars
    /\ UNCHANGED <<created, outputs, fileVars, at, cmdId, reqVars>>

(* _run_analysis_safe: the last resort records a failure for the id it finds *)
(* in cmd_dict, if there is one.                                             *)
LastResort(r) ==
    /\ pc[r] = "reraise"
    /\ Goto(r, "done")
    /\ IF cmdId[r] THEN RecordFailure("init", NoEngines)
                   ELSE UNCHANGED rowVars
    /\ UNCHANGED <<created, outputs, fileVars, at, cmdId, reqVars>>

-----------------------------------------------------------------------------
(* The process dies: every task and every open request with it.  A delete in *)
(* progress rolls back.  The container's /tmp may go too; the tree of a      *)
(* local:// repository lies elsewhere, so each may be lost without the other.*)
Crash ==
    /\ "crash" \in Faults
    /\ created
    /\ pc' = [r \in Runs |-> IF pc[r] = "unused" THEN "unused" ELSE "dead"]
    /\ retry' = [c \in Retriers |-> "idle"]
    /\ deleting' = FALSE
    /\ enriching' = FALSE
    /\ checkpoint' \in {checkpoint, 0}
    /\ workspace' \in {workspace, FALSE}
    /\ UNCHANGED <<created, rowVars, outputs, at, cmdId>>

RunStep(r) ==
    \/ RunFullAnalysis(r)       \/ RefuseResume(r)
    \/ PushStageProgress(r)     \/ StageCheck(r)
    \/ StageCommit(r)           \/ StageRaise(r)
    \/ PersistEngineStatuses(r) \/ SaveCheckpoint(r)
    \/ DeleteCheckpoint(r)      \/ HandleFailure(r)
    \/ LastResort(r)

Request ==
    \/ StartAnalysis
    \/ \E c \in Retriers : RetryCheck(c) \/ RetryClaim(c)
    \/ DeleteJob \/ CommitDelete \/ AbortDelete
    \/ ReEnrich  \/ CommitReEnrich

Next == Request \/ (\E r \in Runs : RunStep(r)) \/ Crash

Spec == Init /\ [][Next]_vars

(* asyncio runs every task that is not waiting, PostgreSQL hands a row lock  *)
(* to its waiters in turn, so deletes that come and go cannot starve a run,  *)
(* and the handler ends a delete it has executed.  No client is obliged to   *)
(* send a request and no fault is obliged to happen.                         *)
Fairness ==
    /\ \A r \in Runs : SF_vars(RunStep(r))
    /\ WF_vars(CommitDelete \/ AbortDelete)

FairSpec == Spec /\ Fairness
-----------------------------------------------------------------------------
(* Properties *)

(* Every variable stays in the set of values the code can give it.           *)
TypeOK ==
    /\ created \in BOOLEAN
    /\ status \in Statuses
    /\ error \in StageNames \cup {"none", "resume", "init"}
    /\ completed \in BOOLEAN
    /\ engines \in [EngineAt -> EngineStates] \cup {NoEngines}
    /\ outputs \in [1..N -> Nat]
    /\ checkpoint \in 0..N
    /\ workspace \in BOOLEAN
    /\ pc \in [Runs -> RunPcs]
    /\ at \in [Runs -> 0..N]
    /\ cmdId \in [Runs -> BOOLEAN]
    /\ retry \in [Retriers -> {"idle", "checked"}]
    /\ deleting \in BOOLEAN
    /\ enriching \in BOOLEAN

(* However the retries race, with a failing run, with each other and with    *)
(* crashes, no two background tasks work on the job at once: queue_if_failed *)
(* exists so that there are never "two pipelines writing two interleaved     *)
(* sets of findings into one job's tables".                                  *)
AtMostOnePipeline ==
    \A r, s \in Runs : Active(r) /\ Active(s) => r = s

(* A job reads `failed` only when its pipeline can no longer touch it, so a  *)
(* retry never claims a job that is still being written.                     *)
FailedMeansIdle ==
    status = "failed" => \A r \in Runs : ~Active(r)

(* A run that is revived carries no trace of the failure that ended the last *)
(* one: the error message and the end instant are cleared by the claim and   *)
(* nothing sets them until the run fails again or finishes.                  *)
RevivedRunIsClean ==
    \A r \in Runs :
        /\ Active(r) /\ RowExists
        /\ ~(at[r] = N /\ pc[r] \in {"persist", "save", "cleanup"})
        => error = "none" /\ ~completed

(* "Nothing already finished runs twice": across all attempts each stage     *)
(* finishes at most once for a job, so no stage inserts its rows again.      *)
NoStageTwice ==
    \A i \in 1..N : outputs[i] <= 1

(* A completed job has the output of every stage: no resume skipped one.     *)
CompletedIsWhole ==
    status = "completed" => \A i \in 1..N : outputs[i] >= 1

(* The saved position never runs ahead of the database: every stage up to it *)
(* has its output stored, as long as the job is there.                       *)
CheckpointIsBehindRows ==
    RowExists => \A i \in 1..checkpoint : outputs[i] >= 1

(* A failed job shows no engine as still running, and a completed one shows  *)
(* every engine it has as completed.                                         *)
EnginesAgree ==
    /\ status = "failed" => \A i \in DOMAIN engines : engines[i] # "running"
    /\ status = "completed" =>
         engines = [i \in EngineAt |-> "completed"]

(* A run that is about to read the repository's history, or reads it, finds  *)
(* the clone on disk, whatever a restart took away before the retry.         *)
ChurnFindsItsClone ==
    \A r \in Runs :
        pc[r] \in {"begin", "check", "work"} /\ Deep /\ Stages[at[r]] = "churn"
          => workspace

(* The row, the file and the tasks together keep the promise of AnalysisJob. *)
Job == INSTANCE AnalysisJob WITH
    phase    <- status,
    workers  <- {r \in Runs : Active(r)},
    stored   <- IF RowExists THEN outputs ELSE [i \in 1..N |-> 0]

(* Every step of the pipeline is a step, or no step, of the abstract job:    *)
(* stages are stored in order and once, and one attempt at a time does it.   *)
KeepsPromise == Job!Spec

(* A submitted job settles: its pipeline brings it to completed or failed,   *)
(* or someone deletes it.                                                    *)
QueuedSettles ==
    status = "queued" ~> status \in {"completed", "failed", "absent"}
=============================================================================
