----------------------- MODULE AnalysisPipelineProofs -----------------------
(***************************************************************************)
(* Theorems about AnalysisPipeline, for every sequence of stages, any      *)
(* number of runs and clients, and every set of faults.                    *)
(***************************************************************************)
EXTENDS AnalysisPipeline, TLAPS

(* A run that is inside the pipeline has a stage.                            *)
Located ==
    \A r \in Runs : pc[r] \in Stepping \cup {"failing"} => at[r] # 0

(* cmd_dict still holds "job_id" only until the run is entered.              *)
IdPopped ==
    \A r \in Runs : cmdId[r] => pc[r] \in {"unused", "launched", "dead"}

(* Before the job is submitted there is neither a row nor a task.            *)
Pristine ==
    ~created => /\ status = "absent"
                /\ error = "none"
                /\ ~completed
                /\ \A r \in Runs : pc[r] = "unused"

TypeInv == TypeOK /\ Located
SoloInv == IdPopped /\ Pristine /\ AtMostOnePipeline /\ FailedMeansIdle

-----------------------------------------------------------------------------
(* The stages are a nonempty sequence, so positions are natural numbers.     *)
LEMMA Positions ==
    /\ N \in Nat
    /\ N >= 2
    /\ \A i \in 1..N : Stages[i] \in StageNames
BY StagesAssumption DEF N

(* The last stage, and only the last, is the one that completes the job.     *)
LEMMA LastIsFinalize ==
    \A i \in 1..N : Stages[i] = "finalize" <=> i = N
BY StagesAssumption

(* What the engine map holds is one of the states the row may show.          *)
LEMMA PayloadType ==
    ASSUME NEW r \in Runs, NEW state \in EngineStates
    PROVE  EnginePayload(r, state) \in [EngineAt -> EngineStates]
BY DEF EnginePayload, EngineStates

(* A resume starts at a stage, or nowhere.                                   *)
LEMMA ResumeAtType ==
    ASSUME checkpoint \in 0..N
    PROVE  ResumeAt \in 0..N
BY Positions DEF ResumeAt, Resumable

(* Recording a failure under a known name keeps the row well typed.          *)
LEMMA RecordFailureType ==
    ASSUME TypeOK,
           NEW stage \in StageNames \cup {"resume", "init"},
           NEW payload \in [EngineAt -> EngineStates] \cup {NoEngines},
           RecordFailure(stage, payload)
    PROVE  /\ status' \in Statuses
           /\ error' \in StageNames \cup {"none", "resume", "init"}
           /\ completed' \in BOOLEAN
           /\ engines' \in [EngineAt -> EngineStates] \cup {NoEngines}
BY DEF RecordFailure, TypeOK, Statuses, rowVars

(* TypeOK holds in every state, and a run inside the pipeline has a stage.   *)
THEOREM TypeCorrect == Spec => [](TypeOK /\ Located)
<1>1. Init => TypeInv
  <2> SUFFICES ASSUME Init PROVE TypeInv
    OBVIOUS
  <2>1. cmdId \in [Runs -> BOOLEAN]
    BY Zenon DEF Init
  <2>2. /\ at \in [Runs -> 0..N] /\ checkpoint \in 0..N
        /\ outputs \in [1..N -> Nat]
    BY Positions DEF Init
  <2>3. /\ created \in BOOLEAN /\ completed \in BOOLEAN /\ workspace \in BOOLEAN
        /\ deleting \in BOOLEAN /\ enriching \in BOOLEAN
    BY DEF Init
  <2>4. /\ status \in Statuses
        /\ error \in StageNames \cup {"none", "resume", "init"}
        /\ engines \in [EngineAt -> EngineStates] \cup {NoEngines}
        /\ pc \in [Runs -> RunPcs]
        /\ retry \in [Retriers -> {"idle", "checked"}]
    BY DEF Init, Statuses, RunPcs
  <2>5. Located
    BY DEF Init, Located, Stepping
  <2> QED
    BY <2>1, <2>2, <2>3, <2>4, <2>5 DEF TypeInv, TypeOK
<1>2. TypeInv /\ [Next]_vars => TypeInv'
  <2> SUFFICES ASSUME TypeInv, [Next]_vars PROVE TypeInv'
    OBVIOUS
  <2> USE DEF TypeInv
  <2>1. CASE StartAnalysis
    BY <2>1, Positions DEF StartAnalysis, Launch, TypeOK, Located, Statuses, RunPcs, Live, Stepping, fileVars, reqVars
  <2>2. ASSUME NEW c \in Retriers, RetryCheck(c) PROVE TypeInv'
    BY <2>2 DEF RetryCheck, TypeOK, Located, rowVars, fileVars, runVars, reqVars
  <2>3. ASSUME NEW c \in Retriers, RetryClaim(c) PROVE TypeInv'
    <3>1. retry' \in [Retriers -> {"idle", "checked"}]
      BY <2>3 DEF RetryClaim, TypeOK
    <3>2. CASE Claimable
      <4>1. PICK r \in Runs : Launch(r, 0)
        BY <2>3, <3>2 DEF RetryClaim
      <4>2. /\ pc' \in [Runs -> RunPcs] /\ at' \in [Runs -> 0..N]
            /\ cmdId' \in [Runs -> BOOLEAN]
        BY <4>1, Positions DEF Launch, TypeOK, RunPcs, Live
      <4>3. Located'
        BY <4>1 DEF Launch, TypeOK, Located, Stepping
      <4>4. /\ status' \in Statuses /\ error' = "none" /\ completed' = FALSE
            /\ engines' = engines
        BY <2>3, <3>2 DEF RetryClaim, ClaimRow, Statuses
      <4> QED
        BY <2>3, <3>1, <4>2, <4>3, <4>4 DEF RetryClaim, TypeOK, fileVars
    <3>3. CASE ~Claimable
      BY <2>3, <3>1, <3>3 DEF RetryClaim, TypeOK, Located, rowVars, fileVars, runVars
    <3> QED
      BY <3>2, <3>3
  <2>4. CASE DeleteJob
    BY <2>4, Positions DEF DeleteJob, TypeOK, Located, rowVars, runVars
  <2>5. CASE CommitDelete
    BY <2>5 DEF CommitDelete, TypeOK, Located, Statuses, fileVars, runVars
  <2>6. CASE AbortDelete
    BY <2>6 DEF AbortDelete, TypeOK, Located, rowVars, fileVars, runVars
  <2>7. CASE ReEnrich
    BY <2>7 DEF ReEnrich, TypeOK, Located, rowVars, fileVars, runVars
  <2>8. CASE CommitReEnrich
    <3>1. /\ status' \in Statuses /\ enriching' = FALSE
          /\ UNCHANGED <<created, error, completed, engines, outputs, fileVars, runVars,
                         retry, deleting>>
      BY <2>8 DEF CommitReEnrich, TypeOK, Statuses
    <3>2. Located'
      BY <3>1 DEF Located, runVars
    <3> QED
      BY <3>1, <3>2 DEF TypeOK, fileVars, runVars
  <2>9. ASSUME NEW r \in Runs, RunStep(r) PROVE TypeInv'
    <3>1. CASE RunFullAnalysis(r)
      <4>1. ResumeAt \in 0..N
        BY ResumeAtType DEF TypeOK
      <4> QED
        BY <3>1, <4>1 DEF RunFullAnalysis, PopJobId, Goto, TypeOK, Located, RunPcs, Live, Stepping, rowVars, fileVars, reqVars
    <3>2. CASE RefuseResume(r)
      <4>1. /\ status' \in Statuses
            /\ error' \in StageNames \cup {"none", "resume", "init"}
            /\ completed' \in BOOLEAN
            /\ engines' \in [EngineAt -> EngineStates] \cup {NoEngines}
        <5>1. CASE RecordFailure("resume", NoEngines)
          BY <5>1, RecordFailureType
        <5>2. CASE UNCHANGED rowVars
          BY <5>2 DEF rowVars, TypeOK
        <5> QED
          BY <3>2, <5>1, <5>2 DEF RefuseResume
      <4>2. pc' \in [Runs -> RunPcs] /\ Located'
        BY <3>2 DEF RefuseResume, Goto, TypeOK, Located, RunPcs, Live, Stepping
      <4> QED
        BY <3>2, <4>1, <4>2 DEF RefuseResume, TypeOK, fileVars, reqVars
    <3>3. CASE PushStageProgress(r)
      BY <3>3, PayloadType DEF PushStageProgress, Goto, TypeOK, Located, Statuses, EngineStates, RunPcs, Live, Stepping, rowVars, fileVars, reqVars
    <3>4. CASE StageCheck(r)
      BY <3>4 DEF StageCheck, Goto, TypeOK, Located, RunPcs, Live, Stepping, rowVars, fileVars, reqVars
    <3>5. CASE StageCommit(r)
      <4>1. EnginePayload(r, "completed") \in [EngineAt -> EngineStates]
        BY PayloadType DEF EngineStates
      <4>2. status' \in Statuses
        BY <3>5 DEF StageCommit, StatusAfter, TypeOK, Statuses, rowVars
      <4>3. engines' \in [EngineAt -> EngineStates] \cup {NoEngines}
        BY <3>5, <4>1 DEF StageCommit, TypeOK, rowVars
      <4>4. completed' \in BOOLEAN /\ workspace' \in BOOLEAN /\ error' = error
        BY <3>5 DEF StageCommit, TypeOK, rowVars
      <4>5. outputs' \in [1..N -> Nat]
        BY <3>5 DEF StageCommit, TypeOK, Located, Stepping
      <4>6. pc' \in [Runs -> RunPcs] /\ Located'
        BY <3>5 DEF StageCommit, Goto, TypeOK, Located, RunPcs, Live, Stepping
      <4> QED
        BY <3>5, <4>2, <4>3, <4>4, <4>5, <4>6 DEF StageCommit, TypeOK, reqVars
    <3>6. CASE StageRaise(r)
      <4>1. EnginePayload(r, "failed") \in [EngineAt -> EngineStates]
        BY PayloadType DEF EngineStates
      <4>2. /\ status' \in Statuses
            /\ engines' \in [EngineAt -> EngineStates] \cup {NoEngines}
            /\ error' = error /\ completed' = completed
        BY <3>6, <4>1 DEF StageRaise, TypeOK, Statuses, rowVars
      <4> QED
        BY <3>6, <4>2 DEF StageRaise, Goto, TypeOK, Located, RunPcs, Live, Stepping, fileVars, reqVars
    <3>7. CASE PersistEngineStatuses(r)
      BY <3>7, PayloadType DEF PersistEngineStatuses, Goto, TypeOK, Located, EngineStates, RunPcs, Live, Stepping, rowVars, fileVars, reqVars
    <3>8. CASE SaveCheckpoint(r)
      <4>1. at[r] \in 0..N /\ (at[r] < N => at[r] + 1 \in 1..N)
        BY Positions DEF TypeOK
      <4>2. checkpoint' \in 0..N
        BY <3>8, <4>1 DEF SaveCheckpoint, LastStage, TypeOK
      <4>3. pc' \in [Runs -> RunPcs]
        BY <3>8 DEF SaveCheckpoint, Goto, TypeOK, RunPcs, Live, Stepping
      <4>4. at' \in [Runs -> 0..N] /\ at'[r] # 0
        <5>1. at \in [Runs -> 0..N] /\ at[r] # 0
          BY <3>8 DEF SaveCheckpoint, TypeOK, Located, Stepping
        <5>2. CASE at[r] < N
          <6>1. at' = [at EXCEPT ![r] = at[r] + 1]
            BY <3>8, <5>2 DEF SaveCheckpoint
          <6>2. at[r] + 1 \in 0..N /\ at[r] + 1 # 0
            BY <4>1, <5>2, Positions
          <6> QED
            BY <5>1, <6>1, <6>2
        <5>3. CASE ~(at[r] < N)
          BY <3>8, <5>1, <5>3 DEF SaveCheckpoint
        <5> QED
          BY <5>2, <5>3
      <4>5. Located'
        BY <3>8, <4>4 DEF SaveCheckpoint, Goto, TypeOK, Located
      <4> QED
        BY <3>8, <4>2, <4>3, <4>4, <4>5 DEF SaveCheckpoint, TypeOK, rowVars, reqVars
    <3>9. CASE DeleteCheckpoint(r)
      BY <3>9, Positions DEF DeleteCheckpoint, Goto, TypeOK, Located, RunPcs, Live, Stepping, rowVars, fileVars, reqVars
    <3>10. CASE HandleFailure(r)
      <4>1. /\ Stages[at[r]] \in StageNames
            /\ EnginePayload(r, "failed") \in [EngineAt -> EngineStates]
        BY <3>10, Positions, PayloadType DEF HandleFailure, TypeOK, Located, EngineStates
      <4> QED
        BY <3>10, <4>1, RecordFailureType DEF HandleFailure, Goto, TypeOK, Located, RunPcs, Live, Stepping, rowVars, fileVars, reqVars
    <3>11. CASE LastResort(r)
      BY <3>11, RecordFailureType DEF LastResort, Goto, TypeOK, Located, RunPcs, Live, Stepping, rowVars, fileVars, reqVars
    <3> QED
      BY <2>9, <3>1, <3>2, <3>3, <3>4, <3>5, <3>6, <3>7, <3>8, <3>9, <3>10, <3>11 DEF RunStep
  <2>10. CASE Crash
    <3>1. checkpoint' \in 0..N
      BY <2>10, Positions DEF Crash, TypeOK
    <3>4. workspace' \in BOOLEAN
      BY <2>10, Zenon DEF Crash, TypeOK
    <3>2. pc' \in [Runs -> RunPcs] /\ Located'
      BY <2>10 DEF Crash, TypeOK, Located, RunPcs, Live, Stepping
    <3>3. retry' \in [Retriers -> {"idle", "checked"}]
      BY <2>10 DEF Crash
    <3> QED
      BY <2>10, <3>1, <3>2, <3>3, <3>4 DEF Crash, TypeOK, rowVars
  <2>11. CASE UNCHANGED vars
    BY <2>11 DEF vars, TypeOK, Located, rowVars, fileVars, runVars, reqVars, EngineAt
  <2> QED
    BY <2>1, <2>2, <2>3, <2>4, <2>5, <2>6, <2>7, <2>8, <2>9, <2>10, <2>11 DEF Next, Request
<1> QED
  BY <1>1, <1>2, PTL DEF Spec, TypeInv

-----------------------------------------------------------------------------
(* A step of one run: it was active, or only had the last resort to go; it   *)
(* leaves the other runs alone, and does not come back to life.              *)
LEMMA RunStepFrame ==
    ASSUME TypeInv, NEW r \in Runs, RunStep(r)
    PROVE  /\ created' = created
           /\ Active(r) \/ LastResort(r)
           /\ pc'[r] # "launched"
           /\ \A s \in Runs \ {r} : pc'[s] = pc[s] /\ at'[s] = at[s]
           /\ \A s \in Runs : cmdId'[s] => cmdId[s]
           /\ cmdId'[r] => ~RunFullAnalysis(r)
<1> USE DEF TypeInv, TypeOK, Active, Live, Stepping, Goto
<1>1. CASE RunFullAnalysis(r)
  BY <1>1 DEF RunFullAnalysis, PopJobId
<1>2. CASE RefuseResume(r)
  BY <1>2 DEF RefuseResume, RunFullAnalysis
<1>3. CASE PushStageProgress(r)
  BY <1>3 DEF PushStageProgress, RunFullAnalysis
<1>4. CASE StageCheck(r)
  BY <1>4 DEF StageCheck, RunFullAnalysis
<1>5. CASE StageCommit(r)
  BY <1>5 DEF StageCommit, RunFullAnalysis
<1>6. CASE StageRaise(r)
  BY <1>6 DEF StageRaise, RunFullAnalysis
<1>7. CASE PersistEngineStatuses(r)
  BY <1>7 DEF PersistEngineStatuses, RunFullAnalysis
<1>8. CASE SaveCheckpoint(r)
  BY <1>8 DEF SaveCheckpoint, RunFullAnalysis
<1>9. CASE DeleteCheckpoint(r)
  BY <1>9 DEF DeleteCheckpoint, RunFullAnalysis
<1>10. CASE HandleFailure(r)
  BY <1>10 DEF HandleFailure, RunFullAnalysis
<1>11. CASE LastResort(r)
  BY <1>11 DEF LastResort, RunFullAnalysis
<1> QED
  BY <1>1, <1>2, <1>3, <1>4, <1>5, <1>6, <1>7, <1>8, <1>9, <1>10, <1>11 DEF RunStep

(* A run's step does not touch the requests of clients.                      *)
LEMMA RunStepRequests ==
    ASSUME NEW r \in Runs, RunStep(r) PROVE enriching' = enriching
BY DEF RunStep, RunFullAnalysis, RefuseResume, PushStageProgress, StageCheck, StageCommit, StageRaise, PersistEngineStatuses, SaveCheckpoint, DeleteCheckpoint, HandleFailure, LastResort, reqVars

(* Only the steps that end a run can make a live job fail.                   *)
LEMMA FailureEndsRun ==
    ASSUME TypeInv, IdPopped, NEW r \in Runs, RunStep(r),
           status # "failed", status' = "failed"
    PROVE  ~Active(r)'
<1> USE DEF TypeInv, TypeOK, Active, Live, Stepping, Goto, rowVars
<1>1. CASE RunFullAnalysis(r)
  BY <1>1 DEF RunFullAnalysis
<1>2. CASE RefuseResume(r)
  BY <1>2 DEF RefuseResume
<1>3. CASE PushStageProgress(r)
  BY <1>3 DEF PushStageProgress
<1>4. CASE StageCheck(r)
  BY <1>4 DEF StageCheck
<1>5. CASE StageCommit(r)
  BY <1>5 DEF StageCommit, StatusAfter
<1>6. CASE StageRaise(r)
  BY <1>6 DEF StageRaise
<1>7. CASE PersistEngineStatuses(r)
  BY <1>7 DEF PersistEngineStatuses
<1>8. CASE SaveCheckpoint(r)
  BY <1>8 DEF SaveCheckpoint
<1>9. CASE DeleteCheckpoint(r)
  BY <1>9 DEF DeleteCheckpoint
<1>10. CASE HandleFailure(r)
  BY <1>10 DEF HandleFailure
<1>11. CASE LastResort(r)
  BY <1>11 DEF LastResort, IdPopped
<1> QED
  BY <1>1, <1>2, <1>3, <1>4, <1>5, <1>6, <1>7, <1>8, <1>9, <1>10, <1>11 DEF RunStep

(* SoloInv is an invariant.                                                  *)
LEMMA SoloTheorem == Spec => []SoloInv
<1>1. Init => SoloInv
  BY DEF Init, SoloInv, IdPopped, Pristine, AtMostOnePipeline, FailedMeansIdle, Active, Live, Stepping
<1>2. TypeInv /\ TypeInv' /\ SoloInv /\ [Next]_vars => SoloInv'
  <2> SUFFICES ASSUME TypeInv, TypeInv', SoloInv, [Next]_vars PROVE SoloInv'
    OBVIOUS
  <2>1. ASSUME UNCHANGED <<created, status, error, completed, pc, cmdId>> PROVE SoloInv'
    BY <2>1 DEF SoloInv, IdPopped, Pristine, AtMostOnePipeline, FailedMeansIdle, Active
  <2>2. CASE StartAnalysis
    <3>1. PICK r \in Runs : Launch(r, 1)
      BY <2>2 DEF StartAnalysis
    <3>2. \A s \in Runs : pc[s] = "unused"
      BY <2>2 DEF StartAnalysis, SoloInv, Pristine
    <3>3. /\ pc' = [pc EXCEPT ![r] = "launched"]
          /\ cmdId' = [cmdId EXCEPT ![r] = TRUE]
          /\ created' = TRUE /\ status' = "queued"
      BY <2>2, <3>1 DEF StartAnalysis, Launch
    <3> QED
      BY <3>2, <3>3 DEF TypeInv, TypeOK, SoloInv, IdPopped, Pristine, AtMostOnePipeline, FailedMeansIdle, Active, Live, Stepping
  <2>3. ASSUME NEW c \in Retriers, RetryCheck(c) PROVE SoloInv'
    BY <2>1, <2>3 DEF RetryCheck, rowVars, runVars
  <2>4. ASSUME NEW c \in Retriers, RetryClaim(c) PROVE SoloInv'
    <3>1. CASE Claimable
      <4>1. PICK r \in Runs : Launch(r, 0)
        BY <2>4, <3>1 DEF RetryClaim
      <4>2. \A s \in Runs : ~Active(s)
        BY <3>1 DEF Claimable, SoloInv, FailedMeansIdle
      <4>3. /\ pc' = [pc EXCEPT ![r] = "launched"]
            /\ cmdId' = [cmdId EXCEPT ![r] = TRUE]
            /\ created' = created /\ status' = "queued"
        BY <2>4, <3>1, <4>1 DEF RetryClaim, ClaimRow, Launch
      <4>4. created
        BY <3>1 DEF Claimable, SoloInv, Pristine
      <4> QED
        BY <4>2, <4>3, <4>4 DEF TypeInv, TypeOK, SoloInv, IdPopped, Pristine, AtMostOnePipeline, FailedMeansIdle, Active, Live, Stepping
    <3>2. CASE ~Claimable
      BY <2>1, <2>4, <3>2 DEF RetryClaim, rowVars, runVars
    <3> QED
      BY <3>1, <3>2
  <2>5. CASE DeleteJob
    BY <2>1, <2>5 DEF DeleteJob, rowVars, runVars
  <2>6. CASE CommitDelete
    BY <2>6 DEF CommitDelete, runVars, SoloInv, IdPopped, Pristine, AtMostOnePipeline, FailedMeansIdle, Active
  <2>7. CASE AbortDelete
    BY <2>1, <2>7 DEF AbortDelete, rowVars, runVars
  <2>8. CASE ReEnrich
    BY <2>1, <2>8 DEF ReEnrich, rowVars, runVars
  <2>9. CASE CommitReEnrich
    <3>1. status' # "failed" \/ status' = status
      BY <2>9 DEF CommitReEnrich
    <3>2. UNCHANGED <<created, error, completed, pc, cmdId>>
      BY <2>9 DEF CommitReEnrich, runVars
    <3>3. ~created => status' = "absent"
      BY <2>9 DEF CommitReEnrich, RowExists, SoloInv, Pristine
    <3> QED
      BY <3>1, <3>2, <3>3 DEF SoloInv, IdPopped, Pristine, AtMostOnePipeline, FailedMeansIdle, Active
  <2>10. ASSUME NEW r \in Runs, RunStep(r) PROVE SoloInv'
    <3>1. pc[r] # "unused" /\ created
      BY <2>10, RunStepFrame DEF Active, Live, Stepping, LastResort, SoloInv, Pristine
    <3>2. IdPopped'
      <4>1. ASSUME NEW s \in Runs \ {r}, cmdId'[s]
            PROVE  pc'[s] \in {"unused", "launched", "dead"}
        BY <2>10, <4>1, RunStepFrame DEF SoloInv, IdPopped
      <4>2. ASSUME cmdId'[r] PROVE FALSE
        <5>1. cmdId[r] /\ ~RunFullAnalysis(r)
          BY <2>10, <4>2, RunStepFrame
        <5>2. pc[r] \notin {"unused", "launched", "dead"}
          BY <2>10, <3>1, <5>1 DEF RunStep, RefuseResume, PushStageProgress, StageCheck, StageCommit, StageRaise, PersistEngineStatuses, SaveCheckpoint, DeleteCheckpoint, HandleFailure, LastResort
        <5> QED
          BY <5>1, <5>2 DEF SoloInv, IdPopped
      <4> QED
        BY <4>1, <4>2 DEF IdPopped
    <3>3. AtMostOnePipeline'
      <4>1. CASE Active(r)
        BY <2>10, <4>1, RunStepFrame DEF SoloInv, AtMostOnePipeline, Active
      <4>2. CASE LastResort(r)
        BY <2>10, <4>2, RunStepFrame DEF SoloInv, AtMostOnePipeline, Active, Live, Stepping, LastResort, Goto, TypeInv, TypeOK
      <4> QED
        BY <2>10, <4>1, <4>2, RunStepFrame
    <3>4. FailedMeansIdle'
      <4>1. CASE Active(r)
        <5>1. status # "failed" /\ \A s \in Runs \ {r} : ~Active(s)
          BY <4>1 DEF SoloInv, AtMostOnePipeline, FailedMeansIdle
        <5> QED
          BY <2>10, <5>1, RunStepFrame, FailureEndsRun DEF SoloInv, FailedMeansIdle, Active
      <4>2. CASE LastResort(r)
        <5>1. ~cmdId[r]
          BY <4>2 DEF LastResort, SoloInv, IdPopped
        <5>2. status' = status /\ pc' = [pc EXCEPT ![r] = "done"]
          BY <4>2, <5>1 DEF LastResort, Goto, rowVars
        <5> QED
          BY <5>2 DEF SoloInv, FailedMeansIdle, Active, Live, Stepping, TypeInv, TypeOK
      <4> QED
        BY <2>10, <4>1, <4>2, RunStepFrame
    <3> QED
      BY <2>10, <3>1, <3>2, <3>3, <3>4, RunStepFrame DEF SoloInv, Pristine
  <2>11. CASE Crash
    <3>1. \A s \in Runs : pc'[s] = IF pc[s] = "unused" THEN "unused" ELSE "dead"
      BY <2>11 DEF Crash
    <3>2. created /\ created' = created
      BY <2>11 DEF Crash
    <3> QED
      BY <3>1, <3>2 DEF SoloInv, IdPopped, Pristine, AtMostOnePipeline, FailedMeansIdle, Active, Live, Stepping
  <2>12. CASE UNCHANGED vars
    BY <2>1, <2>12 DEF vars, rowVars, runVars
  <2> QED
    BY <2>2, <2>3, <2>4, <2>5, <2>6, <2>7, <2>8, <2>9, <2>10, <2>11, <2>12 DEF Next, Request
<1>3. TypeInv <=> TypeOK /\ Located
  BY DEF TypeInv
<1> QED
  BY <1>1, <1>2, <1>3, TypeCorrect, PTL DEF Spec

(* However retries race, at most one background task works on the job.       *)
THEOREM OnePipeline == Spec => []AtMostOnePipeline
BY SoloTheorem, PTL DEF SoloInv

(* A job that reads failed has no task left that could still write to it.    *)
THEOREM FailedIsOver == Spec => []FailedMeansIdle
BY SoloTheorem, PTL DEF SoloInv

-----------------------------------------------------------------------------
(* Either the one active run takes the step, and every other run is and      *)
(* stays idle, or an ended run passes its last resort and changes nothing.   *)
LEMMA RunStepAlone ==
    ASSUME TypeInv, SoloInv, NEW r \in Runs, RunStep(r)
    PROVE  \/ /\ Active(r)
              /\ \A s \in Runs \ {r} : ~Active(s) /\ ~Active(s)'
           \/ /\ pc[r] = "reraise"
              /\ pc' = [pc EXCEPT ![r] = "done"]
              /\ UNCHANGED <<created, rowVars, outputs, fileVars, at>>
<1>1. CASE Active(r)
  BY <1>1, RunStepFrame DEF SoloInv, AtMostOnePipeline, Active
<1>2. CASE LastResort(r)
  BY <1>2 DEF LastResort, Goto, SoloInv, IdPopped, rowVars
<1> QED
  BY <1>1, <1>2, RunStepFrame

(* One step keeps a revived run clean.                                       *)
LEMMA RevivedStep ==
    ASSUME TypeInv, TypeInv', SoloInv, RevivedRunIsClean, [Next]_vars
    PROVE  RevivedRunIsClean'
<1>1. ASSUME UNCHANGED <<status, error, completed, pc, at>> PROVE RevivedRunIsClean'
  BY <1>1 DEF RevivedRunIsClean, Active, RowExists
<1>2. ASSUME error' = "none", completed' = FALSE PROVE RevivedRunIsClean'
  BY <1>2 DEF RevivedRunIsClean
<1>3. CASE StartAnalysis
  BY <1>2, <1>3 DEF StartAnalysis, SoloInv, Pristine, TypeInv, TypeOK
<1>4. ASSUME NEW c \in Retriers, RetryCheck(c) PROVE RevivedRunIsClean'
  BY <1>1, <1>4 DEF RetryCheck, rowVars, runVars
<1>5. ASSUME NEW c \in Retriers, RetryClaim(c) PROVE RevivedRunIsClean'
  BY <1>1, <1>2, <1>5 DEF RetryClaim, ClaimRow, rowVars, runVars
<1>6. CASE DeleteJob
  BY <1>1, <1>6 DEF DeleteJob, rowVars, runVars
<1>7. CASE CommitDelete
  BY <1>7 DEF CommitDelete, RevivedRunIsClean, RowExists
<1>8. CASE AbortDelete
  BY <1>1, <1>8 DEF AbortDelete, rowVars, runVars
<1>9. CASE ReEnrich
  BY <1>1, <1>9 DEF ReEnrich, rowVars, runVars
<1>10. CASE CommitReEnrich
  BY <1>10 DEF CommitReEnrich, RevivedRunIsClean, RowExists, Active, runVars
<1>11. ASSUME NEW r \in Runs, RunStep(r) PROVE RevivedRunIsClean'
  <2>1. CASE /\ pc[r] = "reraise"
             /\ pc' = [pc EXCEPT ![r] = "done"]
             /\ UNCHANGED <<created, rowVars, outputs, fileVars, at>>
    BY <2>1 DEF RevivedRunIsClean, RowExists, Active, Live, Stepping, rowVars, TypeInv, TypeOK
  <2>2. CASE Active(r) /\ \A s \in Runs \ {r} : ~Active(s) /\ ~Active(s)'
    <3> DEFINE Ended == at[r] = N /\ pc[r] \in {"persist", "save", "cleanup"}
    <3>1. SUFFICES ASSUME Active(r)', RowExists', ~Ended'
                   PROVE  error' = "none" /\ ~completed'
      BY <2>2 DEF RevivedRunIsClean
    <3>2. RowExists /\ ~Ended => error = "none" /\ ~completed
      BY <2>2 DEF RevivedRunIsClean
    <3> USE DEF RowExists, Active, Live, Stepping, Goto, TypeInv, TypeOK, rowVars
    <3>3. CASE RunFullAnalysis(r)
      BY <3>1, <3>2, <3>3 DEF RunFullAnalysis
    <3>4. CASE RefuseResume(r)
      BY <3>1, <3>4 DEF RefuseResume
    <3>5. CASE PushStageProgress(r)
      BY <3>1, <3>2, <3>5 DEF PushStageProgress
    <3>6. CASE StageCheck(r)
      BY <3>1, <3>2, <3>6 DEF StageCheck
    <3>7. CASE StageCommit(r)
      <4>1. at[r] \in 1..N
        BY <3>7 DEF StageCommit, Located
      <4>2. ~Ended /\ RowExists
        BY <3>1, <3>7 DEF StageCommit
      <4>3. pc'[r] = "persist" /\ at'[r] = at[r] /\ at[r] # N
        BY <3>1, <3>7, <4>2 DEF StageCommit
      <4>4. Stages[at[r]] # "finalize"
        BY <4>1, <4>3, LastIsFinalize
      <4>5. error' = error /\ completed' = completed
        BY <3>7, <4>2, <4>4 DEF StageCommit
      <4> QED
        BY <3>2, <4>2, <4>5
    <3>8. CASE StageRaise(r)
      BY <3>1, <3>2, <3>8 DEF StageRaise
    <3>9. CASE PersistEngineStatuses(r)
      BY <3>1, <3>2, <3>9 DEF PersistEngineStatuses
    <3>10. CASE SaveCheckpoint(r)
      BY <3>1, <3>2, <3>10 DEF SaveCheckpoint
    <3>11. CASE DeleteCheckpoint(r)
      BY <3>1, <3>11 DEF DeleteCheckpoint
    <3>12. CASE HandleFailure(r)
      BY <3>1, <3>12 DEF HandleFailure
    <3>13. CASE LastResort(r)
      BY <3>1, <3>13 DEF LastResort
    <3> QED
      BY <1>11, <3>3, <3>4, <3>5, <3>6, <3>7, <3>8, <3>9, <3>10, <3>11, <3>12, <3>13 DEF RunStep
  <2> QED
    BY <1>11, <2>1, <2>2, RunStepAlone
<1>12. CASE Crash
  BY <1>12 DEF Crash, RevivedRunIsClean, Active, Live, Stepping
<1>13. CASE UNCHANGED vars
  BY <1>1, <1>13 DEF vars, rowVars, runVars
<1> QED
  BY <1>3, <1>4, <1>5, <1>6, <1>7, <1>8, <1>9, <1>10, <1>11, <1>12, <1>13 DEF Next, Request

(* A run at work on the job carries no trace of the failure before it.       *)
THEOREM RevivedClean == Spec => []RevivedRunIsClean
<1>1. Init => RevivedRunIsClean
  BY DEF Init, RevivedRunIsClean
<1> QED
  BY <1>1, RevivedStep, TypeCorrect, SoloTheorem, PTL DEF Spec, TypeInv

-----------------------------------------------------------------------------
(***************************************************************************)
(* What resuming from a checkpoint is worth: as long as the checkpoint     *)
(* file can be written and deleted, all attempts together finish each      *)
(* stage of the job once and in order.  For every pipeline, any number of  *)
(* runs and clients, crashes, failed failure writes and aborted deletes.   *)
(***************************************************************************)

(* The first m stages are stored, each once, and no other stage is.          *)
Done(m) == outputs = [i \in 1..N |-> IF i <= m THEN 1 ELSE 0]

(* The run is past its last stage's transaction.                             *)
Over     == {"persist", "save", "cleanup"}
Ended(r) == at[r] = N /\ pc[r] \in Over

(* How far the outputs go, and where the file may be, while a run is inside. *)
Stored(r)  == IF pc[r] \in Over THEN at[r] ELSE at[r] - 1
SavedAt(r) == \/ checkpoint \in {0, at[r] - 1}
              \/ pc[r] = "cleanup" /\ checkpoint = N

(* The file, if it is there, names the last stage that is stored.            *)
InStep == \E m \in 0..N : Done(m) /\ checkpoint \in {0, m}

Untouched == ~created => Done(0) /\ checkpoint = 0
Planned   == \A r \in Runs : /\ pc[r] = "refusing" => at[r] = 0
                             /\ pc[r] = "cleanup" => at[r] = N
InOrder   == RowExists => \E m \in 0..N : Done(m)
Resumes   == /\ status = "failed" => InStep
             /\ \A r \in Runs :
                  RowExists /\ Active(r) =>
                    IF at[r] = 0 THEN InStep ELSE Done(Stored(r)) /\ SavedAt(r)
Gone      == ~RowExists =>
               /\ \A i \in 1..N : outputs[i] = 0 \/ (i = N /\ outputs[i] = 1)
               /\ outputs[N] = 1 => \A r \in Runs : Active(r) => Ended(r)
Whole     == status = "completed" =>
               Done(N) /\ \A r \in Runs : Active(r) => Ended(r)
StageInv  == Untouched /\ Planned /\ InOrder /\ Resumes /\ Gone /\ Whole

-----------------------------------------------------------------------------
(* Storing the next stage keeps the outputs in order.                        *)
LEMMA StoreNext ==
    ASSUME TypeInv, NEW m \in 1..N, Done(m - 1),
           outputs' = [outputs EXCEPT ![m] = @ + 1]
    PROVE  Done(m)'
<1>1. m \in Nat /\ outputs = [i \in 1..N |-> IF i <= m - 1 THEN 1 ELSE 0]
  BY Positions DEF Done
<1>2. outputs[m] = 0
  BY <1>1
<1>3. outputs' = [outputs EXCEPT ![m] = 1]
  BY <1>2
<1>4. ASSUME NEW i \in 1..N PROVE outputs'[i] = IF i <= m THEN 1 ELSE 0
  <2>1. CASE i = m
    BY <1>1, <1>3, <2>1
  <2>2. CASE i # m
    <3>1. outputs'[i] = outputs[i]
      BY <1>1, <1>3, <2>2
    <3>2. i <= m - 1 <=> i <= m
      BY <1>1, <2>2
    <3> QED  BY <1>1, <3>1, <3>2
  <2> QED  BY <2>1, <2>2
<1>5. outputs' = [i \in 1..N |-> outputs'[i]]
  BY <1>1, <1>3
<1> QED  BY <1>4, <1>5 DEF Done

(* StageInv starts true.                                                     *)
LEMMA StageInit == Init => StageInv
<1> SUFFICES ASSUME Init PROVE StageInv
  OBVIOUS
<1>1. Done(0) /\ checkpoint = 0 /\ status = "absent"
  BY Positions DEF Init, Done
<1>2. \A r \in Runs : pc[r] = "unused"
  BY DEF Init
<1> QED
  BY <1>1, <1>2, Positions DEF Init, StageInv, Untouched, Planned, InOrder, Resumes, Gone, Whole, RowExists, Active, Live, Stepping

(* The row, the outputs, the file and the runs stay as they are.             *)
LEMMA StageFrame ==
    ASSUME StageInv, UNCHANGED <<created, status, outputs, checkpoint, pc, at>>
    PROVE  StageInv'
BY DEF StageInv, Untouched, Planned, InOrder, Resumes, Gone, Whole, RowExists, Active, InStep, Done, Stored, SavedAt, Ended

(* The requests of clients keep StageInv.                                    *)
LEMMA StageRequest ==
    ASSUME "checkpoint" \notin Faults, TypeInv, SoloInv, StageInv, Request
    PROVE  StageInv'
<1>1. CASE StartAnalysis
  <2>1. PICK r \in Runs : Launch(r, 1)
    BY <1>1 DEF StartAnalysis
  <2>2. Done(0) /\ checkpoint = 0 /\ \A s \in Runs : pc[s] = "unused"
    BY <1>1 DEF StartAnalysis, StageInv, Untouched, SoloInv, Pristine
  <2>3. /\ outputs' = outputs /\ checkpoint' = checkpoint
        /\ created' = TRUE /\ status' = "queued"
        /\ pc' = [pc EXCEPT ![r] = "launched"] /\ at' = [at EXCEPT ![r] = 1]
    BY <1>1, <2>1 DEF StartAnalysis, Launch, fileVars
  <2>4. Done(0)' /\ checkpoint' = 0
    BY <2>2, <2>3 DEF Done
  <2>5. \A s \in Runs : Active(s)' => s = r /\ at'[s] = 1 /\ pc'[s] = "launched"
    BY <2>2, <2>3 DEF Active, Live, Stepping, TypeInv, TypeOK
  <2>6. \A s \in Runs : pc'[s] \in {"unused", "launched"}
    BY <2>2, <2>3 DEF TypeInv, TypeOK
  <2>7. Untouched' /\ Planned' /\ InOrder' /\ Gone' /\ Whole'
    BY <2>3, <2>4, <2>6, Positions DEF Untouched, Planned, InOrder, Gone, Whole, RowExists
  <2>8. Resumes'
    BY <2>3, <2>4, <2>5, Positions DEF Resumes, Stored, SavedAt, Over
  <2> QED
    BY <2>7, <2>8 DEF StageInv
<1>2. ASSUME NEW c \in Retriers, RetryCheck(c) PROVE StageInv'
  BY <1>2, StageFrame DEF RetryCheck, rowVars, fileVars, runVars
<1>3. ASSUME NEW c \in Retriers, RetryClaim(c) PROVE StageInv'
  <2>1. CASE Claimable
    <3>1. PICK r \in Runs : Launch(r, 0)
      BY <1>3, <2>1 DEF RetryClaim
    <3>2. InStep /\ created /\ \A s \in Runs : ~Active(s)
      BY <2>1 DEF Claimable, StageInv, Resumes, SoloInv, Pristine, FailedMeansIdle
    <3>3. /\ outputs' = outputs /\ checkpoint' = checkpoint
          /\ created' = created /\ status' = "queued"
          /\ pc' = [pc EXCEPT ![r] = "launched"] /\ at' = [at EXCEPT ![r] = 0]
      BY <1>3, <2>1, <3>1 DEF RetryClaim, ClaimRow, Launch, fileVars
    <3>4. InStep'
      BY <3>2, <3>3 DEF InStep, Done
    <3>5. \A s \in Runs : Active(s)' => s = r /\ at'[s] = 0
      BY <3>2, <3>3 DEF Active, TypeInv, TypeOK
    <3>6. Planned'
      BY <3>3 DEF StageInv, Planned, TypeInv, TypeOK
    <3>7. Untouched' /\ InOrder' /\ Gone' /\ Whole'
      BY <3>2, <3>3, <3>4 DEF Untouched, InOrder, InStep, Gone, Whole, RowExists
    <3> QED
      BY <3>3, <3>4, <3>5, <3>6, <3>7 DEF StageInv, Resumes
  <2>2. CASE ~Claimable
    BY <1>3, <2>2, StageFrame DEF RetryClaim, rowVars, fileVars, runVars
  <2> QED
    BY <2>1, <2>2
<1>4. CASE DeleteJob
  <2>1. checkpoint' = 0 /\ UNCHANGED <<created, status, outputs, pc, at>>
    BY <1>4 DEF DeleteJob, rowVars, runVars
  <2>2. InOrder' /\ Planned' /\ Gone' /\ Whole' /\ Untouched'
    BY <2>1 DEF StageInv, InOrder, Planned, Gone, Whole, Untouched, RowExists, Active, Ended, Done
  <2>3. InStep'
    BY <1>4, <2>1 DEF DeleteJob, StageInv, InOrder, InStep, RowExists, Done
  <2>4. \A r \in Runs : SavedAt(r)' /\ Stored(r)' = Stored(r)
    BY <2>1 DEF SavedAt, Stored
  <2>5. \A r \in Runs : RowExists /\ Active(r) /\ at[r] # 0 => Done(Stored(r))
    BY DEF StageInv, Resumes
  <2>6. Resumes'
    BY <2>1, <2>3, <2>4, <2>5 DEF Resumes, RowExists, Active, Done
  <2> QED
    BY <2>2, <2>6 DEF StageInv
<1>5. CASE CommitDelete
  <2>1. /\ status' = "absent" /\ outputs' = [i \in 1..N |-> 0]
        /\ UNCHANGED <<created, checkpoint, pc, at>>
    BY <1>5 DEF CommitDelete, fileVars, runVars
  <2>2. Done(0)' /\ outputs'[N] = 0
    BY <2>1, Positions DEF Done
  <2> QED
    BY <2>1, <2>2 DEF StageInv, Untouched, Planned, InOrder, Resumes, Gone, Whole, RowExists
<1>6. CASE AbortDelete
  BY <1>6, StageFrame DEF AbortDelete, rowVars, fileVars, runVars
<1>7. CASE ReEnrich
  BY <1>7, StageFrame DEF ReEnrich, rowVars, fileVars, runVars
<1>8. CASE CommitReEnrich
  <2>1. UNCHANGED <<created, outputs, checkpoint, pc, at>>
    BY <1>8 DEF CommitReEnrich, fileVars, runVars
  <2>2. status' = status \/ (RowExists /\ status' = "running")
    BY <1>8 DEF CommitReEnrich, RowExists
  <2> QED
    BY <2>1, <2>2, StageFrame DEF StageInv, Untouched, Planned, InOrder, Resumes, Gone, Whole, RowExists, Active, InStep, Done, Stored, SavedAt, Ended
<1> QED
  BY <1>1, <1>2, <1>3, <1>4, <1>5, <1>6, <1>7, <1>8 DEF Request

(* A run's step keeps StageInv: what it does to its own position is enough.  *)
LEMMA StageStep ==
    ASSUME "checkpoint" \notin Faults, TypeInv, TypeInv', SoloInv, SoloInv',
           StageInv, NEW r \in Runs, RunStep(r)
    PROVE  StageInv'
<1>1. CASE /\ pc[r] = "reraise"
           /\ pc' = [pc EXCEPT ![r] = "done"]
           /\ UNCHANGED <<created, rowVars, outputs, fileVars, at>>
  <2>1. \A s \in Runs : /\ Active(s)' <=> Active(s)
                        /\ s = r => ~Active(s)
                        /\ s # r => pc'[s] = pc[s]
    BY <1>1 DEF Active, Live, Stepping, TypeInv, TypeOK
  <2>2. UNCHANGED <<created, status, outputs, checkpoint, at>>
    BY <1>1 DEF rowVars, fileVars
  <2>3. Planned'
    BY <1>1, <2>1, <2>2 DEF StageInv, Planned, TypeInv, TypeOK
  <2> QED
    BY <2>1, <2>2, <2>3 DEF StageInv, Untouched, InOrder, Resumes, Gone, Whole, RowExists, InStep, Done, Stored, SavedAt, Ended
<1>2. CASE Active(r) /\ \A s \in Runs \ {r} : ~Active(s) /\ ~Active(s)'
  <2> DEFINE Placed == RowExists /\ Active(r) =>
                         IF at[r] = 0 THEN InStep ELSE Done(Stored(r)) /\ SavedAt(r)
             Emptied == ~RowExists =>
                          /\ \A i \in 1..N : outputs[i] = 0 \/ (i = N /\ outputs[i] = 1)
                          /\ outputs[N] = 1 => (Active(r) => Ended(r))
             Filled == status = "completed" => Done(N) /\ (Active(r) => Ended(r))
             Mine == /\ pc[r] = "refusing" => at[r] = 0
                     /\ pc[r] = "cleanup" => at[r] = N
  <2>1. Placed /\ Emptied /\ Filled /\ Mine /\ InOrder
    BY DEF StageInv, Planned, Resumes, Gone, Whole, InOrder
  <2>2. created /\ created' = created
    BY <1>2, RunStepFrame DEF SoloInv, Pristine, Active, Live, Stepping
  <2>3. ASSUME Placed', Emptied', Filled', Mine', InOrder', status' = "failed" => InStep'
        PROVE  StageInv'
    <3>1. Untouched'
      BY <2>2 DEF Untouched
    <3>2. Planned'
      BY <2>3, RunStepFrame DEF StageInv, Planned
    <3> QED
      BY <1>2, <2>3, <3>1, <3>2 DEF StageInv, Resumes, Gone, Whole
  <2>4. status # "failed" /\ (Active(r)' => status' # "failed")
    BY <1>2 DEF SoloInv, FailedMeansIdle
  <2>5. pc[r] \in Stepping \cup {"failing"} => at[r] \in 1..N
    BY DEF TypeInv, TypeOK, Located
  <2> USE DEF TypeInv, TypeOK, Goto, Active, Live, Stepping, Over
  <2>quiet. ASSUME at' = at, at[r] # 0, UNCHANGED <<outputs, checkpoint>>,
                pc[r] # "cleanup", pc'[r] \notin {"cleanup", "refusing"},
                pc[r] \in Over <=> pc'[r] \in Over, Active(r)',
                status' = status \/ (RowExists /\ status' = "running")
         PROVE  StageInv'
    <3>1. (RowExists' <=> RowExists) /\ (status' = "completed" => status = "completed")
      BY <2>quiet DEF RowExists
    <3>2. Stored(r)' = Stored(r) /\ (SavedAt(r) => SavedAt(r)') /\ (Ended(r)' <=> Ended(r))
      BY <2>quiet DEF Stored, SavedAt, Ended
    <3>3. Placed'
      BY <1>2, <2>1, <2>quiet, <3>1, <3>2 DEF Done
    <3>4. Emptied' /\ Filled'
      BY <1>2, <2>1, <2>quiet, <3>1, <3>2 DEF Done
    <3>5. Mine' /\ InOrder'
      BY <2>1, <2>quiet, <3>1 DEF InOrder, Done
    <3> QED
      BY <2>3, <2>4, <2>quiet, <3>3, <3>4, <3>5
  <2>6. CASE RunFullAnalysis(r)
    <3>1. /\ UNCHANGED <<status, outputs, checkpoint>>
          /\ at'[r] = IF at[r] = 0 THEN ResumeAt ELSE at[r]
          /\ pc[r] = "launched"
          /\ pc'[r] = IF at'[r] = 0 THEN "refusing" ELSE "begin"
      BY <2>6 DEF RunFullAnalysis, rowVars, fileVars
    <3>2. Mine' /\ Emptied' /\ Filled' /\ InOrder'
      BY <2>1, <3>1, Positions DEF RowExists, Done, InOrder, Ended
    <3>3. Placed'
      <4>1. CASE at[r] # 0
        BY <2>1, <3>1, <4>1 DEF RowExists, Done, Stored, SavedAt
      <4>2. CASE at[r] = 0 /\ at'[r] = 0
        BY <2>1, <3>1, <4>2 DEF RowExists, Done, InStep
      <4>3. CASE at[r] = 0 /\ at'[r] # 0
        <5>1. at'[r] = checkpoint + 1 /\ checkpoint \in 1..(N - 1)
          BY <3>1, <4>3 DEF ResumeAt, Resumable
        <5>nat. checkpoint \in Nat
          BY Positions
        <5>2. RowExists => Done(checkpoint)
          BY <2>1, <3>1, <4>3, <5>1, Positions DEF InStep
        <5>3. at'[r] - 1 = checkpoint
          BY <5>1, <5>nat
        <5> QED
          BY <3>1, <4>3, <5>2, <5>3 DEF RowExists, Done, Stored, SavedAt
      <4> QED
        BY <4>1, <4>2, <4>3
    <3>4. status' # "failed"
      BY <2>4, <3>1
    <3> QED
      BY <2>3, <3>2, <3>3, <3>4
  <2>7. CASE RefuseResume(r)
    <3>1. /\ pc[r] = "refusing" /\ at[r] = 0 /\ ~Active(r)'
          /\ pc'[r] \in {"done", "reraise"} /\ at' = at
          /\ UNCHANGED <<outputs, checkpoint>>
          /\ status' = status \/ (RowExists /\ status' = "failed")
      BY <2>1, <2>7 DEF RefuseResume, RecordFailure, rowVars, fileVars
    <3>2. status' = "failed" => InStep'
      BY <1>2, <2>1, <2>4, <3>1 DEF InStep, Done
    <3>3. Emptied' /\ Filled' /\ InOrder' /\ Mine' /\ Placed'
      BY <2>1, <3>1 DEF RowExists, Done, InOrder
    <3> QED
      BY <2>3, <3>2, <3>3
  <2>8. CASE PushStageProgress(r)
    <3>1. /\ pc[r] = "begin" /\ pc'[r] = "check" /\ at' = at
          /\ UNCHANGED <<outputs, checkpoint>>
          /\ status' = status \/ (RowExists /\ status' = "running")
      BY <2>8 DEF PushStageProgress, rowVars, fileVars
    <3> QED
      BY <2>5, <2>quiet, <3>1
  <2>9. CASE StageCheck(r)
    <3>1. /\ pc[r] = "check" /\ at' = at /\ UNCHANGED <<status, checkpoint>>
          /\ pc'[r] \in {"failing", "persist", "work"}
          /\ at[r] \in 1..N
      BY <2>5, <2>9 DEF StageCheck, rowVars, fileVars
    <3>2. status # "completed"
      BY <1>2, <2>1, <3>1 DEF Ended
    <3>3. CASE ~RowExists
      <4>1. outputs' = outputs
        BY <2>9, <3>3 DEF StageCheck
      <4>2. outputs[N] # 1
        BY <1>2, <2>1, <3>1, <3>3 DEF Ended
      <4> QED
        BY <2>1, <2>3, <2>4, <3>1, <3>2, <3>3, <4>1, <4>2, Positions DEF RowExists, InOrder
    <3>4. CASE RowExists /\ pc'[r] = "persist"
      <4>1. outputs' = [outputs EXCEPT ![at[r]] = @ + 1]
        BY <2>9, <3>4 DEF StageCheck
      <4>2. Done(at[r] - 1) /\ checkpoint \in {0, at[r] - 1}
        BY <1>2, <2>1, <3>1, <3>4 DEF Stored, SavedAt
      <4>3. PICK m \in 1..N : m = at[r]
        BY <3>1
      <4>store. Done(m)' /\ at'[r] = m
        BY <3>1, <4>1, <4>2, <4>3, StoreNext
      <4> QED
        BY <2>3, <2>4, <3>1, <3>2, <3>4, <4>2, <4>3, <4>store DEF RowExists, InOrder, Stored, SavedAt
    <3>5. CASE RowExists /\ pc'[r] # "persist"
      <4>1. outputs' = outputs
        BY <2>9, <3>5 DEF StageCheck
      <4> QED
        BY <1>2, <2>1, <2>3, <2>4, <3>1, <3>2, <3>5, <4>1 DEF RowExists, InOrder, Stored, SavedAt, Done
    <3> QED
      BY <3>3, <3>4, <3>5
  <2>10. CASE StageCommit(r)
    <3>1. /\ pc[r] = "work" /\ at' = at /\ checkpoint' = checkpoint
          /\ pc'[r] \in {"failing", "persist"}
          /\ at[r] \in 1..N
      BY <2>5, <2>10 DEF StageCommit
    <3>2. status # "completed" /\ (~RowExists => outputs[N] # 1)
      BY <1>2, <2>1, <3>1 DEF Ended
    <3>3. Stages[at[r]] = "finalize" <=> at[r] = N
      BY <3>1, LastIsFinalize
    <3>4. CASE ~RowExists
      <4>1. status' = status
        BY <2>10, <3>4 DEF StageCommit, rowVars
      <4>2. CASE at[r] = N
        <5>1. pc'[r] = "persist"
          BY <2>10, <3>3, <4>2 DEF StageCommit, ForeignKeyed
        <5>2. outputs' = [outputs EXCEPT ![N] = @ + 1]
          BY <2>10, <3>3, <4>2 DEF StageCommit
        <5>3. outputs[N] = 0
          BY <2>1, <3>2, <3>4, Positions
        <5> QED
          BY <2>1, <2>3, <2>4, <3>1, <3>4, <4>1, <4>2, <5>1, <5>2, <5>3, Positions DEF RowExists, InOrder, Ended
      <4>3. CASE at[r] # N
        <5>1. outputs' = outputs
          BY <2>10, <3>3, <3>4, <4>3 DEF StageCommit
        <5> QED
          BY <2>1, <2>3, <2>4, <3>1, <3>2, <3>4, <4>1, <5>1, Positions DEF RowExists, InOrder
      <4> QED
        BY <4>2, <4>3
    <3>5. CASE RowExists
      <4>1. outputs' = [outputs EXCEPT ![at[r]] = @ + 1] /\ pc'[r] = "persist"
        BY <2>10, <3>5 DEF StageCommit
      <4>2. Done(at[r] - 1) /\ checkpoint \in {0, at[r] - 1}
        BY <1>2, <2>1, <3>1, <3>5 DEF Stored, SavedAt
      <4>3. PICK m \in 1..N : m = at[r]
        BY <3>1
      <4>store. Done(m)' /\ at'[r] = m
        BY <3>1, <4>1, <4>2, <4>3, StoreNext
      <4>4. status' \in StatusAfter(Stages[at[r]])
        BY <2>10, <3>5 DEF StageCommit
      <4>5. status' = "completed" => at[r] = N
        BY <3>2, <3>3, <4>4 DEF StatusAfter
      <4>6. status' # "failed" /\ RowExists'
        BY <2>4, <3>5, <4>4 DEF StatusAfter, RowExists
      <4> QED
        BY <2>3, <3>1, <4>1, <4>2, <4>3, <4>5, <4>6, <4>store DEF InOrder, Stored, SavedAt, Ended
    <3> QED
      BY <3>4, <3>5
  <2>11. CASE StageRaise(r)
    <3>1. /\ pc[r] = "work" /\ pc'[r] = "failing" /\ at' = at
          /\ UNCHANGED <<outputs, checkpoint>>
          /\ status' = status \/ (RowExists /\ status' = "running")
      BY <2>11 DEF StageRaise, rowVars, fileVars
    <3> QED
      BY <2>5, <2>quiet, <3>1
  <2>12. CASE PersistEngineStatuses(r)
    <3>1. /\ pc[r] = "persist" /\ pc'[r] = "save" /\ at' = at
          /\ UNCHANGED <<status, outputs, checkpoint>>
      BY <2>12 DEF PersistEngineStatuses, rowVars, fileVars
    <3> QED
      BY <2>5, <2>quiet, <3>1
  <2>13. CASE SaveCheckpoint(r)
    <3>1. /\ pc[r] = "save" /\ checkpoint' = at[r] /\ UNCHANGED <<status, outputs>>
          /\ at[r] \in 1..N
          /\ \/ at[r] < N /\ pc'[r] = "begin" /\ at'[r] = at[r] + 1
             \/ at[r] = N /\ pc'[r] = "cleanup" /\ at'[r] = at[r]
      <4>1. pc[r] = "save" /\ at[r] \in 1..N /\ N \in Nat
        BY <2>5, <2>13, Positions DEF SaveCheckpoint
      <4>2. checkpoint' = at[r] /\ UNCHANGED <<status, outputs>>
        BY <2>13 DEF SaveCheckpoint, LastStage, rowVars
      <4>3. CASE at[r] < N
        BY <2>13, <4>1, <4>2, <4>3 DEF SaveCheckpoint
      <4>4. CASE at[r] = N
        BY <2>13, <4>1, <4>2, <4>4 DEF SaveCheckpoint
      <4> QED
        BY <4>1, <4>3, <4>4
    <3>2. (at'[r] - 1 = at[r] \/ pc'[r] = "cleanup") /\ at'[r] # 0
      BY <3>1, Positions
    <3>3. RowExists => Done(at[r])
      BY <1>2, <2>1, <3>1 DEF Stored
    <3>4. Placed'
      BY <3>1, <3>2, <3>3 DEF RowExists, Done, Stored, SavedAt
    <3>5. Mine' /\ Filled' /\ Emptied' /\ InOrder'
      BY <2>1, <3>1, Positions DEF RowExists, Done, Ended, InOrder
    <3> QED
      BY <2>3, <2>4, <3>1, <3>4, <3>5
  <2>14. CASE DeleteCheckpoint(r)
    <3>1. /\ pc[r] = "cleanup" /\ pc'[r] = "done" /\ at' = at
          /\ UNCHANGED <<status, outputs>>
      BY <2>14 DEF DeleteCheckpoint, rowVars
    <3> QED
      BY <2>1, <2>3, <2>4, <3>1 DEF RowExists, Done, InOrder
  <2>15. CASE HandleFailure(r)
    <3>1. /\ pc[r] = "failing" /\ pc'[r] = "reraise" /\ at' = at
          /\ UNCHANGED <<outputs, checkpoint>>
          /\ status' = status \/ (RowExists /\ status' = "failed")
      BY <2>15 DEF HandleFailure, RecordFailure, rowVars, fileVars
    <3>2. status' = "failed" => InStep'
      <4> SUFFICES ASSUME status' = "failed" PROVE InStep'
        OBVIOUS
      <4>1. RowExists /\ at[r] \in 1..N
        BY <2>4, <2>5, <3>1
      <4>2. Done(at[r] - 1) /\ checkpoint \in {0, at[r] - 1}
        BY <1>2, <2>1, <3>1, <4>1 DEF Stored, SavedAt
      <4>3. at[r] - 1 \in 0..N
        BY <4>1, Positions
      <4> QED
        BY <3>1, <4>2, <4>3 DEF InStep, Done
    <3> QED
      BY <2>1, <2>3, <3>1, <3>2 DEF RowExists, Done, InOrder
  <2>16. CASE LastResort(r)
    BY <1>2, <2>16 DEF LastResort
  <2> QED
    BY <2>6, <2>7, <2>8, <2>9, <2>10, <2>11, <2>12, <2>13, <2>14, <2>15, <2>16 DEF RunStep
<1> QED
  BY <1>1, <1>2, RunStepAlone

(* A crash loses the file or not, and ends every run.                        *)
LEMMA StageCrash ==
    ASSUME TypeInv, StageInv, Crash
    PROVE  StageInv'
<1>1. /\ created /\ created' = created /\ UNCHANGED <<status, outputs, at>>
      /\ checkpoint' \in {checkpoint, 0}
      /\ \A r \in Runs : pc'[r] \in {"unused", "dead"}
  BY DEF Crash, rowVars
<1>2. \A r \in Runs : ~Active(r)' /\ pc'[r] # "refusing" /\ pc'[r] # "cleanup"
  BY <1>1 DEF Active, Live, Stepping
<1>3. InStep => InStep'
  BY <1>1 DEF InStep, Done
<1> QED
  BY <1>1, <1>2, <1>3 DEF StageInv, Untouched, Planned, InOrder, Resumes, Gone, Whole, RowExists, Done

(* While the checkpoint file can be written and deleted, StageInv holds.     *)
LEMMA StageTheorem ==
    ASSUME "checkpoint" \notin Faults PROVE Spec => []StageInv
<1>1. /\ TypeInv /\ TypeInv' /\ SoloInv /\ SoloInv' /\ StageInv /\ [Next]_vars
      => StageInv'
  <2> SUFFICES ASSUME TypeInv, TypeInv', SoloInv, SoloInv', StageInv, [Next]_vars
               PROVE  StageInv'
    OBVIOUS
  <2>1. CASE UNCHANGED vars
    BY <2>1, StageFrame DEF vars, rowVars, fileVars, runVars
  <2> QED
    BY <2>1, StageRequest, StageStep, StageCrash DEF Next
<1> QED
  BY <1>1, StageInit, TypeCorrect, SoloTheorem, PTL DEF Spec, TypeInv

(* "Nothing already finished runs twice": over all attempts a stage finishes *)
(* at most once, whenever no write of the checkpoint file is lost.           *)
THEOREM StagesRunOnce ==
    ASSUME "checkpoint" \notin Faults
    PROVE  Spec => []NoStageTwice
<1>1. TypeInv /\ StageInv => NoStageTwice
  <2> SUFFICES ASSUME TypeInv, StageInv PROVE NoStageTwice
    OBVIOUS
  <2>1. CASE RowExists
    <3>1. PICK m \in 0..N : Done(m)
      BY <2>1 DEF StageInv, InOrder
    <3> QED
      BY <3>1, Positions DEF Done, NoStageTwice
  <2>2. CASE ~RowExists
    BY <2>2 DEF StageInv, Gone, RowExists, NoStageTwice
  <2> QED
    BY <2>1, <2>2
<1> QED
  BY <1>1, StageTheorem, TypeCorrect, PTL DEF TypeInv

-----------------------------------------------------------------------------
(***************************************************************************)
(* What holds under every fault, lost writes of the checkpoint file and    *)
(* re-enrich included: a stage may then run twice, but none is skipped.    *)
(***************************************************************************)

(* A run has put stage i behind it.                                          *)
Passed(r, i) == i < at[r] \/ (i = at[r] /\ pc[r] \in Over)

(* There is no file before the job is submitted.                             *)
Unstarted == ~created => checkpoint = 0

(* What the file, a run or a completed row says is done has been stored.     *)
Backed ==
    RowExists =>
        /\ \A i \in 1..N : i <= checkpoint => outputs[i] >= 1
        /\ \A r \in Runs : Active(r) => \A i \in 1..N : Passed(r, i) => outputs[i] >= 1
        /\ status = "completed" => \A i \in 1..N : outputs[i] >= 1

(* The run that completed the job has no stage left.                         *)
Finishing == status = "completed" => \A r \in Runs : Active(r) => Ended(r)

BackedInv == Unstarted /\ Backed /\ Finishing

(* Nothing that the invariant speaks of changes, but for the row leaving     *)
(* or a status that is not the last one.                                     *)
LEMMA BackedFrame ==
    ASSUME BackedInv, UNCHANGED <<created, outputs, checkpoint, pc, at>>,
           status' # "absent" => RowExists,
           status' = "completed" => status = "completed"
    PROVE  BackedInv'
BY DEF BackedInv, Unstarted, Backed, Finishing, RowExists, Active, Passed, Ended

(* The requests of clients keep it.                                          *)
LEMMA BackedRequest ==
    ASSUME TypeInv, SoloInv, BackedInv, Request
    PROVE  BackedInv'
<1>1. CASE StartAnalysis
  <2>1. PICK r \in Runs : Launch(r, 1)
    BY <1>1 DEF StartAnalysis
  <2>2. /\ checkpoint' = 0 /\ created' = TRUE /\ status' = "queued"
        /\ \A s \in Runs : Active(s)' => s = r
        /\ pc'[r] = "launched" /\ at'[r] = 1
    BY <1>1, <2>1 DEF StartAnalysis, Launch, fileVars, BackedInv, Unstarted, SoloInv,
                      Pristine, Active, Live, Stepping, TypeInv, TypeOK
  <2>3. \A i \in 1..N : ~(i <= 0) /\ ~(i < 1)
    BY Positions
  <2> QED
    BY <2>2, <2>3 DEF BackedInv, Unstarted, Backed, Finishing, Passed, Over
<1>2. ASSUME NEW c \in Retriers, RetryCheck(c) PROVE BackedInv'
  BY <1>2, BackedFrame DEF RetryCheck, rowVars, fileVars, runVars, RowExists
<1>3. ASSUME NEW c \in Retriers, RetryClaim(c) PROVE BackedInv'
  <2>1. CASE Claimable
    <3>1. PICK r \in Runs : Launch(r, 0)
      BY <1>3, <2>1 DEF RetryClaim
    <3>2. /\ RowExists /\ created' = created /\ status' = "queued"
          /\ outputs' = outputs /\ checkpoint' = checkpoint
          /\ \A s \in Runs : Active(s)' => s = r
          /\ pc'[r] = "launched" /\ at'[r] = 0
      BY <1>3, <2>1, <3>1 DEF RetryClaim, ClaimRow, Launch, fileVars, Claimable, RowExists,
                              SoloInv, FailedMeansIdle, Active, TypeInv, TypeOK
    <3>3. \A i \in 1..N : ~(i < 0)
      BY Positions
    <3> QED
      BY <3>2, <3>3 DEF BackedInv, Unstarted, Backed, Finishing, Passed, Over
  <2>2. CASE ~Claimable
    BY <1>3, <2>2, BackedFrame DEF RetryClaim, rowVars, fileVars, runVars, RowExists
  <2> QED
    BY <2>1, <2>2
<1>4. CASE DeleteJob
  <2>1. /\ checkpoint' \in {0, checkpoint} /\ UNCHANGED <<created, status, outputs, pc, at>>
    BY <1>4 DEF DeleteJob, rowVars, runVars
  <2>2. \A i \in 1..N : i <= checkpoint' => i <= checkpoint
    BY <2>1, Positions DEF TypeInv, TypeOK
  <2> QED
    BY <2>1, <2>2 DEF BackedInv, Unstarted, Backed, Finishing, RowExists, Active, Passed, Ended
<1>5. CASE CommitDelete
  BY <1>5 DEF CommitDelete, fileVars, runVars, BackedInv, Unstarted, Backed, Finishing, RowExists
<1>6. CASE AbortDelete
  BY <1>6, BackedFrame DEF AbortDelete, rowVars, fileVars, runVars, RowExists
<1>7. CASE ReEnrich
  BY <1>7, BackedFrame DEF ReEnrich, rowVars, fileVars, runVars, RowExists
<1>8. CASE CommitReEnrich
  BY <1>8, BackedFrame DEF CommitReEnrich, fileVars, runVars, RowExists
<1> QED
  BY <1>1, <1>2, <1>3, <1>4, <1>5, <1>6, <1>7, <1>8 DEF Request

(* A run's step keeps it: a stage is left behind with its output, and a run  *)
(* skips what the file says is done.                                         *)
LEMMA BackedStep ==
    ASSUME TypeInv, TypeInv', SoloInv, SoloInv', BackedInv, NEW r \in Runs, RunStep(r)
    PROVE  BackedInv'
<1>1. CASE /\ pc[r] = "reraise"
           /\ pc' = [pc EXCEPT ![r] = "done"]
           /\ UNCHANGED <<created, rowVars, outputs, fileVars, at>>
  <2>1. \A s \in Runs : Active(s)' => Active(s) /\ pc'[s] = pc[s]
    BY <1>1 DEF Active, Live, Stepping, TypeInv, TypeOK
  <2> QED
    BY <1>1, <2>1 DEF BackedInv, Unstarted, Backed, Finishing, RowExists, Passed, Ended,
                      rowVars, fileVars
<1>2. CASE Active(r) /\ \A s \in Runs \ {r} : ~Active(s) /\ ~Active(s)'
  <2>1. created /\ created' = created
    BY <1>2, RunStepFrame DEF SoloInv, Pristine, Active, Live, Stepping
  <2> DEFINE Filed == RowExists => \A i \in 1..N : i <= checkpoint => outputs[i] >= 1
             Left  == RowExists /\ Active(r) => \A i \in 1..N : Passed(r, i) => outputs[i] >= 1
             Full  == status = "completed" => /\ \A i \in 1..N : outputs[i] >= 1
                                              /\ Active(r) => Ended(r)
  <2>2. Filed /\ Left /\ Full
    BY DEF BackedInv, Backed, Finishing, RowExists
  <2>3. ASSUME Filed', Left', Full' PROVE BackedInv'
    BY <1>2, <2>1, <2>3 DEF BackedInv, Unstarted, Backed, Finishing
  <2>4. pc[r] \in Stepping \cup {"failing"} => at[r] \in 1..N
    BY DEF TypeInv, TypeOK, Located
  <2> USE DEF TypeInv, TypeOK, Goto, Over
  <2>keep. ASSUME UNCHANGED <<outputs, checkpoint>>, at'[r] = at[r],
                  pc'[r] \in Over => pc[r] \in Over,
                  Active(r)' => (pc[r] \in Over => pc'[r] \in Over),
                  RowExists' => RowExists, status' = "completed" => status = "completed"
           PROVE  BackedInv'
    <3>1. Filed'
      BY <2>2, <2>keep DEF RowExists
    <3>2. Left'
      BY <1>2, <2>2, <2>keep DEF Passed
    <3>3. Full'
      BY <1>2, <2>2, <2>keep DEF Ended
    <3> QED
      BY <2>3, <3>1, <3>2, <3>3
  <2>store. ASSUME at[r] \in 1..N, RowExists', RowExists, UNCHANGED <<checkpoint, at>>,
                   outputs' = [outputs EXCEPT ![at[r]] = @ + 1], pc[r] \notin Over,
                   status # "completed", status' = "completed" => at[r] = N,
                   status' = "completed" => pc'[r] = "persist"
            PROVE  BackedInv'
    <3>1. PICK m \in 1..N : m = at[r]
      BY <2>store
    <3>2. \A i \in 1..N : outputs[i] >= 1 \/ i = m => outputs'[i] >= 1
      BY <2>store, <3>1
    <3>3. Filed'
      BY <2>2, <2>store, <3>2
    <3>4. \A i \in 1..N : i < m => outputs[i] >= 1
      BY <1>2, <2>2, <2>store, <3>1 DEF Passed
    <3>5. Left'
      BY <2>store, <3>1, <3>2, <3>4 DEF Passed
    <3>6. status' = "completed" => \A i \in 1..N : i < m \/ i = m
      BY <2>store, <3>1, Positions
    <3>7. Full'
      BY <2>store, <3>1, <3>2, <3>4, <3>6 DEF Ended
    <3> QED
      BY <2>3, <3>3, <3>5, <3>7
  <2>5. CASE RunFullAnalysis(r)
    <3>1. /\ UNCHANGED <<status, outputs, checkpoint>>
          /\ at'[r] = IF at[r] = 0 THEN ResumeAt ELSE at[r]
          /\ pc[r] = "launched" /\ pc'[r] \in {"refusing", "begin"}
      BY <2>5 DEF RunFullAnalysis, rowVars, fileVars
    <3>2. CASE at'[r] = at[r]
      BY <2>keep, <3>1, <3>2 DEF RowExists
    <3>3. CASE at'[r] = checkpoint + 1
      <4>1. checkpoint \in Nat /\ \A i \in 1..N : i < checkpoint + 1 => i <= checkpoint
        BY Positions
      <4>2. Left'
        BY <2>2, <3>1, <3>3, <4>1 DEF Passed, RowExists
      <4>3. status # "completed"
        BY <1>2, <2>2, <3>1 DEF Ended
      <4> QED
        BY <2>2, <2>3, <3>1, <4>2, <4>3 DEF RowExists
    <3>4. ResumeAt \in {0, checkpoint + 1}
      BY DEF ResumeAt
    <3> QED
      BY <3>1, <3>2, <3>3, <3>4
  <2>6. CASE RefuseResume(r)
    <3>1. /\ pc[r] = "refusing" /\ pc'[r] \in {"done", "reraise"} /\ at' = at
          /\ UNCHANGED <<outputs, checkpoint>>
          /\ status' = status \/ (RowExists /\ status' = "failed")
      BY <2>6 DEF RefuseResume, RecordFailure, rowVars, fileVars
    <3> QED
      BY <2>keep, <3>1 DEF RowExists
  <2>7. CASE PushStageProgress(r)
    <3>1. /\ pc[r] = "begin" /\ pc'[r] = "check" /\ at' = at
          /\ UNCHANGED <<outputs, checkpoint>>
          /\ status' = status \/ (RowExists /\ status' = "running")
      BY <2>7 DEF PushStageProgress, rowVars, fileVars
    <3> QED
      BY <2>keep, <3>1 DEF RowExists
  <2>8. CASE StageCheck(r)
    <3>1. /\ pc[r] = "check" /\ at' = at /\ UNCHANGED <<status, checkpoint>>
          /\ pc'[r] \in {"failing", "persist", "work"} /\ at[r] \in 1..N
      BY <2>4, <2>8 DEF StageCheck, rowVars, fileVars, Stepping
    <3>2. status # "completed"
      BY <1>2, <2>2, <3>1 DEF Ended
    <3>3. CASE RowExists /\ pc'[r] = "persist"
      <4>1. outputs' = [outputs EXCEPT ![at[r]] = @ + 1]
        BY <2>8, <3>3 DEF StageCheck
      <4> QED
        BY <2>store, <3>1, <3>2, <3>3, <4>1 DEF RowExists
    <3>4. CASE RowExists /\ pc'[r] # "persist"
      <4>1. outputs' = outputs
        BY <2>8, <3>4 DEF StageCheck
      <4> QED
        BY <2>keep, <3>1, <3>4, <4>1 DEF RowExists
    <3>5. CASE ~RowExists
      BY <2>3, <3>1, <3>2, <3>5 DEF RowExists
    <3> QED
      BY <3>3, <3>4, <3>5
  <2>9. CASE StageCommit(r)
    <3>1. /\ pc[r] = "work" /\ at' = at /\ checkpoint' = checkpoint /\ at[r] \in 1..N
      BY <2>4, <2>9 DEF StageCommit, Stepping
    <3>2. status # "completed"
      BY <1>2, <2>2, <3>1 DEF Ended
    <3>3. CASE ~RowExists
      <4>1. status' = status
        BY <2>9, <3>3 DEF StageCommit, rowVars
      <4> QED
        BY <2>3, <3>2, <3>3, <4>1 DEF RowExists
    <3>4. CASE RowExists
      <4>1. /\ outputs' = [outputs EXCEPT ![at[r]] = @ + 1] /\ pc'[r] = "persist"
            /\ status' \in StatusAfter(Stages[at[r]])
        BY <2>9, <3>4 DEF StageCommit
      <4>2. status' = "completed" => at[r] = N
        BY <3>1, <3>2, <4>1, LastIsFinalize DEF StatusAfter
      <4>3. RowExists'
        BY <3>4, <4>1 DEF StatusAfter, RowExists
      <4> QED
        BY <2>store, <3>1, <3>2, <3>4, <4>1, <4>2, <4>3
    <3> QED
      BY <3>3, <3>4
  <2>10. CASE StageRaise(r)
    <3>1. /\ pc[r] = "work" /\ pc'[r] = "failing" /\ at' = at
          /\ UNCHANGED <<outputs, checkpoint>>
          /\ status' = status \/ (RowExists /\ status' = "running")
      BY <2>10 DEF StageRaise, rowVars, fileVars
    <3> QED
      BY <2>keep, <3>1 DEF RowExists
  <2>11. CASE PersistEngineStatuses(r)
    <3>1. /\ pc[r] = "persist" /\ pc'[r] = "save" /\ at' = at
          /\ UNCHANGED <<status, outputs, checkpoint>>
      BY <2>11 DEF PersistEngineStatuses, rowVars, fileVars
    <3> QED
      BY <2>keep, <3>1 DEF RowExists
  <2>12. CASE SaveCheckpoint(r)
    <3>1. /\ pc[r] = "save" /\ UNCHANGED <<status, outputs>> /\ at[r] \in 1..N
          /\ checkpoint' \in {at[r], checkpoint}
      BY <2>4, <2>12 DEF SaveCheckpoint, LastStage, rowVars, Stepping
    <3>2. RowExists => \A i \in 1..N : i <= at[r] => outputs[i] >= 1
      <4>1. PICK m \in 1..N : m = at[r]
        BY <3>1
      <4>2. \A i \in 1..N : i <= m => Passed(r, i)
        BY <3>1, <4>1 DEF Passed
      <4> QED
        BY <1>2, <2>2, <4>1, <4>2
    <3>3. Filed'
      BY <2>2, <3>1, <3>2 DEF RowExists
    <3>4. CASE at[r] < N
      <4>1. pc'[r] = "begin" /\ at'[r] = at[r] + 1
        BY <2>12, <3>1, <3>4 DEF SaveCheckpoint
      <4>2. PICK m \in 1..N : m = at[r] /\ m # N
        BY <3>1, <3>4, Positions
      <4>3. \A i \in 1..N : i < m + 1 => i <= m
        BY Positions
      <4>4. Left'
        BY <3>1, <3>2, <4>1, <4>2, <4>3 DEF Passed, RowExists
      <4>5. status # "completed"
        BY <1>2, <2>2, <4>2 DEF Ended
      <4> QED
        BY <2>3, <3>1, <3>3, <4>4, <4>5
    <3>5. CASE ~(at[r] < N)
      <4>1. pc'[r] = "cleanup" /\ at' = at
        BY <2>12, <3>5 DEF SaveCheckpoint
      <4>2. Left'
        BY <1>2, <2>2, <3>1, <4>1 DEF Passed, RowExists
      <4>3. Full'
        BY <1>2, <2>2, <3>1, <4>1 DEF Ended
      <4> QED
        BY <2>3, <3>3, <4>2, <4>3
    <3> QED
      BY <3>4, <3>5
  <2>13. CASE DeleteCheckpoint(r)
    <3>1. /\ pc'[r] = "done" /\ UNCHANGED <<status, outputs>> /\ checkpoint' \in {0, checkpoint}
      BY <2>13 DEF DeleteCheckpoint, rowVars
    <3>2. ~Active(r)'
      BY <3>1 DEF Active, Live, Stepping
    <3>3. \A i \in 1..N : i <= checkpoint' => i <= checkpoint
      BY <3>1, Positions
    <3> QED
      BY <2>2, <2>3, <3>1, <3>2, <3>3 DEF RowExists
  <2>14. CASE HandleFailure(r)
    <3>1. /\ pc[r] = "failing" /\ pc'[r] = "reraise" /\ at' = at
          /\ UNCHANGED <<outputs, checkpoint>>
          /\ status' = status \/ (RowExists /\ status' = "failed")
      BY <2>14 DEF HandleFailure, RecordFailure, rowVars, fileVars
    <3> QED
      BY <2>keep, <3>1 DEF RowExists
  <2>15. CASE LastResort(r)
    BY <1>2, <2>15 DEF LastResort, Active, Live, Stepping
  <2> QED
    BY <2>5, <2>6, <2>7, <2>8, <2>9, <2>10, <2>11, <2>12, <2>13, <2>14, <2>15 DEF RunStep
<1> QED
  BY <1>1, <1>2, RunStepAlone

(* A crash may take the file away, but not the rows.                         *)
LEMMA BackedTheorem == Spec => []BackedInv
<1>1. Init => BackedInv
  BY DEF Init, BackedInv, Unstarted, Backed, Finishing, RowExists
<1>2. TypeInv /\ TypeInv' /\ SoloInv /\ SoloInv' /\ BackedInv /\ [Next]_vars => BackedInv'
  <2> SUFFICES ASSUME TypeInv, TypeInv', SoloInv, SoloInv', BackedInv, [Next]_vars
               PROVE  BackedInv'
    OBVIOUS
  <2>1. CASE UNCHANGED vars
    BY <2>1, BackedFrame DEF vars, rowVars, fileVars, runVars, RowExists
  <2>2. CASE Crash
    <3>1. /\ created /\ created' = created /\ UNCHANGED <<status, outputs>>
          /\ \A r \in Runs : ~Active(r)' /\ checkpoint' \in {0, checkpoint}
      BY <2>2 DEF Crash, rowVars, Active, Live, Stepping
    <3>2. \A i \in 1..N : i <= checkpoint' => i <= checkpoint
      BY <2>2, Positions DEF Crash, TypeInv, TypeOK
    <3> QED
      BY <3>1, <3>2 DEF BackedInv, Unstarted, Backed, Finishing, RowExists
  <2> QED
    BY <2>1, <2>2, BackedRequest, BackedStep DEF Next
<1> QED
  BY <1>1, <1>2, TypeCorrect, SoloTheorem, PTL DEF Spec, TypeInv

(* A completed job has every stage's output, whatever fails on the way.      *)
THEOREM NothingSkipped == Spec => []CompletedIsWhole
<1>1. TypeInv /\ BackedInv => CompletedIsWhole
  BY DEF BackedInv, Backed, RowExists, CompletedIsWhole
<1> QED
  BY <1>1, BackedTheorem, TypeCorrect, PTL DEF TypeInv

(* A position in the checkpoint file always has its rows in the database,    *)
(* also when writes and deletions of the file are lost.                      *)
THEOREM FileBehindRows == Spec => []CheckpointIsBehindRows
<1>1. TypeInv /\ BackedInv => CheckpointIsBehindRows
  <2> SUFFICES ASSUME TypeInv, BackedInv, RowExists, NEW i \in 1..checkpoint
               PROVE  outputs[i] >= 1
    BY DEF CheckpointIsBehindRows
  <2>1. i \in 1..N /\ i <= checkpoint
    BY Positions DEF TypeInv, TypeOK
  <2> QED
    BY <2>1 DEF BackedInv, Backed
<1> QED
  BY <1>1, BackedTheorem, TypeCorrect, PTL DEF TypeInv

-----------------------------------------------------------------------------
(* The engine maps that end a job: nothing runs in a failed one, everything  *)
(* is complete in the last stage's.                                          *)
LEMMA PayloadAtEnd ==
    ASSUME TypeInv, NEW r \in Runs
    PROVE  /\ \A i \in DOMAIN EnginePayload(r, "failed") :
                 EnginePayload(r, "failed")[i] # "running"
           /\ at[r] = N => EnginePayload(r, "completed") = [i \in EngineAt |-> "completed"]
<1>1. \A i \in EngineAt : at[r] = N => i < at[r] \/ i = at[r]
  BY Positions DEF EngineAt
<1> QED
  BY <1>1 DEF EnginePayload

(* A step of a run leaves engines that agree with the status.                *)
LEMMA EnginesStep ==
    ASSUME TypeInv, SoloInv, SoloInv', BackedInv, EnginesAgree, NEW r \in Runs, RunStep(r)
    PROVE  EnginesAgree'
<1>1. ASSUME UNCHANGED <<status, engines>> PROVE EnginesAgree'
  BY <1>1 DEF EnginesAgree, EngineAt
<1>2. ASSUME status' \notin {"failed", "completed"} PROVE EnginesAgree'
  BY <1>2 DEF EnginesAgree
<1>3. ASSUME status' = "failed" /\ engines' \in {NoEngines, EnginePayload(r, "failed")}
      PROVE  EnginesAgree'
  <2>1. \A i \in DOMAIN engines' : engines'[i] # "running"
    BY <1>3, PayloadAtEnd DEF NoEngines
  <2> QED
    BY <1>3, <2>1 DEF EnginesAgree
<1>4. ASSUME status' # "failed", at[r] = N, engines' = EnginePayload(r, "completed")
      PROVE  EnginesAgree'
  BY <1>4, PayloadAtEnd DEF EnginesAgree, EngineAt
<1>5. CASE pc[r] = "reraise" /\ UNCHANGED <<rowVars>>
  BY <1>1, <1>5 DEF rowVars
<1>6. CASE Active(r)
  <2>1. status # "failed" /\ (status = "completed" => Ended(r))
    BY <1>6 DEF SoloInv, FailedMeansIdle, BackedInv, Finishing
  <2>2. CASE RunFullAnalysis(r) \/ StageCheck(r) \/ SaveCheckpoint(r) \/ DeleteCheckpoint(r)
    BY <1>1, <2>2 DEF RunFullAnalysis, StageCheck, SaveCheckpoint, DeleteCheckpoint, rowVars
  <2>3. CASE RefuseResume(r)
    BY <1>1, <1>3, <2>3 DEF RefuseResume, RecordFailure, rowVars
  <2>4. CASE PushStageProgress(r)
    BY <1>1, <1>2, <2>4 DEF PushStageProgress, rowVars
  <2>5. CASE StageCommit(r)
    <3>1. pc[r] = "work" /\ status # "completed" /\ at[r] \in 1..N
      BY <2>1, <2>5 DEF StageCommit, Ended, Over, TypeInv, TypeOK, Located, Stepping
    <3>2. CASE RowExists /\ at[r] = N
      <4>1. Stages[at[r]] = "finalize"
        BY <3>1, <3>2, LastIsFinalize
      <4>2. status' \in StatusAfter("finalize") /\ engines' = EnginePayload(r, "completed")
        BY <2>5, <3>2, <4>1 DEF StageCommit
      <4>3. status' = "completed"
        BY <4>2 DEF StatusAfter, KeepsStatus, Swallows
      <4> QED
        BY <1>4, <3>2, <4>2, <4>3
    <3>3. CASE RowExists /\ at[r] # N
      <4>1. status' \in StatusAfter(Stages[at[r]]) /\ Stages[at[r]] # "finalize"
        BY <2>5, <3>1, <3>3, LastIsFinalize DEF StageCommit
      <4> QED
        BY <1>2, <2>1, <3>1, <4>1 DEF StatusAfter
    <3>4. CASE ~RowExists
      BY <1>1, <2>5, <3>4 DEF StageCommit, rowVars
    <3> QED
      BY <3>2, <3>3, <3>4
  <2>6. CASE StageRaise(r)
    <3>1. status' \in {status, "running"} /\ status # "completed"
      BY <2>1, <2>6 DEF StageRaise, rowVars, Ended, Over
    <3> QED
      BY <1>2, <2>1, <3>1
  <2>7. CASE PersistEngineStatuses(r)
    <3>1. status' = status /\ engines' \in {engines, EnginePayload(r, "completed")}
      BY <2>7 DEF PersistEngineStatuses
    <3> QED
      BY <1>1, <1>2, <1>4, <2>1, <3>1 DEF Ended
  <2>8. CASE HandleFailure(r)
    BY <1>1, <1>3, <2>8 DEF HandleFailure, RecordFailure, rowVars
  <2>9. CASE LastResort(r)
    BY <1>6, <2>9 DEF LastResort, Active, Live, Stepping
  <2> QED
    BY <2>2, <2>3, <2>4, <2>5, <2>6, <2>7, <2>8, <2>9 DEF RunStep
<1> QED
  BY <1>5, <1>6, RunStepAlone

(* A failed job shows no engine at work and a completed job no other, under  *)
(* every fault, for any number of attempts.                                  *)
THEOREM EngineStatusesAgree == Spec => []EnginesAgree
<1>1. Init => EnginesAgree
  BY DEF Init, EnginesAgree
<1>2. TypeInv /\ SoloInv /\ SoloInv' /\ BackedInv /\ EnginesAgree /\ [Next]_vars
      => EnginesAgree'
  <2> SUFFICES ASSUME TypeInv, SoloInv, SoloInv', BackedInv, EnginesAgree, [Next]_vars
               PROVE  EnginesAgree'
    OBVIOUS
  <2>1. ASSUME UNCHANGED <<status, engines>> PROVE EnginesAgree'
    BY <2>1 DEF EnginesAgree, EngineAt
  <2>2. CASE Request
    <3>1. \/ UNCHANGED <<status, engines>>
          \/ status' \in {"queued", "absent", "running"}
          \/ status' = status /\ UNCHANGED engines
      BY <2>2 DEF Request, StartAnalysis, RetryCheck, RetryClaim, ClaimRow, DeleteJob,
                  CommitDelete, AbortDelete, ReEnrich, CommitReEnrich, rowVars
    <3> QED
      BY <2>1, <3>1 DEF EnginesAgree
  <2>3. CASE Crash
    BY <2>1, <2>3 DEF Crash, rowVars
  <2>4. CASE UNCHANGED vars
    BY <2>1, <2>4 DEF vars, rowVars
  <2> QED
    BY <2>2, <2>3, <2>4, EnginesStep DEF Next
<1> QED
  BY <1>1, <1>2, BackedTheorem, TypeCorrect, SoloTheorem, PTL DEF Spec, TypeInv

-----------------------------------------------------------------------------
(* A run that has cloned the repository, or is about to read its history,    *)
(* has the clone on disk; a launched run is planned to start at the top.     *)
CloneInv ==
    /\ \A r \in Runs : pc[r] = "launched" => at[r] \in {0, 1}
    /\ Deep => \A r \in Runs :
        Active(r) /\ at[r] # 0 =>
            /\ Stages[at[r]] = "clone" /\ pc[r] \in Over => workspace
            /\ Stages[at[r]] = "churn" /\ pc[r] \in {"begin", "check", "work"} => workspace

(* Churn follows clone, and neither is the first stage.                      *)
LEMMA CloneThenChurn ==
    /\ Stages[1] = "start"
    /\ \A i \in 1..N : Stages[i] = "churn" => i > 1 /\ Stages[i - 1] = "clone"
<1>1. \A i \in 1..N : i = 1 \/ i \in 2..N
  BY Positions
<1> QED
  BY <1>1, StagesAssumption

(* A step of a run keeps the clone where it is needed.                       *)
LEMMA CloneStep ==
    ASSUME TypeInv, TypeInv', SoloInv, CloneInv, NEW r \in Runs, RunStep(r)
    PROVE  CloneInv'
<1>1. CASE /\ pc[r] = "reraise"
           /\ pc' = [pc EXCEPT ![r] = "done"]
           /\ UNCHANGED <<created, rowVars, outputs, fileVars, at>>
  BY <1>1 DEF CloneInv, fileVars, Active, Live, Stepping, TypeInv, TypeOK
<1>2. CASE Active(r) /\ \A s \in Runs \ {r} : ~Active(s) /\ ~Active(s)'
  <2> DEFINE Here(st, p) == /\ st = "clone" /\ p \in Over => workspace
                            /\ st = "churn" /\ p \in {"begin", "check", "work"} => workspace
  <2>1. Deep /\ at[r] # 0 => Here(Stages[at[r]], pc[r])
    BY <1>2 DEF CloneInv
  <2>2. ASSUME Deep /\ Active(r)' /\ at'[r] # 0 => Here(Stages[at[r]], pc[r])' PROVE CloneInv'
    <3>1. \A s \in Runs : pc'[s] # "launched"
      BY <1>2, RunStepFrame DEF Active, Live
    <3> QED
      BY <1>2, <2>2, <3>1 DEF CloneInv
  <2>3. pc[r] \in Stepping \cup {"failing"} => at[r] \in 1..N
    BY DEF TypeInv, TypeOK, Located
  <2> USE DEF TypeInv, TypeOK, Goto, Over
  <2>4. CASE RunFullAnalysis(r)
    <3>1. /\ at'[r] = IF at[r] = 0 THEN ResumeAt ELSE at[r]
          /\ pc[r] = "launched" /\ pc'[r] \in {"refusing", "begin"} /\ workspace' = workspace
      BY <2>4 DEF RunFullAnalysis, fileVars
    <3>2. at[r] # 0 => Stages[at[r]] = "start"
      BY <3>1, CloneThenChurn DEF CloneInv
    <3>3. Deep /\ ResumeAt # 0 /\ Stages[ResumeAt] = "churn" => workspace
      BY DEF ResumeAt, Resumable
    <3> QED
      BY <2>2, <3>1, <3>2, <3>3
  <2>5. CASE PushStageProgress(r)
    BY <2>1, <2>2, <2>5 DEF PushStageProgress, fileVars
  <2>6. CASE StageCheck(r)
    <3>1. /\ pc[r] = "check" /\ at' = at /\ workspace' = workspace
          /\ pc'[r] \in {"failing", "persist", "work"}
      BY <2>6 DEF StageCheck, fileVars
    <3>2. Stages[at[r]] = "clone" => pc'[r] # "persist"
      <4>1. SUFFICES ASSUME Stages[at[r]] = "clone" PROVE pc'[r] # "persist"
        OBVIOUS
      <4>2. CASE ~RowExists
        <5>1. pc' = [pc EXCEPT ![r] = "failing"]
          BY <2>6, <4>1, <4>2 DEF StageCheck, RaisesIfGone, ReturnsIfGone
        <5> QED  BY <5>1
      <4>3. CASE RowExists
        <5>1. pc' = [pc EXCEPT ![r] = "work"]
          BY <2>6, <4>1, <4>3 DEF StageCheck
        <5> QED  BY <5>1
      <4> QED  BY <4>2, <4>3
    <3> QED
      BY <2>1, <2>2, <3>1, <3>2
  <2>7. CASE StageCommit(r)
    <3>1. /\ at' = at /\ pc'[r] \in {"failing", "persist"}
          /\ workspace' = IF Stages[at[r]] = "clone" THEN TRUE ELSE workspace
      BY <2>7 DEF StageCommit
    <3> QED
      BY <2>2, <3>1
  <2>8. CASE StageRaise(r)
    BY <2>2, <2>8 DEF StageRaise
  <2>9. CASE PersistEngineStatuses(r)
    BY <2>1, <2>2, <2>9 DEF PersistEngineStatuses, fileVars
  <2>10. CASE SaveCheckpoint(r)
    <3>1. pc[r] = "save" /\ at[r] \in 1..N /\ workspace' = workspace
      BY <2>3, <2>10 DEF SaveCheckpoint, Stepping
    <3>2. CASE at[r] < N
      <4>1. pc'[r] = "begin" /\ at'[r] = at[r] + 1
        BY <2>10, <3>1, <3>2 DEF SaveCheckpoint
      <4>2. PICK m \in 1..N : m = at[r] /\ m + 1 \in 1..N /\ (m + 1) - 1 = m
        BY <3>1, <3>2, Positions
      <4>3. Stages[m + 1] = "churn" => Stages[m] = "clone"
        BY <4>2, CloneThenChurn
      <4>4. Deep /\ Stages[at'[r]] = "churn" => workspace
        BY <2>1, <3>1, <4>1, <4>2, <4>3
      <4> QED
        BY <2>2, <3>1, <4>1, <4>4
    <3>3. CASE ~(at[r] < N)
      <4>1. pc'[r] = "cleanup" /\ at' = at
        BY <2>10, <3>3 DEF SaveCheckpoint
      <4> QED
        BY <2>1, <2>2, <3>1, <4>1
    <3> QED
      BY <3>2, <3>3
  <2>11. CASE RefuseResume(r) \/ DeleteCheckpoint(r) \/ HandleFailure(r) \/ LastResort(r)
    <3>1. pc'[r] \in {"done", "reraise"}
      BY <2>11 DEF RefuseResume, DeleteCheckpoint, HandleFailure, LastResort
    <3> QED
      BY <2>2, <3>1 DEF Active, Live, Stepping
  <2> QED
    BY <2>4, <2>5, <2>6, <2>7, <2>8, <2>9, <2>10, <2>11 DEF RunStep
<1> QED
  BY <1>1, <1>2, RunStepAlone

(* The history a deep churn reads is there, although a restart may take the  *)
(* clone and leave the checkpoint: the resume looks, and starts at the clone *)
(* or not at all.                                                            *)
THEOREM CloneIsThere == Spec => []ChurnFindsItsClone
<1>1. Init => CloneInv
  BY DEF Init, CloneInv
<1>2. TypeInv /\ TypeInv' /\ SoloInv /\ CloneInv /\ [Next]_vars => CloneInv'
  <2> SUFFICES ASSUME TypeInv, TypeInv', SoloInv, CloneInv, [Next]_vars PROVE CloneInv'
    OBVIOUS
  <2>1. ASSUME UNCHANGED <<workspace, pc, at>> PROVE CloneInv'
    BY <2>1 DEF CloneInv, Active
  <2>2. ASSUME NEW r \in Runs, NEW from \in {0, 1}, Launch(r, from), UNCHANGED workspace
        PROVE  CloneInv'
    BY <2>2, CloneThenChurn DEF Launch, CloneInv, Active, Over, TypeInv, TypeOK
  <2>3. CASE StartAnalysis
    BY <2>2, <2>3 DEF StartAnalysis, fileVars
  <2>4. ASSUME NEW c \in Retriers, RetryCheck(c) PROVE CloneInv'
    BY <2>1, <2>4 DEF RetryCheck, fileVars, runVars
  <2>5. ASSUME NEW c \in Retriers, RetryClaim(c) PROVE CloneInv'
    BY <2>1, <2>2, <2>5 DEF RetryClaim, fileVars, runVars
  <2>6. CASE DeleteJob \/ CommitDelete \/ AbortDelete \/ ReEnrich \/ CommitReEnrich
    BY <2>1, <2>6 DEF DeleteJob, CommitDelete, AbortDelete, ReEnrich, CommitReEnrich,
                      fileVars, runVars
  <2>7. CASE Crash
    BY <2>7 DEF Crash, CloneInv, Active, Live, Stepping
  <2>8. CASE UNCHANGED vars
    BY <2>1, <2>8 DEF vars, fileVars, runVars
  <2> QED
    BY <2>3, <2>4, <2>5, <2>6, <2>7, <2>8, CloneStep DEF Next, Request
<1>3. TypeInv /\ CloneInv => ChurnFindsItsClone
  BY DEF CloneInv, ChurnFindsItsClone, TypeInv, Located, Active, Live, Stepping
<1> QED
  BY <1>1, <1>2, <1>3, TypeCorrect, SoloTheorem, PTL DEF Spec, TypeInv

-----------------------------------------------------------------------------
(***************************************************************************)
(* The row, the file and the tasks implement the abstract job: every step  *)
(* of AnalysisPipeline is a step of AnalysisJob or changes nothing that    *)
(* AnalysisJob speaks of, as long as the checkpoint file can be written    *)
(* and no finished job is re-enriched.                                     *)
(***************************************************************************)

(* What AnalysisJob sees.                                                    *)
Workers   == {r \in Runs : Active(r)}
StoredSet == IF RowExists THEN outputs ELSE [i \in 1..N |-> 0]

(* Without re-enrich no such request is ever open.                           *)
NoEnrich == ~enriching

PromiseInv == TypeInv /\ SoloInv /\ StageInv /\ NoEnrich

-----------------------------------------------------------------------------
(* A run that has not stored the last stage finds the row live.              *)
LEMMA LiveRow ==
    ASSUME TypeInv, SoloInv, StageInv, NEW r \in Runs, Active(r), ~Ended(r), RowExists
    PROVE  status \in {"queued", "running"}
BY DEF TypeInv, TypeOK, Statuses, RowExists, SoloInv, FailedMeansIdle, StageInv, Whole

(* The one active run is the one worker.                                     *)
LEMMA OneWorker ==
    ASSUME SoloInv, NEW r \in Runs, Active(r)
    PROVE  Workers = {r}
BY DEF SoloInv, AtMostOnePipeline, Workers

(* With m - 1 stages stored the next one is the m-th.                        *)
LEMMA NextStored ==
    ASSUME TypeInv, RowExists, NEW m \in 1..N, Done(m - 1)
    PROVE  m \in Job!Next1st
<1>1. outputs = [j \in 1..N |-> IF j < m THEN 1 ELSE 0]
  BY Positions DEF Done
<1> QED
  BY <1>1 DEF Job!Next1st

(* Storing one more output is the abstract step, once the row is live.       *)
LEMMA StoreStep ==
    ASSUME TypeInv, SoloInv, StageInv, NEW r \in Runs, RowExists, RowExists',
           Active(r), ~Ended(r), NEW m \in 1..N, Done(m - 1),
           outputs' = [outputs EXCEPT ![m] = @ + 1], created' = created,
           Workers' = Workers,
           status' \in IF m = N THEN {"completed"} ELSE {status, "running"}
    PROVE  Job!Store(r)
<1>1. m \in Job!Next1st
  BY NextStored
<1>2. outputs' = [outputs EXCEPT ![m] = 1]
  <2>1. m \in Nat /\ outputs = [i \in 1..N |-> IF i <= m - 1 THEN 1 ELSE 0]
    BY Positions DEF Done
  <2>2. outputs[m] = 0
    BY <2>1
  <2> QED  BY <2>2
<1>3. Workers = {r} /\ status \in {"queued", "running"}
  BY OneWorker, LiveRow
<1> QED
  BY <1>1, <1>2, <1>3 DEF Job!Store, Workers

(* Nothing that AnalysisJob sees has changed.                                *)
LEMMA Stutter ==
    ASSUME UNCHANGED <<created, status, outputs>>, Workers' = Workers
    PROVE  UNCHANGED Job!jobVars
BY DEF Job!jobVars, Workers, RowExists

(* The initial states are those of AnalysisJob.                              *)
LEMMA PromiseInit == Init => Job!Init
BY DEF Init, Job!Init, Job!Nothing, Active, Live, Stepping, RowExists

(* Requests submit, retry and delete the job, or leave it alone.             *)
LEMMA PromiseRequest ==
    ASSUME PromiseInv, ~AllowReEnrich, Request
    PROVE  Job!Next \/ UNCHANGED Job!jobVars
<1> USE DEF PromiseInv
<1>1. CASE StartAnalysis
  <2>1. PICK r \in Runs : Launch(r, 1)
    BY <1>1 DEF StartAnalysis
  <2>2. /\ ~created /\ created' = TRUE /\ status = "absent" /\ status' = "queued"
        /\ outputs' = outputs /\ pc' = [pc EXCEPT ![r] = "launched"]
        /\ \A s \in Runs : pc[s] = "unused"
    BY <1>1, <2>1 DEF StartAnalysis, Launch, SoloInv, Pristine
  <2>3. Workers' = {r}
    BY <2>2 DEF Workers, Active, Live, Stepping, TypeInv, TypeOK
  <2>4. StoredSet' = StoredSet
    BY <2>2, Positions DEF StoredSet, RowExists, StageInv, Untouched, Done
  <2>5. Job!Submit(r)
    BY <2>2, <2>3, <2>4 DEF Job!Submit, Workers, StoredSet
  <2> QED
    BY <2>5 DEF Job!Next
<1>2. ASSUME NEW c \in Retriers, RetryCheck(c) PROVE UNCHANGED Job!jobVars
  BY <1>2, Stutter DEF RetryCheck, rowVars, runVars, Workers, Active
<1>3. ASSUME NEW c \in Retriers, RetryClaim(c)
      PROVE  Job!Next \/ UNCHANGED Job!jobVars
  <2>1. CASE Claimable
    <3>1. PICK r \in Runs : Launch(r, 0)
      BY <1>3, <2>1 DEF RetryClaim
    <3>2. /\ status = "failed" /\ status' = "queued" /\ UNCHANGED <<created, outputs>>
          /\ pc' = [pc EXCEPT ![r] = "launched"]
          /\ \A s \in Runs : ~Active(s)
      BY <1>3, <2>1, <3>1 DEF RetryClaim, ClaimRow, Claimable, Launch, SoloInv, FailedMeansIdle
    <3>3. Workers = {} /\ Workers' = {r}
      BY <3>2 DEF Workers, Active, Live, Stepping, TypeInv, TypeOK
    <3>4. Job!Retry(r)
      BY <3>2, <3>3 DEF Job!Retry, Workers, RowExists
    <3> QED
      BY <3>4 DEF Job!Next
  <2>2. CASE ~Claimable
    BY <1>3, <2>2, Stutter DEF RetryClaim, rowVars, runVars, Workers, Active
  <2> QED
    BY <2>1, <2>2
<1>4. CASE DeleteJob
  BY <1>4, Stutter DEF DeleteJob, rowVars, runVars, Workers, Active
<1>5. CASE CommitDelete
  <2>1. /\ status' = "absent" /\ created' = created /\ Workers' = Workers
        /\ StoredSet' = [i \in 1..N |-> 0]
    BY <1>5 DEF CommitDelete, runVars, Workers, Active, StoredSet, RowExists
  <2>2. CASE RowExists
    <3>1. Job!Delete
      BY <2>1, <2>2 DEF Job!Delete, Job!Nothing, Workers, StoredSet, RowExists
    <3> QED
      BY <3>1 DEF Job!Next
  <2>3. CASE ~RowExists
    BY <2>1, <2>3 DEF Job!jobVars, Workers, StoredSet, RowExists
  <2> QED
    BY <2>2, <2>3
<1>6. CASE AbortDelete
  BY <1>6, Stutter DEF AbortDelete, rowVars, runVars, Workers, Active
<1>7. CASE ReEnrich
  BY <1>7 DEF ReEnrich
<1>8. CASE CommitReEnrich
  BY <1>8 DEF CommitReEnrich, NoEnrich
<1> QED
  BY <1>1, <1>2, <1>3, <1>4, <1>5, <1>6, <1>7, <1>8 DEF Request

(* A run's steps report, store, fail or stop, or stay out of sight.          *)
LEMMA PromiseStep ==
    ASSUME PromiseInv, PromiseInv', NEW r \in Runs, RunStep(r)
    PROVE  Job!Next \/ UNCHANGED Job!jobVars
<1> USE DEF PromiseInv
<1>1. CASE /\ pc[r] = "reraise"
           /\ pc' = [pc EXCEPT ![r] = "done"]
           /\ UNCHANGED <<created, rowVars, outputs, fileVars, at>>
  <2>1. Workers' = Workers
    BY <1>1 DEF Workers, Active, Live, Stepping, TypeInv, TypeOK
  <2> QED
    BY <1>1, <2>1, Stutter DEF rowVars
<1>2. CASE Active(r) /\ \A s \in Runs \ {r} : ~Active(s) /\ ~Active(s)'
  <2>1. /\ Workers = {r} /\ created' = created
        /\ Active(r)' => Workers' = {r}
        /\ ~Active(r)' => Workers' = {}
    BY <1>2, OneWorker, RunStepFrame DEF Workers
  <2>2. RowExists /\ ~Ended(r) => status \in {"queued", "running"}
    BY <1>2, LiveRow
  <2>stutter. ASSUME UNCHANGED <<status, outputs>>, Active(r)'
              PROVE  UNCHANGED Job!jobVars
    BY <2>1, <2>stutter, Stutter
  <2>report. ASSUME outputs' = outputs, Active(r)', ~Ended(r),
                    status' = status \/ (RowExists /\ status' = "running")
             PROVE  Job!Next \/ UNCHANGED Job!jobVars
    <3>1. CASE status' = status
      BY <2>stutter, <2>report, <3>1
    <3>2. CASE RowExists /\ status' = "running"
      <4>1. Job!Report(r)
        BY <2>1, <2>2, <2>report, <3>2 DEF Job!Report, Workers, RowExists
      <4> QED
        BY <4>1 DEF Job!Next
    <3> QED
      BY <2>report, <3>1, <3>2
  <2>end. ASSUME outputs' = outputs, ~Active(r)', ~Ended(r),
                 status' = status \/ (RowExists /\ status' = "failed")
          PROVE  Job!Next
    <3>1. CASE status' = status
      <4>1. Job!Stop
        BY <2>1, <2>end, <3>1 DEF Job!Stop, Workers, RowExists
      <4> QED
        BY <4>1 DEF Job!Next
    <3>2. CASE RowExists /\ status' = "failed"
      <4>1. Job!Fail(r)
        BY <2>1, <2>2, <2>end, <3>2 DEF Job!Fail, Workers, RowExists
      <4> QED
        BY <4>1 DEF Job!Next
    <3> QED
      BY <2>end, <3>1, <3>2
  <2>3. pc[r] \in Stepping \cup {"failing"} => at[r] \in 1..N
    BY DEF TypeInv, TypeOK, Located
  <2> USE DEF TypeInv, TypeOK, Goto, Active, Live, Stepping, Over
  <2>6. CASE RunFullAnalysis(r)
    BY <2>6, <2>stutter DEF RunFullAnalysis, rowVars
  <2>7. CASE RefuseResume(r)
    <3>1. /\ ~Active(r)' /\ ~Ended(r) /\ outputs' = outputs
          /\ status' = status \/ (RowExists /\ status' = "failed")
      BY <2>7 DEF RefuseResume, RecordFailure, rowVars, Ended
    <3> QED
      BY <2>end, <3>1
  <2>8. CASE PushStageProgress(r)
    <3>1. /\ Active(r)' /\ ~Ended(r) /\ outputs' = outputs
          /\ status' = status \/ (RowExists /\ status' = "running")
      BY <2>8 DEF PushStageProgress, rowVars, Ended
    <3> QED
      BY <2>report, <3>1
  <2>9. CASE StageCheck(r)
    <3>1. /\ Active(r)' /\ ~Ended(r) /\ status' = status /\ at[r] \in 1..N
          /\ pc[r] = "check"
      BY <2>3, <2>9 DEF StageCheck, rowVars, Ended
    <3>2. CASE outputs' = outputs
      BY <2>stutter, <3>1, <3>2
    <3>3. CASE outputs' # outputs
      <4>1. /\ RowExists /\ Stages[at[r]] = "churn"
            /\ outputs' = [outputs EXCEPT ![at[r]] = @ + 1]
        BY <2>9, <3>3 DEF StageCheck
      <4>2. Done(at[r] - 1)
        <5>1. at[r] # 0 /\ Stored(r) = at[r] - 1
          BY <3>1, Positions DEF Stored
        <5>2. IF at[r] = 0 THEN InStep ELSE Done(Stored(r)) /\ SavedAt(r)
          BY <1>2, <4>1 DEF StageInv, Resumes
        <5> QED
          BY <5>1, <5>2
      <4>3. at[r] # N
        BY <3>1, <4>1, LastIsFinalize
      <4>4. PICK m \in 1..N : m = at[r]
        BY <3>1
      <4>5. RowExists' /\ Workers' = Workers
        BY <2>1, <3>1, <4>1 DEF RowExists
      <4>6. Job!Store(r)
        BY <1>2, <2>1, <3>1, <4>1, <4>2, <4>3, <4>4, <4>5, StoreStep
      <4> QED
        BY <4>6 DEF Job!Next
    <3> QED
      BY <3>2, <3>3
  <2>10. CASE StageCommit(r)
    <3>1. Active(r)' /\ ~Ended(r) /\ pc[r] = "work" /\ at[r] \in 1..N
      BY <2>3, <2>10 DEF StageCommit, Ended
    <3>2. CASE ~RowExists
      <4>1. status' = status /\ ~RowExists'
        BY <2>10, <3>2 DEF StageCommit, rowVars, RowExists
      <4> QED
        BY <2>1, <3>1, <3>2, <4>1 DEF Job!jobVars, Workers
    <3>3. CASE RowExists
      <4>1. /\ outputs' = [outputs EXCEPT ![at[r]] = @ + 1]
            /\ status' \in StatusAfter(Stages[at[r]])
        BY <2>10, <3>3 DEF StageCommit
      <4>2. Done(at[r] - 1)
        <5>1. at[r] # 0 /\ Stored(r) = at[r] - 1
          BY <3>1, Positions DEF Stored
        <5>2. IF at[r] = 0 THEN InStep ELSE Done(Stored(r)) /\ SavedAt(r)
          BY <1>2, <3>3 DEF StageInv, Resumes
        <5> QED
          BY <5>1, <5>2
      <4>3. status' \in IF at[r] = N THEN {"completed"} ELSE {status, "running"}
        BY <3>1, <4>1, LastIsFinalize DEF StatusAfter, KeepsStatus, Swallows
      <4>4. PICK m \in 1..N : m = at[r]
        BY <3>1
      <4>5. RowExists' /\ Workers' = Workers
        BY <2>1, <3>1, <3>3, <4>3 DEF RowExists
      <4>6. Job!Store(r)
        BY <1>2, <2>1, <3>1, <3>3, <4>1, <4>2, <4>3, <4>4, <4>5, StoreStep
      <4> QED
        BY <4>6 DEF Job!Next
    <3> QED
      BY <3>2, <3>3
  <2>11. CASE StageRaise(r)
    <3>1. /\ Active(r)' /\ ~Ended(r) /\ outputs' = outputs
          /\ status' = status \/ (RowExists /\ status' = "running")
      BY <2>11 DEF StageRaise, rowVars, Ended
    <3> QED
      BY <2>report, <3>1
  <2>12. CASE PersistEngineStatuses(r)
    BY <2>12, <2>stutter DEF PersistEngineStatuses
  <2>13. CASE SaveCheckpoint(r)
    BY <2>13, <2>stutter DEF SaveCheckpoint, rowVars
  <2>14. CASE DeleteCheckpoint(r)
    <3>1. ~Active(r)' /\ UNCHANGED <<status, outputs>>
      BY <2>14 DEF DeleteCheckpoint, rowVars
    <3>2. Job!Stop
      BY <2>1, <3>1 DEF Job!Stop, Workers, RowExists
    <3> QED
      BY <3>2 DEF Job!Next
  <2>15. CASE HandleFailure(r)
    <3>1. /\ ~Active(r)' /\ ~Ended(r) /\ outputs' = outputs
          /\ status' = status \/ (RowExists /\ status' = "failed")
      BY <2>15 DEF HandleFailure, RecordFailure, rowVars, Ended
    <3> QED
      BY <2>end, <3>1
  <2>16. CASE LastResort(r)
    BY <1>2, <2>16 DEF LastResort
  <2> QED
    BY <2>6, <2>7, <2>8, <2>9, <2>10, <2>11, <2>12, <2>13, <2>14, <2>15, <2>16 DEF RunStep
<1> QED
  BY <1>1, <1>2, RunStepAlone

(* A crash stops whoever is at work.                                         *)
LEMMA PromiseCrash ==
    ASSUME Crash PROVE Job!Next
<1>1. Workers' = {}
  BY DEF Crash, Workers, Active, Live, Stepping
<1>2. Job!Stop
  BY <1>1 DEF Crash, Job!Stop, Workers, rowVars, RowExists
<1> QED
  BY <1>2 DEF Job!Next

(* The implementation keeps what AnalysisJob promises: one attempt at a time *)
(* stores the stages in order and once, whatever crashes, racing retries and *)
(* deletes do, as long as no checkpoint write is lost.                       *)
THEOREM PromiseKept ==
    ASSUME "checkpoint" \notin Faults, ~AllowReEnrich
    PROVE  Spec => KeepsPromise
<1>1. Init => NoEnrich
  BY DEF Init, NoEnrich
<1>2. NoEnrich /\ [Next]_vars => NoEnrich'
  <2> SUFFICES ASSUME NoEnrich, [Next]_vars PROVE NoEnrich'
    OBVIOUS
  <2>1. ASSUME UNCHANGED enriching PROVE NoEnrich'
    BY <2>1 DEF NoEnrich
  <2>2. CASE Request
    BY <2>1, <2>2 DEF Request, StartAnalysis, RetryCheck, RetryClaim, DeleteJob, CommitDelete, AbortDelete, ReEnrich, CommitReEnrich, NoEnrich, reqVars
  <2>3. ASSUME NEW r \in Runs, RunStep(r) PROVE NoEnrich'
    BY <2>1, <2>3 DEF RunStep, RunFullAnalysis, RefuseResume, PushStageProgress, StageCheck, StageCommit, StageRaise, PersistEngineStatuses, SaveCheckpoint, DeleteCheckpoint, HandleFailure, LastResort, reqVars
  <2>4. CASE Crash
    BY <2>4 DEF Crash, NoEnrich
  <2>5. CASE UNCHANGED vars
    BY <2>1, <2>5 DEF vars, reqVars
  <2> QED
    BY <2>2, <2>3, <2>4, <2>5 DEF Next
<1>3. PromiseInv /\ PromiseInv' /\ [Next]_vars => [Job!Next]_(Job!jobVars)
  <2> SUFFICES ASSUME PromiseInv, PromiseInv', [Next]_vars
               PROVE  Job!Next \/ UNCHANGED Job!jobVars
    OBVIOUS
  <2>1. CASE UNCHANGED vars
    BY <2>1, Stutter DEF vars, rowVars, runVars, Workers, Active
  <2> QED
    BY <2>1, PromiseRequest, PromiseStep, PromiseCrash DEF Next
<1> QED
  BY <1>1, <1>2, <1>3, PromiseInit, StageTheorem, SoloTheorem, TypeCorrect, PTL DEF Spec, KeepsPromise, Job!Spec, PromiseInv, TypeInv

-----------------------------------------------------------------------------
(***************************************************************************)
(* Nobody sweeps up jobs without a task: neither at start-up nor later.  A *)
(* job that waits or runs therefore depends on the task behind it, and it  *)
(* has one unless the process died, the recording of a failure failed too, *)
(* or a finished job was sent back by re-enrich.                           *)
(***************************************************************************)

(* A job that reads queued or running has a task that can still end it.      *)
Attended == status \in {"queued", "running"} => \E r \in Runs : Active(r)

(* A run cleans up only at its last stage, and once past it, finds the row   *)
(* completed or gone: it leaves no live row behind.                          *)
Leaves ==
    \A r \in Runs :
        /\ pc[r] = "cleanup" => at[r] = N
        /\ Active(r) /\ Ended(r) => status \in {"completed", "absent"}

AttendedInv == NoEnrich /\ Leaves /\ Attended

(* The row and the tasks stay as they are.                                   *)
LEMMA AttendedFrame ==
    ASSUME AttendedInv, UNCHANGED <<status, pc, at, enriching>>
    PROVE  AttendedInv'
BY DEF AttendedInv, NoEnrich, Leaves, Attended, Active, Ended

(* The requests of clients keep AttendedInv.                                 *)
LEMMA AttendedRequest ==
    ASSUME ~AllowReEnrich, TypeInv, SoloInv, AttendedInv, Request
    PROVE  AttendedInv'
<1>1. CASE StartAnalysis
  <2>1. PICK r \in Runs : Launch(r, 1)
    BY <1>1 DEF StartAnalysis
  <2>2. \A s \in Runs : pc[s] = "unused"
    BY <1>1 DEF StartAnalysis, SoloInv, Pristine
  <2>3. pc' = [pc EXCEPT ![r] = "launched"] /\ enriching' = enriching
    BY <1>1, <2>1 DEF StartAnalysis, Launch, reqVars
  <2>4. pc'[r] = "launched" /\ \A s \in Runs : pc'[s] \in {"unused", "launched"}
    BY <2>2, <2>3 DEF TypeInv, TypeOK
  <2>5. Leaves'
    BY <2>4 DEF Leaves, Ended, Over
  <2>6. Attended'
    BY <2>4 DEF Attended, Active, Live
  <2> QED
    BY <2>3, <2>5, <2>6 DEF AttendedInv, NoEnrich
<1>2. ASSUME NEW c \in Retriers, RetryCheck(c) PROVE AttendedInv'
  BY <1>2, AttendedFrame DEF RetryCheck, rowVars, runVars
<1>3. ASSUME NEW c \in Retriers, RetryClaim(c) PROVE AttendedInv'
  <2>1. CASE Claimable
    <3>1. PICK r \in Runs : Launch(r, 0)
      BY <1>3, <2>1 DEF RetryClaim
    <3>2. \A s \in Runs : ~Active(s)
      BY <2>1 DEF Claimable, SoloInv, FailedMeansIdle
    <3>3. /\ pc' = [pc EXCEPT ![r] = "launched"] /\ at' = [at EXCEPT ![r] = 0]
          /\ enriching' = enriching
      BY <1>3, <3>1 DEF RetryClaim, Launch
    <3>4. pc'[r] = "launched" /\ \A s \in Runs \ {r} : pc'[s] = pc[s] /\ at'[s] = at[s]
      BY <3>3 DEF TypeInv, TypeOK
    <3>5. Leaves'
      BY <3>2, <3>4 DEF AttendedInv, Leaves, Active, Ended, Over
    <3>6. Attended'
      BY <3>4 DEF Attended, Active, Live
    <3> QED
      BY <3>3, <3>5, <3>6 DEF AttendedInv, NoEnrich
  <2>2. CASE ~Claimable
    BY <1>3, <2>2, AttendedFrame DEF RetryClaim, rowVars, runVars
  <2> QED
    BY <2>1, <2>2
<1>4. CASE CommitDelete
  <2>1. status' = "absent" /\ UNCHANGED <<pc, at, enriching>>
    BY <1>4 DEF CommitDelete, runVars
  <2> QED
    BY <2>1 DEF AttendedInv, NoEnrich, Leaves, Attended, Active, Ended
<1>5. CASE DeleteJob \/ AbortDelete
  BY <1>5, AttendedFrame DEF DeleteJob, AbortDelete, rowVars, runVars
<1>6. ~ReEnrich /\ ~CommitReEnrich
  BY DEF ReEnrich, CommitReEnrich, AttendedInv, NoEnrich
<1> QED
  BY <1>1, <1>2, <1>3, <1>4, <1>5, <1>6 DEF Request

(* The one run at work keeps AttendedInv: it gives up its row only when it   *)
(* has recorded a failure, or finds it completed or gone.                    *)
LEMMA AttendedStep ==
    ASSUME "failure_write" \notin Faults, TypeInv, TypeInv', SoloInv, AttendedInv,
           NEW r \in Runs, RunStep(r)
    PROVE  AttendedInv'
<1>1. CASE /\ pc[r] = "reraise"
           /\ pc' = [pc EXCEPT ![r] = "done"]
           /\ UNCHANGED <<created, rowVars, outputs, fileVars, at>>
  <2>1. \A s \in Runs : Active(s)' <=> Active(s)
    BY <1>1 DEF Active, Live, Stepping, TypeInv, TypeOK
  <2>2. \A s \in Runs : s # r => pc'[s] = pc[s]
    BY <1>1 DEF TypeInv, TypeOK
  <2>3. pc'[r] = "done" /\ status' = status /\ at' = at
    BY <1>1 DEF TypeInv, TypeOK, rowVars
  <2>4. enriching' = enriching
    BY RunStepRequests
  <2>5. Leaves'
    BY <2>1, <2>2, <2>3 DEF AttendedInv, Leaves, Active, Live, Stepping, Ended, Over
  <2>6. Attended'
    BY <2>1, <2>3 DEF AttendedInv, Attended
  <2> QED
    BY <2>4, <2>5, <2>6 DEF AttendedInv, NoEnrich
<1>2. CASE Active(r) /\ \A s \in Runs \ {r} : ~Active(s) /\ ~Active(s)'
  <2>1. \A s \in Runs \ {r} : pc'[s] = pc[s] /\ at'[s] = at[s]
    BY RunStepFrame
  <2>2. enriching' = enriching
    BY RunStepRequests
  <2>3. ASSUME pc'[r] = "cleanup" => at'[r] = N,
               Active(r)' /\ Ended(r)' => status' \in {"completed", "absent"},
               ~Active(r)' => status' \in {"completed", "absent", "failed"}
        PROVE  AttendedInv'
    <3>1. Leaves'
      BY <1>2, <2>1, <2>3 DEF AttendedInv, Leaves
    <3>2. Attended'
      BY <2>3 DEF Attended
    <3> QED
      BY <2>2, <3>1, <3>2 DEF AttendedInv, NoEnrich
  <2>4. /\ pc[r] = "cleanup" => at[r] = N
        /\ Ended(r) => status \in {"completed", "absent"}
    BY <1>2 DEF AttendedInv, Leaves
  <2>5. pc \in [Runs -> RunPcs] /\ at \in [Runs -> 0..N]
    BY DEF TypeInv, TypeOK
  <2>6. CASE RunFullAnalysis(r)
    <3>1. pc'[r] \in {"refusing", "begin"}
      BY <2>5, <2>6 DEF RunFullAnalysis, Goto
    <3> QED
      BY <2>3, <3>1 DEF Active, Live, Stepping, Ended, Over
  <2>7. CASE RefuseResume(r)
    <3>1. pc'[r] = "done" /\ status' \in {"failed", "absent"}
      BY <2>5, <2>7 DEF RefuseResume, RecordFailure, RowExists, Goto, rowVars
    <3> QED
      BY <2>3, <3>1 DEF Active, Live, Stepping
  <2>8. CASE PushStageProgress(r)
    <3>1. pc'[r] = "check"
      BY <2>5, <2>8 DEF PushStageProgress, Goto
    <3> QED
      BY <2>3, <3>1 DEF Active, Live, Stepping, Ended, Over
  <2>9. CASE StageCheck(r)
    <3>1. at[r] \in 1..N /\ at' = at /\ status' = status
      BY <2>5, <2>9 DEF StageCheck, TypeInv, Located, Stepping, rowVars
    <3>2. pc'[r] \in {"failing", "persist", "work"}
      BY <2>5, <2>9 DEF StageCheck, Goto
    <3>3. CASE at[r] = N /\ pc'[r] = "persist"
      <4>1. Stages[at[r]] = "finalize"
        BY <3>1, <3>3, LastIsFinalize
      <4>2. ~RowExists
        BY <2>5, <2>9, <3>3, <4>1 DEF StageCheck, Goto
      <4> QED
        BY <2>3, <3>1, <3>2, <4>2 DEF RowExists, Active, Live, Stepping
    <3>4. CASE ~(at[r] = N /\ pc'[r] = "persist")
      BY <2>3, <3>1, <3>2, <3>4 DEF Active, Live, Stepping, Ended, Over
    <3> QED
      BY <3>3, <3>4
  <2>10. CASE StageCommit(r)
    <3>1. at[r] \in 1..N /\ at' = at
      BY <2>5, <2>10 DEF StageCommit, TypeInv, Located, Stepping
    <3>2. pc'[r] \in {"failing", "persist"}
      BY <2>5, <2>10 DEF StageCommit, Goto
    <3>3. CASE at[r] = N
      <4>1. Stages[at[r]] = "finalize"
        BY <3>1, <3>3, LastIsFinalize
      <4>2. RowExists => status' \in StatusAfter("finalize")
        BY <2>10, <4>1 DEF StageCommit
      <4>3. ~RowExists => status' = status
        BY <2>10 DEF StageCommit, rowVars
      <4>4. status' \in {"completed", "absent"}
        <5>1. StatusAfter("finalize") = {"completed"}
          BY DEF StatusAfter, KeepsStatus, Swallows
        <5> QED
          BY <4>2, <4>3, <5>1 DEF RowExists
      <4> QED
        BY <2>3, <3>2, <4>4 DEF Active, Live, Stepping
    <3>4. CASE at[r] # N
      BY <2>3, <3>1, <3>2, <3>4 DEF Active, Live, Stepping, Ended
    <3> QED
      BY <3>3, <3>4
  <2>11. CASE StageRaise(r)
    <3>1. pc'[r] = "failing"
      BY <2>5, <2>11 DEF StageRaise, Goto
    <3> QED
      BY <2>3, <3>1 DEF Active, Live, Stepping, Ended, Over
  <2>12. CASE PersistEngineStatuses(r)
    <3>1. pc[r] = "persist" /\ pc'[r] = "save" /\ at' = at /\ status' = status
      BY <2>5, <2>12 DEF PersistEngineStatuses, Goto
    <3> QED
      BY <2>3, <2>4, <3>1 DEF Active, Live, Stepping, Ended, Over
  <2>13. CASE SaveCheckpoint(r)
    <3>1. pc[r] = "save" /\ status' = status
      BY <2>13 DEF SaveCheckpoint, rowVars
    <3>2. CASE at[r] < N
      <4>1. pc'[r] = "begin"
        BY <2>5, <2>13, <3>2 DEF SaveCheckpoint, Goto
      <4> QED
        BY <2>3, <4>1 DEF Active, Live, Stepping, Ended, Over
    <3>3. CASE ~(at[r] < N)
      <4>1. at[r] = N
        BY <2>5, <3>3, Positions
      <4>2. pc'[r] = "cleanup" /\ at' = at
        BY <2>5, <2>13, <3>3 DEF SaveCheckpoint, Goto
      <4> QED
        BY <2>3, <2>4, <3>1, <4>1, <4>2 DEF Active, Live, Stepping, Ended, Over
    <3> QED
      BY <3>2, <3>3
  <2>14. CASE DeleteCheckpoint(r)
    <3>1. pc[r] = "cleanup" /\ pc'[r] = "done" /\ status' = status
      BY <2>5, <2>14 DEF DeleteCheckpoint, Goto, rowVars
    <3> QED
      BY <2>3, <2>4, <3>1 DEF Active, Live, Stepping, Ended, Over
  <2>15. CASE HandleFailure(r)
    <3>1. pc'[r] = "reraise" /\ status' \in {"failed", "absent"}
      BY <2>5, <2>15 DEF HandleFailure, RecordFailure, RowExists, Goto, rowVars
    <3> QED
      BY <2>3, <3>1 DEF Active, Live, Stepping
  <2>16. ~LastResort(r)
    BY <1>2 DEF LastResort, Active, Live, Stepping
  <2> QED
    BY <2>6, <2>7, <2>8, <2>9, <2>10, <2>11, <2>12, <2>13, <2>14, <2>15, <2>16 DEF RunStep
<1> QED
  BY <1>1, <1>2, RunStepAlone

(* A job that reads queued or running has a task behind it, as long as no    *)
(* process dies, every failure can be recorded and no job is re-enriched;    *)
(* lost checkpoints, aborted deletes, racing retries and deletes included.   *)
THEOREM LiveJobHasTask ==
    ASSUME Faults \cap {"crash", "failure_write"} = {}, ~AllowReEnrich
    PROVE  Spec => []Attended
<1>1. Init => AttendedInv
  BY DEF Init, AttendedInv, NoEnrich, Leaves, Attended, Active, Live, Stepping
<1>2. TypeInv /\ TypeInv' /\ SoloInv /\ AttendedInv /\ [Next]_vars => AttendedInv'
  <2> SUFFICES ASSUME TypeInv, TypeInv', SoloInv, AttendedInv, [Next]_vars
               PROVE  AttendedInv'
    OBVIOUS
  <2>1. CASE UNCHANGED vars
    BY <2>1, AttendedFrame DEF vars, rowVars, runVars, reqVars
  <2>2. ~Crash
    BY DEF Crash
  <2> QED
    BY <2>1, <2>2, AttendedRequest, AttendedStep DEF Next
<1>3. AttendedInv => Attended
  BY DEF AttendedInv
<1> QED
  BY <1>1, <1>2, <1>3, TypeCorrect, SoloTheorem, PTL DEF Spec, TypeInv
=============================================================================
