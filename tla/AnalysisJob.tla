---------------------------- MODULE AnalysisJob ----------------------------
(***************************************************************************)
(* What an analysis job promises its clients, with no row, no checkpoint   *)
(* file and no task in sight: one attempt at a time works on the job, it   *)
(* stores the stages' outputs in order and each of them once over all its  *)
(* attempts, a failed job is idle until it is retried, and a completed job *)
(* has everything.                                                         *)
(***************************************************************************)
EXTENDS Naturals

CONSTANTS
    N,      \* how many stages an analysis has
    Runs    \* the attempts there may be

VARIABLES
    created,    \* the job was submitted
    phase,      \* what GET /jobs/{id} shows
    workers,    \* the attempts at work
    stored      \* how often each stage's output was stored

jobVars == <<created, phase, workers, stored>>

Nothing == [i \in 1..N |-> 0]
Next1st == {i \in 1..N : stored = [j \in 1..N |-> IF j < i THEN 1 ELSE 0]}

Init ==
    /\ created = FALSE
    /\ phase = "absent"
    /\ workers = {}
    /\ stored = Nothing

(* A job is submitted once, and its first attempt starts with it.            *)
Submit(r) ==
    /\ ~created
    /\ created' = TRUE
    /\ phase' = "queued"
    /\ workers' = {r}
    /\ UNCHANGED stored

(* Only a failed job can be tried again, and then nobody is at work on it.   *)
Retry(r) ==
    /\ phase = "failed"
    /\ workers = {}
    /\ phase' = "queued"
    /\ workers' = {r}
    /\ UNCHANGED <<created, stored>>

(* The attempt shows a sign of life.                                         *)
Report(r) ==
    /\ workers = {r}
    /\ phase \in {"queued", "running"}
    /\ phase' = "running"
    /\ UNCHANGED <<created, workers, stored>>

(* The attempt stores the next stage, and the last stage completes the job.  *)
Store(r) ==
    /\ workers = {r}
    /\ phase \in {"queued", "running"}
    /\ \E i \in Next1st :
         /\ stored' = [stored EXCEPT ![i] = 1]
         /\ phase' \in IF i = N THEN {"completed"} ELSE {phase, "running"}
    /\ UNCHANGED <<created, workers>>

(* The attempt ends by recording its failure.                                *)
Fail(r) ==
    /\ workers = {r}
    /\ phase \in {"queued", "running"}
    /\ phase' = "failed"
    /\ workers' = {}
    /\ UNCHANGED <<created, stored>>

(* The attempt ends, or dies, without a word.                                *)
Stop ==
    /\ workers' = {}
    /\ UNCHANGED <<created, phase, stored>>

(* The job is deleted, at any time; an attempt may learn of it later.        *)
Delete ==
    /\ phase # "absent"
    /\ phase' = "absent"
    /\ stored' = Nothing
    /\ UNCHANGED <<created, workers>>

Next ==
    \/ \E r \in Runs : Submit(r) \/ Retry(r) \/ Report(r) \/ Store(r) \/ Fail(r)
    \/ Stop
    \/ Delete

Spec == Init /\ [][Next]_jobVars
=============================================================================
