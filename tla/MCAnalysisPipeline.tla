------------------------ MODULE MCAnalysisPipeline -------------------------
(* Instances of AnalysisPipeline for TLC.                                    *)
EXTENDS AnalysisPipeline, TLC

(* At least one stage of each kind: no look at the row, a look that raises,  *)
(* a look that returns, a skipped churn, rows with foreign keys, progress    *)
(* pushed from inside, errors swallowed, and the end.                        *)
EightStages == <<"start", "clone", "churn", "parse", "save_findings",
                 "dead_code", "simulation", "finalize">>

(* A deep analysis, whose churn needs the clone on disk.                     *)
ChurnStages == <<"start", "clone", "churn", "finalize">>

AllStages == <<"start", "clone", "churn", "parse", "rules", "save_findings",
               "dead_code", "errors", "reliability", "maintainability",
               "devops", "perf", "simulation", "score", "guide_gen",
               "ai_enrich", "finalize">>

(* Tasks and clients are interchangeable; no liveness is checked with this.  *)
Symmetry == Permutations(Runs) \cup Permutations(Retriers)
=============================================================================
