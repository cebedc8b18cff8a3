--------------------------- MODULE MCProjectTasks ---------------------------
(* Instances of ProjectTasks for TLC.                                        *)
EXTENDS ProjectTasks, TLC

(* Tasks and requests are interchangeable; no liveness is checked with this. *)
Symmetry == Permutations(Tasks) \cup Permutations(Requests)
=============================================================================
