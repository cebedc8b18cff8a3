---------------------------- MODULE ProjectTasks ----------------------------
(***************************************************************************)
(* A project, its tasks and the dependencies between them (services/core,  *)
(* apps/projects).  No view opens a transaction and no service locks a     *)
(* row, so a request is the sequence of its statements; only the two       *)
(* deletions write more than one row in a transaction.                     *)
(*                                                                         *)
(* Titles, statuses, positions, assignees, links to repositories and to    *)
(* knowledge spaces, and the kind of a dependency are left out.            *)
(***************************************************************************)
EXTENDS Naturals, FiniteSets

CONSTANTS
    Tasks,     \* identities of tasks
    Project,   \* the project
    NoTask,    \* the parent of a task that has none
    Requests,  \* the requests that can be in progress at a time
    MaxDepth   \* MAX_DEPENDENCY_DEPTH

ASSUME ProjectTasksAssumption ==
    /\ Project \notin Tasks /\ NoTask \notin Tasks /\ NoTask # Project
    /\ IsFiniteSet(Tasks) /\ MaxDepth \in Nat

VARIABLES
    created,  \* tasks that have a row
    parent,   \* parent_task of each
    deleted,  \* rows whose deleted_at is set: tasks, or the project
    links,    \* TaskLink rows, as pairs of a source and a target
    req,      \* per request, its next statement and what it has read
    alone     \* history: no two requests have been in progress at once

vars == <<created, parent, deleted, links, req, alone>>

-----------------------------------------------------------------------------
Things    == Tasks \cup {Project}
Idle      == [pc |-> "idle"]
Live(t)   == t \in created \ deleted

Subtasks(t)   == {s \in created : parent[s] = t}
Successors(S) == {t \in Tasks : \E s \in S : <<s, t>> \in links}

(* Variants of the definitions below, each with a mistake the code avoids.   *)
StopsAhead(t) ==
    LET near[n \in Nat] == IF n = 0 THEN {t} ELSE near[n - 1] \cup Successors(near[n - 1])
    IN IF MaxDepth = 0 THEN {} ELSE near[MaxDepth - 1]
LeavesSubtasks(t)  == {t}
DeletesProject     == {Project}
SavesEveryField(x) == deleted \ {x}
KeepsReads(q)      == req' = [req EXCEPT ![q].pc = "idle"]

(* _has_circular_dependency goes breadth first from the target, over links   *)
(* of any kind, and visits what is at most MaxDepth links away.              *)
Visited(t) ==
    LET near[n \in Nat] == IF n = 0 THEN {t} ELSE near[n - 1] \cup Successors(near[n - 1])
    IN near[MaxDepth]

(* What the deletions mark.  A task takes its sub-tasks along, not theirs.   *)
DeletedWith(t)  == {t} \cup Subtasks(t)
WithProject     == {Project} \cup created

(* update_status and archive save their own fields only.                     *)
AfterMove(x) == deleted

-----------------------------------------------------------------------------
Begin(q, state) ==
    /\ req[q] = Idle
    /\ req' = [req EXCEPT ![q] = state]
    /\ alone' = (alone /\ \A p \in Requests : req[p] = Idle)
    /\ UNCHANGED <<created, parent, deleted, links>>

Continue(q, label) == req' = [req EXCEPT ![q].pc = label]
End(q)             == req' = [req EXCEPT ![q] = Idle]

(* The request goes on if what it reads allows it, or is refused.            *)
Check(q, test, label) ==
    /\ IF test THEN Continue(q, label) ELSE End(q)
    /\ UNCHANGED <<created, parent, deleted, links, alone>>

Init ==
    /\ created = {} /\ deleted = {} /\ links = {}
    /\ parent = [t \in Tasks |-> NoTask]
    /\ req = [q \in Requests |-> Idle]
    /\ alone = TRUE

-----------------------------------------------------------------------------
(* POST /tasks: the project is fetched, the parent, if one is named, looked  *)
(* for among its live tasks, and the row inserted.  Bound: an identity must  *)
(* be left for it.                                                           *)
Creating == {q \in Requests : req[q].pc \in {"createCheck", "createInsert"}}

CreateFetch(q, p) ==
    /\ Cardinality(created) + Cardinality(Creating) < Cardinality(Tasks)
    /\ Project \notin deleted
    /\ Begin(q, [pc |-> "createCheck", task |-> p])

CreateCheck(q) ==
    /\ req[q].pc = "createCheck"
    /\ Check(q, req[q].task = NoTask \/ Live(req[q].task), "createInsert")

CreateInsert(q) ==
    /\ req[q].pc = "createInsert"
    /\ \E t \in Tasks \ created :
         /\ created' = created \cup {t}
         /\ parent' = [parent EXCEPT ![t] = req[q].task]
    /\ End(q)
    /\ UNCHANGED <<deleted, links, alone>>

(* PATCH of a task or the project: fetched alive, saved with every field,    *)
(* deleted_at as it was read included.                                       *)
EditFetch(q, x) ==
    /\ x \in (created \cup {Project}) \ deleted
    /\ Begin(q, [pc |-> "editSave", task |-> x])

EditSave(q) ==
    /\ req[q].pc = "editSave"
    /\ deleted' = deleted \ {req[q].task}
    /\ End(q)
    /\ UNCHANGED <<created, parent, links, alone>>

(* PATCH of a task's status, and archive of the project.                     *)
MoveFetch(q, x) ==
    /\ x \in (created \cup {Project}) \ deleted
    /\ Begin(q, [pc |-> "moveSave", task |-> x])

MoveSave(q) ==
    /\ req[q].pc = "moveSave"
    /\ deleted' = AfterMove(req[q].task)
    /\ End(q)
    /\ UNCHANGED <<created, parent, links, alone>>

(* DELETE of a task or the project, in one transaction after the fetch.      *)
DeleteFetch(q, x) ==
    /\ x \in (created \cup {Project}) \ deleted
    /\ Begin(q, [pc |-> "deleteSave", task |-> x])

DeleteSave(q) ==
    /\ req[q].pc = "deleteSave"
    /\ deleted' = deleted \cup IF req[q].task = Project THEN WithProject
                                                        ELSE DeletedWith(req[q].task)
    /\ End(q)
    /\ UNCHANGED <<created, parent, links, alone>>

(* POST /dependencies: the source is fetched, the target looked for, then    *)
(* the way back from it, and the row inserted unless it is there already.    *)
LinkFetch(q, s, t) ==
    Live(s) /\ Begin(q, [pc |-> "linkTarget", task |-> s, target |-> t])

LinkTarget(q) ==
    req[q].pc = "linkTarget" /\ Check(q, Live(req[q].target), "linkCheck")

LinkCheck(q) ==
    /\ req[q].pc = "linkCheck"
    /\ Check(q, /\ req[q].task # req[q].target
                /\ req[q].task \notin Visited(req[q].target), "linkInsert")

LinkInsert(q) ==
    /\ req[q].pc = "linkInsert"
    /\ links' = links \cup {<<req[q].task, req[q].target>>}
    /\ End(q)
    /\ UNCHANGED <<created, parent, deleted, alone>>

(* DELETE of a dependency: the source is fetched, the row deleted.           *)
UnlinkFetch(q, s, t) ==
    /\ Live(s) /\ <<s, t>> \in links
    /\ Begin(q, [pc |-> "unlink", task |-> s, target |-> t])

Unlink(q) ==
    /\ req[q].pc = "unlink"
    /\ links' = links \ {<<req[q].task, req[q].target>>}
    /\ End(q)
    /\ UNCHANGED <<created, parent, deleted, alone>>

-----------------------------------------------------------------------------
Next ==
    \E q \in Requests :
        \/ \E p \in Tasks \cup {NoTask} : CreateFetch(q, p)
        \/ \E x \in Things : EditFetch(q, x) \/ MoveFetch(q, x) \/ DeleteFetch(q, x)
        \/ \E s, t \in Tasks : LinkFetch(q, s, t) \/ UnlinkFetch(q, s, t)
        \/ CreateCheck(q) \/ CreateInsert(q) \/ EditSave(q) \/ MoveSave(q) \/ DeleteSave(q)
        \/ LinkTarget(q) \/ LinkCheck(q) \/ LinkInsert(q) \/ Unlink(q)

Spec == Init /\ [][Next]_vars

-----------------------------------------------------------------------------
(* Requests and rows are of their kinds, and a sub-task has a row above it.  *)
TypeOK ==
    /\ created \subseteq Tasks
    /\ parent \in [Tasks -> created \cup {NoTask}]
    /\ deleted \subseteq created \cup {Project}
    /\ links \subseteq created \X created
    /\ \A q \in Requests :
          \/ req[q] = Idle
          \/ req[q] \in [pc : {"createCheck", "createInsert"}, task : Tasks \cup {NoTask}]
          \/ req[q] \in [pc : {"editSave", "moveSave", "deleteSave"}, task : Things]
          \/ req[q] \in [pc : {"linkTarget", "linkCheck", "linkInsert", "unlink"},
                         task : Tasks, target : Tasks]
    /\ alone \in BOOLEAN

(* As long as requests do not overlap, no task depends on itself over at     *)
(* most MaxDepth + 1 dependencies, whatever is added, removed and deleted in *)
(* what order: the search of add_dependency reaches that far, no farther.    *)
NoShortCycle ==
    alone => \A n \in 1 .. MaxDepth + 1 :
        ~ \E walk \in [0 .. n -> Tasks] :
             walk[0] = walk[n] /\ \A i \in 1 .. n : <<walk[i - 1], walk[i]>> \in links

(* As long as requests do not overlap, a deleted project has no live task.   *)
DeadProjectIsEmpty == alone /\ Project \in deleted => created \subseteq deleted

(* As long as requests do not overlap, a task that outlives its parent is a  *)
(* sub-task's sub-task, whose parent went with the parent's own: delete      *)
(* reaches one level down.                                                   *)
OnlyGrandchildrenOutlive ==
    alone => \A t \in created \ deleted :
        parent[t] \in deleted => parent[parent[t]] \in deleted

(* However requests overlap, a deleted task or project comes back only by an *)
(* edit of that very row, which had read it before it was deleted.           *)
OnlyEditsRevive ==
    [][\A x \in deleted \ deleted' :
          \E q \in Requests : req[q].pc = "editSave" /\ req[q].task = x]_vars

=============================================================================
