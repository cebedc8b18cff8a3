# Kraivor: specifications, model checks and proofs

Kraivor is a workspace for engineering teams: repositories are connected, analysed by a pipeline of
engines, discussed in chat rooms and enriched by language models. This directory holds TLA+
specifications of its services, the TLC configurations that check them on small instances, and
theorems about them checked by TLAPS. Paths are relative to the repository; `A/` abbreviates
`src/services/analysis/src/analysis/`, `C/` `src/services/core/apps/`, `I/` `src/services/ai/src/ai/`,
`W/` `src/apps/web/src/lib/`.

Eight parts are specified: the life of an **analysis job**, who belongs to a **workspace**, the **chat rooms**
that follow from it, **presence**, the **notifications** of a new task, the **tasks** of a project, the **session** of
a browser, and the **turns** of an AI conversation. Every safety property that a passing
run checks is also proved as a theorem, some of those on the analysis under a hypothesis that section 4 names.

## 1. Inventory

| Component | State it keeps | Operations that change it | What is hard | What makes it correct |
|---|---|---|---|---|
| **Analysis pipeline** (`A/application/tasks/pipeline.py`, `A/application/analysis/handler.py`, `A/api/routers/jobs.py`, `A/application/tasks/checkpoint.py`) | `analysis_jobs` row and its child rows; one checkpoint file per job; the clone; one asyncio task per attempt | start, retry, delete, re-enrich; seventeen stages; recording a failure | retries race each other and a failing run; deletes race the run; every stage is several transactions; files and rows are not written together; crash between any two awaits | one pipeline per job; nothing finished runs twice or is skipped; a job settles |
| **Upload and file analysis** (`A/api/routers/files.py`, `A/application/tasks/scanner.py`) | extracted tree, `file_analyses` | upload, one insert per file | shares the task wrapper with the pipeline | the job launched is the job created |
| **Engines** (`A/infrastructure/scorer.py`, rules, parsers, detectors) | none | pure functions over source text | arithmetic at zero | scores stay in range |
| **Workspaces** (`C/workspaces/`) | members, roles, invitations, plan limits | create, invite, accept, revoke, change role, remove, leave, delete (`transfer_ownership`, which messages mention, does not exist; `add_member` has no caller) | limits and roles are read before the write they justify; two transactions lock the same tables in opposite orders | an owner always exists; who joins was invited; limits hold; no deadlock |
| **Chat rooms** (`C/chat/services/`, `src/services/core/core/signals.py`) | rooms, memberships, `member_count` | provision, join, free, archive; find or create a direct room | signals fire for some writes and not for others; get-then-create; read-modify-write of a counter | the team room follows the members; its count is right; two users have one conversation |
| **Presence** (`C/chat/consumers.py`, `W/ws/presence-socket.ts`, `W/stores/presence-store.ts`) | one expiring counter per user in Redis; the page's view | connect, heartbeat, disconnect, roster, broadcast | several tabs at several worker processes, which die; joining while others come and go | online while a tab is open, forgotten when none is, not seen by others when gone |
| **Notifications** (`C/notifications/`, `C/projects/events.py`) | notification rows; jobs in Celery; events and offsets in Kafka | queue, publish, consume, store, retry, push; read | two paths tell the same news, and each repeats or loses it on a fault | nobody is forgotten, nobody is flooded |
| **Projects and tasks** (`C/projects/`) | projects, tasks and sub-tasks, dependencies, positions | create, edit, move, delete, link, unlink, archive | no transaction and no lock around check and write; every column saved as read | no circular dependency; no orphans; what is deleted stays so |
| **Repositories** (`C/repositories/`) | connections, default flags | connect, disconnect, sync | one look-up and one insert under a unique index | one connection per repository |
| **Community, knowledge, search** (`C/community`, `C/knowledge`, `C/search`) | posts, documents, indices | create, read, update, delete | little interaction | - |
| **Auth** (`src/services/auth/apps/authentication/`) | refresh tokens, sessions, failure counters, OTP records, OAuth states (Redis and PostgreSQL) | sign in, rotate, revoke, lock, verify | rotation reads, creates, then revokes, with no lock; a reuse ends every session | what runs side by side costs no more sessions than it must, and nobody's on another device by itself |
| **Web client** (`src/apps/web/`) | access token, queue of refused calls, presence store | call, refresh, reload, sign out, render, poll | calls of two HTTP clients refused side by side; a load of the page with a refresh in flight; lost answers | every call ends |
| **AI service** (`src/services/ai/src/ai/`) | admission counters, conversations with a cached history, model health | admit, release, load, answer, store, forget, fail over | counters with many exits; cache and rows are not written together | no slot is lost; the next turn sees all earlier ones |
| **Infrastructure** (`src/infra/`) | configuration | - | - | - |

How they interact: the web client calls the services over HTTP and WebSockets. Within the core service
the member rows of a workspace drive the team room through Django signals, which run in the transaction
of the row; a task tells the members through Celery, and a second time through Kafka. The analysis service
calls the AI service inside two stages (`guide_gen`, `ai_enrich`) and publishes best-effort events (the producer
never raises). No two services share a table, so each is specified on its own; `ChatRooms` is where
two apps of one service meet.

The hazards found, 38 of them with the line where each bites, are listed in `PROJECT.json` under `hazards`, each
with the properties that would catch it or a note why none does.

## 2. The modules

| Module | What it is |
|---|---|
| `AnalysisPipeline` | one job: row, checkpoint, clone, tasks and requests |
| `AnalysisJob` | what a job promises its clients: the abstract specification that `AnalysisPipeline` implements |
| `WorkspaceMembership` | one workspace: member and invitation rows, and the requests on them |
| `MemberRegister` | what a workspace promises about its members: the abstract specification that `WorkspaceMembership` implements |
| `ChatRooms` | the team room and the direct rooms of one workspace, driven by its member rows |
| `Presence` | one user with several tabs, one viewer, the worker processes between them |
| `Notifications` | one new task: the request, the topic, its consumer, the queue and its workers |
| `ProjectTasks` | one project: tasks, sub-tasks, dependencies, and the requests on them |
| `SessionRotation` | one browser, the token rows of its user, and another device of the same user |
| `ChatTurns` | one AI process and one conversation: admission, cache, rows |
| `MC...` | for each of these, the instance and the symmetry for TLC |
| `...Proofs` | the theorems about each of these modules; `AnalysisJob` and `MemberRegister` are shown to be implemented in those of their implementations |

The properties stand at the end of each module. The mistaken variants of definitions which show that the
properties can fail stand next to the definitions they replace and are listed in `PROJECT.json`.

Common to the modules of the core and auth services: PostgreSQL runs at READ COMMITTED, views run in threads,
and no request is a transaction by itself (`ATOMIC_REQUESTS` is off). So an action is one statement, other
requests come between any two, the writes of a transaction are in its last action, and the locks it
holds until then are guards of the others. A request that waits for its first lock counts as not begun.
In the asyncio services (analysis, AI, the WebSocket consumers) an action is what the code does between
two awaits.

### AnalysisPipeline and the code

Jobs share no state: every statement and every file is keyed by the job's UUID. So one job with every
request that can reach it is the whole component. **State.** `status`, `error`, `completed` and `engines`
are columns of `analysis_jobs`. All the statuses a stage may set (`cloning`, `parsing`, ...) are one
value, `"running"`: no code branches on which of them it is, only on `failed` and on the row being
there. `error` is the stage named by the message. `outputs[i]` counts how often the transaction of stage
`i` finished (its rows were stored). `checkpoint` is the index of the stage in the checkpoint file,
`workspace` says that the clone is on disk. Per attempt, `pc` is where its task is, `at` its stage
(0 for a resume that has not planned yet), `cmdId` whether its `cmd_dict` still holds `"job_id"`.
`retry`, `deleting` and `enriching` are requests in flight.

| Action | Code |
|---|---|
| `StartAnalysis` | `start_analysis`: insert, commit, `create_task` (no await between the last two, so the launch is in the action) |
| `RetryCheck`, `RetryClaim` | the two halves of `retry_analysis`: reading row and checkpoint; `queue_if_failed` and launch |
| `DeleteJob`, `CommitDelete`, `AbortDelete` | `handle_delete_job` (deletes executed, row locked, checkpoint unlinked), then commit or rollback in `UnitOfWork.__aexit__` |
| `ReEnrich`, `CommitReEnrich` | `handle_re_enrich`: reading the row, then the end of `handle_stage_ai_enrich` |
| `RunFullAnalysis`, `RefuseResume` | entry of `run_full_analysis`: popping `job_id`, planning the resume, refusing one whose position is gone |
| `PushStageProgress`, `StageCheck`, `StageCommit`, `StageRaise`, `PersistEngineStatuses`, `SaveCheckpoint` | one turn of the loop in `_run_pipeline` |
| `DeleteCheckpoint`, `HandleFailure`, `LastResort` | the end of a run: `delete_checkpoint`; `_handle_failure_async`; the `except` of `_run_analysis_safe` |
| `Crash` | the process or its container stops. A cancelled task is covered too: `CancelledError` is no `Exception`, so no handler of the code runs |

The seventeen stages differ in ways that matter here, so the module classifies them by name: which
raise, which return and which go on when the row is gone; which insert rows with a foreign key to it;
which leave the status alone; which swallow errors; which push progress of their own.

**Locks.** A delete holds the row's lock from its first statement until it commits or rolls back, so
statements on the row wait (`Unlocked`). A stage's own lock, held from its `UPDATE` to its commit, is the
delete waiting until `StageCommit`. With the row gone an insert fails on its foreign key and an `UPDATE`
matches nothing. `score_history` has no foreign key (see the migrations), which is why `finalize` can
store a row for a deleted job.

**Faults.** `Faults` names what the environment may do: `crash`; `checkpoint` (a write or unlink of the
file fails, which the code logs and ignores); `failure_write` (the transaction that records a failure
fails); `delete_abort`. Progress writes are best effort in the code and may always be lost. A crash may
lose the checkpoint and the clone independently: the checkpoint directory and the tree of a `local://`
repository are different places.

**Abstracted.** Percentages and messages, the content of findings and reports, dismissing a finding, events.
One delete and one re-enrich are open at a time; a second delete waits for the first one's lock and finds
nothing. A commit is acknowledged if and only if it happened. An unknown stage in a checkpoint cannot
occur, as the file is written from the same list that reads it. The last resort's own write failing is
left out: that write never happens, because `run_full_analysis` has popped the `job_id` it looks for.

**AnalysisJob** is the client's view: a job is submitted once, one attempt at a time works on it, an attempt
stores the next stage or fails or stops, only a failed and idle job is retried, a delete may come at any
time. The refinement mapping of `AnalysisPipeline` reads `phase` from the row, `workers` from the tasks that can
still have an effect, and `stored` from the rows, as long as the job is there.

### WorkspaceMembership and the code

Workspaces share no rows, so one workspace with every request on it is the component
(`C/workspaces/services/`, `models.py`, `selectors/`, `views/`). **State.** `members` and `role` are
`workspace_members`: a soft-deleted row keeps its role, and a user never invited has `NoRole`. `issued`, `to`,
`offered`, `accepted`, `revoked`, `expired` are `workspace_invitations`; an address is a user. `deleted` is the
workspace's `deleted_at`. `owner_id` never changes. `req` holds, per request in progress, the statement it is
at and what it has read.

| Actions | Code |
|---|---|
| `InviteFetch`, `InviteAdmit`, `InviteUnique`, `InviteLimit`, `InviteInsert` | `POST members`: `get_workspace_for_user`, then `create_invitation`. `workspace.members.count()` is the length of the list prefetched with the workspace, while `get_member` and the count of invitations are queries of their own |
| `RoleFetch`, `RoleActor`, `RoleTarget`, `RoleSave` | `update_member_role`, which runs in no transaction |
| `RemoveFetch`, `RemoveTarget`, `RemoveActor`, `RemoveSave` | `remove_member`, by an admin or by the member who leaves |
| `RevokeFetch`, `RevokeRead`, `RevokeActor`, `RevokeSave` | the view reads the invitation, `revoke_invitation` checks and soft-deletes it |
| `AcceptLock`, `AcceptRead`, `AcceptCommit` | `accept_invitation`: `select_for_update` with `select_related` locks the invitation and the workspace row; a member row is then created or revived |
| `DeleteFetch`, `DeleteMembers`, `DeleteCommit` | `delete_workspace`: the bulk update of the active members, then the workspace row |
| `Abort`, `Expire` | a failed request rolls back; the 48 hours pass |

**Locks.** `WorkspaceLocked` (an acceptance) keeps off other acceptances, the update of the workspace row, and
inserts, whose foreign key needs a share of that row. `InviteLocked` keeps off a revocation. `RowLocked` (the bulk
update of a deletion) keeps off saves of a member row.

**Abstracted.** Names, settings, e-mails, events and notifications. The plan does not change. An unlimited plan
is one with `MaxMembers` above the number of users and invitations. The size of `Invites` bounds how many
invitations are sent.

**MemberRegister** is what a reader of the member list may rely on: an offer is made once and is gone when it is
taken up or withdrawn; who comes in takes up an offer made to them and gets its role; only members other than the
owner are given roles or leave; closing takes the owner out, and nobody comes in after it. The refinement mapping
reads `rank` from the rows that are not soft-deleted and `offers` from the invitations neither accepted nor revoked.
An expired one counts as an offer, for an acceptance that has begun in time may still end. What the register allows
and a reader might not expect is what the code does: a closed workspace may keep a member who joined between the two
updates, lose one later, and still be sent invitations. Statements that come too late (a role for a member who has
left, a revocation of an invitation that was accepted) are no step of the register.

### ChatRooms and the code

What members of a workspace get without asking twice: the team room, made and filled by the signals
of `src/services/core/core/signals.py` through `C/chat/services/provisioning.py`, and direct rooms
(`C/chat/services/room.py`, `C/chat/views/rooms.py`). **State.** `row` is a user's member row: none, active or
soft-deleted; `seat` the row in the team room, `count` its `member_count`, `teamOpen` that it is not
soft-deleted; `pair` and `closed` are the direct rooms. `hasLeft` remembers who was ever removed. A request's
`rows` are the member rows it has locked, `todo` those it has still to lock.

| Actions | Code |
|---|---|
| `AcceptLock`, `AcceptAgain`, `AcceptRevive`, `AcceptCreate`, `AcceptCommit` | `accept_invitation` with the signal its save fires: only a created row reaches `add_to_team_group`, which reads the room and then saves seat and count |
| `Remove` | `remove_member`: a soft delete, which is a save and so never reaches `remove_from_team_group` |
| `DeleteFetch`, `DeleteRow`, `DeleteRowsDone`, `DeleteCommit` | `delete_workspace`: the bulk update locks row after row in any order; the signal of the workspace archives the room and frees its seats |
| `DmCheck`, `DmLock`, `DmExists`, `DmMissing`, `DmCreate` | `DMCreateView` checks both members, `get_or_create_dm_room` locks their rows in order of `user_id`, looks, creates |
| `Archive`, `Abort` | `archive_room`; PostgreSQL ending one of two transactions that wait for each other |

What an acceptance, a removal or a deletion checks first is in `WorkspaceMembership`; here any of them may come,
and two acceptances still exclude each other by the workspace row. **Abstracted.** Messages and sequence
numbers, channels, roles, invitations to rooms. The v2 WebSocket consumers are left out: they await repository
functions that are synchronous, so what they do is an error and not a behaviour to specify.

### Presence and the code

`PresenceConsumer` counts a user's sockets under one Redis key. **State.** `key` (is it there, its value, the
intervals of 30 seconds left to it), per tab where its consumer is and on which worker process, the viewer's
consumer, the broadcasts on their way to the viewer (`wire`) and what the page shows (`view`).
`silent`, `overtaken` and `cut` are history: the user went without a broadcast since the viewer's roster (the key
expired, or a worker died whose tabs had no key); a DELETE took the count of a tab that is still here; a worker died
between two commands.

| Actions | Code |
|---|---|
| `Count`, `Last`, `Open`, `Announce` | `connect`: INCR; EXPIRE; accept; the broadcast of a first connection |
| `Heartbeat`, `Tick` | `receive`; the 30 seconds of the page's timer |
| `Discount`, `Delete`, `Leave` | `disconnect`: DECR; DELETE at zero; the broadcast |
| `Join`, `Roster`, `Receive`, `Quit` | the viewer: `group_add`, the roster it is sent, the broadcasts its store applies |
| `Crash` | a worker process dies with its sockets; no `disconnect` runs |

The Redis client is synchronous, so within a process nothing comes between two commands without an await
(`Busy`); the sockets of another process may come between any two, and the Dockerfile starts two processes
(`WEB_CONCURRENCY=2`). **Assumed.** The channel layer keeps the order of broadcasts; an open tab beats once per interval;
Redis answers. **Abstracted.** Reconnection and its back-off (a reconnecting tab is a tab that opens),
`sweep_stale_presence` (it scans keys `presence:user:*`, of which there are none).

### Notifications and the code

One call of `TaskService.create` and all that follows. **State.** `core` is the request, `log` the topic,
`consumer` the position of `consume_events` (next offset, committed offset, the event in hand), `queue` the bag of
Celery jobs no worker has, `worker` the jobs in hand, `rows` how many notifications each member has per event.

| Actions | Code |
|---|---|
| `Create`, `PublishCreated`, `PublishAssigned`, `Fanout`, `Assign` | the request: insert, the two events on commit, one job per member but the reporter, one for the assignee |
| `Poll`, `AutoCommit`, `Dispatch`, `Handled` | `consume_events`: the stored offset may be committed before or after the event is handled |
| `Take`, `Store`, `StoreFails`, `Push` | `dispatch_notification`, acknowledged late: insert, retry of a failed insert, broadcasts and push that only log their failure |
| `CoreDies`, `ConsumerDies`, `ConsumerRestarts`, `WorkerDies` | the processes; the consumer starts again at the committed offset; a dead worker's job is delivered again, or lost when only a child of its pool is killed (`acks_late` without `reject_on_worker_lost`) |

**Faults** (each counts, and `MaxFaults` bounds them): a refused publish, a refused job, a failed insert, a death.
**Abstracted.** The other events, which take the same two paths; reading, muting and deleting; the push itself.

### ProjectTasks and the code

A project, its tasks and their dependencies (`C/projects/services/`, `views/`). No view opens a transaction and
no service locks a row. **State.** `created`, `parent`, `deleted` (tasks, or the project), `links`; per request its
next statement and what it has read; `alone`, history: no two requests have been in progress at once.

| Actions | Code |
|---|---|
| `CreateFetch`, `CreateCheck`, `CreateInsert` | `POST tasks`: the project, the serializer's look for the parent, the insert |
| `EditFetch`, `EditSave` | `PATCH` of a task or project: `save()` of all columns, `deleted_at` as read included |
| `MoveFetch`, `MoveSave` | status of a task, archive of a project: `save(update_fields=...)` |
| `DeleteFetch`, `DeleteSave` | a task with its sub-tasks (one level), a project with all its tasks |
| `LinkFetch`, `LinkTarget`, `LinkCheck`, `LinkInsert`, `UnlinkFetch`, `Unlink` | dependencies; `Visited` is the bounded breadth-first search of `_has_circular_dependency`, as a recursive function |

**Abstracted.** Statuses, assignees, kinds of links, links to repositories and knowledge spaces; positions, where
two equal ones only tie in an ordering, and `calculate_new_position`, which no view calls.

### SessionRotation and the code

One page in one browser, of a user who is signed in on another device too. **State.** `row`, per refresh token:
none, live, revoked or lapsed (`_store_refresh_token` swallows a failed insert, and then there is none). `cookie` is
what the browser holds, `access` that the page has an access token. `refresh` are the refreshes in flight: where
they are, for whom (a client of the page, the page that loads, or nobody any more), the token they came with and the
one they bring. `call`, per API call, is where it is and its client; `signout` where a sign-out is. `faults` and
`overlaps` count the troubles: lost answers, timeouts, sign-outs and refusals of a new token; and refreshes,
sign-ins and loads that start while somebody else's refresh is in flight.

| Actions | Code |
|---|---|
| `SignIn`, `SignOut`, `SignOutRevoke`, `SignOutAnswer`, `SignOutLost` | `generate_tokens`; `LogoutView` and `logout` of the page, which clears the page whether it gets an answer or not |
| `Send`, `Served`, `Refused`, `Granted`, `Denied`, `Lost`, `TimesOut`, `Cleared` | both clients of `W/api/client.ts`, the axios interceptor and `coreRequest`: a refused call starts a refresh or waits for the one its client has in flight; those who wait go on with the new token or are rejected, and the page is cleared |
| `Look`, `RevokeAll`, `Insert`, `Revoke` | `validate_and_rotate`, statement by statement |
| `Reload`, `Ignored` | a load of the page at any moment: its calls are gone, what the service has been sent it goes on with and answers to nobody, and `refreshSession` (`W/api/auth-api.ts`) sends a refresh of its own, which sets no flag of either client |

The minutes of an access token may be over whenever it is used, so any call may be refused, and a call may be sent
with or without a token. The loading screen is no state: it lifts after 20 seconds (`W/providers/auth-provider.tsx:110`)
with the refresh of the page still in flight, so calls may be sent at any time. A call that is sent again after a
refresh counts as ended; that it is refused once more is `Cleared`. A token that nobody holds and that is not live
gives its name to a later one; no request can tell that row from none. **Assumed.** An answer that is lost is noticed:
axios has a timeout of 30 seconds, `fetch` in `tryRefreshToken` has none and relies on the browser's; a page may give up
any refresh (`TimesOut`), though only axios does. **Abstracted.** The factors of a sign-in, OTP and lockout counters,
devices and audit, the views that revoke sessions, loads of public routes (which send no refresh), several pages in
one browser, and what a failed load finds in local storage, which is a choice.

### ChatTurns and the code

The two gates of the AI service (`I/api/middleware/backpressure.py`, `I/api/dependencies/backpressure.py`) and the
turns of one conversation (`I/application/chat/`). **State.** `active` and `counter` of one process; per request
where it is and its kind (plain, stream, single: one that only takes a slot); `seen`, the history a turn
has read; `made`, `maker` and `stored`, the rows; `cached`, the history in Redis. A history is the set of turns it
contains. `met` and `excused` are history variables.

| Actions | Code |
|---|---|
| `TurnAway`, `Refuse`, `Begin` | the middleware; `acquire_llm_slot`; the handler to its first await. The handler of a stream returns here and releases its slot; the generator releases again at its end |
| `LoadCached`, `FetchHistory`, `FillCache` | `_load_history` |
| `LookForConversation`, `InsertConversation`, `SaveMessages` | `ensure_conversation`, and the messages with the conversation's row, which stays locked to the commit |
| `ForgetHistory`, `Commit` | a plain turn invalidates the cache and then commits, a streamed one commits and then invalidates |
| `Finish`, `GiveUp`, `LeaveUnread`, `ExpireHistory` | the end of a single request; a timeout, a raise or a reader who leaves; a generator that never started; the five minutes of the cache |

**Abstracted.** The two gates are one step, though dependencies that await lie between them, and the window of 30
messages that a turn reads is the whole history; no property depends on either. What agents and models do, titles
and `message_count` (saved as read plus two, so that overlapping turns may lose an update), memory facts, the
semantic cache of queries. The semaphore of the second gate is never acquired by the code, so it has no state here.

## 3. What the runs check

| Run | Instance | States | Shows |
|---|---|---|---|
| `pipeline_safety` | 8 stages, one of each kind, deep; 3 attempts, 2 retriers; re-enrich; crash, failure_write, delete_abort | 479k | `AtMostOnePipeline`; `FailedMeansIdle` (a job reads `failed` only when nothing can write to it any more: what makes the conditional claim of `queue_if_failed` sufficient); `RevivedRunIsClean`; `NoStageTwice`; `CompletedIsWhole`; `EnginesAgree`; `ChurnFindsItsClone` |
| `pipeline_promise` | all 17 stages; 2 attempts, 2 retriers; the same faults; no re-enrich | 281k | `KeepsPromise`: `AnalysisJob` is implemented |
| `job_settles` | 4 stages, deep; 2 attempts, 1 retrier; checkpoint, delete_abort; fairness | 8k | `QueuedSettles`: a queued job ends completed, failed or deleted; `CheckpointIsBehindRows` |
| `membership_safety` | 3 users, 2 roles, 2 invitations, 2 requests, plan of 3 | 3.2M | `OneOwner`; `JoinsConsumeInvitation` and `KeepsRegister`, `MemberRegister` is implemented (what the two locks of an acceptance are for); `NoCrossedLocks` |
| `chat_rooms` | 3 users, 3 requests, 3 direct rooms | 436k | `MemberCountIsRight`, `SeatsFollowMembers`, `OneDmUnlessBothLeft`, `NoDmDeadlock` |
| `presence` | 3 tabs, 2 workers, 1 crash, 3 broadcasts; fairness | 1.6M | `StickyUnlessOvertaken`, `NoGhost`, `GoneIsForgotten` |
| `notifications` | 2 members, 1 worker, 1 retry, 2 faults; fairness | 363k | `LossNeedsTwoFaults`, `CopiesAreBounded` |
| `project_tasks` | 3 tasks, 2 requests, search depth 1 | 698k | `NoShortCycle`, `DeadProjectIsEmpty`, `OnlyGrandchildrenOutlive`, `OnlyEditsRevive` |
| `session_rotation` | 3 tokens, 2 clients, 3 refreshes, 2 calls, reloads, 2 troubles; fairness | 1.1M | `OtherDeviceStaysIn`, `StraysAreBounded`, `CallsEnd` |
| `chat_turns` | 4 requests, limits 2 and 1, 1 fault | 187k | `NeverOverstated`, `HistoryIsWhole` |

Every run but `pipeline_promise` and `job_settles` also checks a `TypeOK`. Two more runs end in a counterexample,
because the code does other than the repository says of it:

| Run | The repository says | What happens |
|---|---|---|
| `overfull_plan` (plan of 2, 2 requests) | "a maximum of ... members (including pending invitations)" (`invitation_service.py:73`) | an acceptance between the fetch of the workspace and the count of invitations is counted in neither |
| `two_clients` (clients `axios` and `core`, no reload, no fault; `DedupKeepsSessions`) | "multiple 401s queue behind a single refresh call" (`client.ts:185`) | each of the page's two HTTP clients has its own flag; both refresh with one cookie, and the second is taken for a reuse, which ends every session of the user |

More disagreements were met while modelling and have no run of their own:

- *Analysis.* The wrapper's last resort, which should mark a job failed "so it doesn't stay stuck", cannot: the
  `job_id` it looks for was popped from the shared dict. After a lost checkpoint write a retry repeats a stage that
  had finished. Re-enriching a finished job sets a live status that nothing ends. A job deleted while it runs leaves
  a checkpoint file (the run saves it again) and may leave a `score_history` row.
- *Workspaces.* No unique index stops two invitations to one address, though `models.py:266` says so. An invitation
  can be revoked after an acceptance that commits between the look and the revocation. A member who joins between
  the two updates of a deletion stays in the deleted workspace. An admin may lose the role to a change decided
  before the owner gave it.
- *Chat.* A removed member keeps the seat in the team room: `remove_from_team_group` hangs on `post_delete`, which a
  soft delete does not fire, while `provisioning.py:7` promises that members follow. Two users who both were removed
  after the view's check have no row left to lock, and two requests may make them two rooms.
- *Presence.* "Sticky across tabs", says `consumers.py:374`. On two worker processes (`WEB_CONCURRENCY=2` in the
  Dockerfile) the INCR of a reloaded page may come between the DECR to zero and the DELETE of the old one, which
  then takes the key of an open tab, and no heartbeat brings it back. `StickyUnlessOvertaken` excuses this
  interleaving and no other. The counter then goes below zero, and the next tab to leave broadcasts that the user is
  offline. Likewise the offline broadcast of one tab may follow the online broadcast of the next, so that a user who
  is present is shown as gone. The other way round, no viewer goes on showing a user who has left (`NoGhost`).
- *Sessions.* Like the two clients, a page that is loaded again with a refresh in flight sends the same cookie
  twice, and both answers may be a reuse or two live sessions. `OtherDeviceStaysIn` excuses and `StraysAreBounded`
  counts both.
- *Notifications.* Every member is told twice without any fault, since nothing tells a job of the fallback from one
  of the request; the fallback does not leave out the reporter, and it addresses `task.assigned` to the id of the
  workspace, where nobody reads it. A crash between insert and publish loses both paths.
- *Tasks.* With overlapping requests two dependencies, each fine alone, close a circle.

**Bounds and why they are enough.** *Analysis:* two attempts show every effect of one failure on the next, the third
shows what a failed resume leaves to another. Two retriers are needed for a race and are interchangeable. Stages
matter by their kind, and the eight-stage pipeline has one of each; `pipeline_promise` has all. `job_settles` is
small because liveness is checked without symmetry; its four stages fail at, before and after the middle. A retry
that would need an attempt beyond `Runs` is not taken. A refused `RetryCheck` changes nothing, so the system never
stops and deadlock checking stays on. *Workspace:* two requests make every race of two, and two invitations let a
removed member come back, which is when an acceptance writes an existing row. `NoCrossedLocks` is a relation of two
requests. *Chat:* pairs out of three users share one, which is what orders of locking are about; three requests are
a deletion or an acceptance beside two for direct rooms; a closed room, its successor and a competitor are three.
*Presence:* two workers are what the Dockerfile starts, and the least with which handlers interleave; with three
tabs one is left when one opens and one closes, at whichever worker, and one crash leaves counts and tabs of the
other worker behind. *Notifications:* two faults are one more than the property allows for, one retry is a first and
a last try, and reporter and assignee are the two kinds of members that are treated differently. *Tasks:* three make
a chain of parents and a circle longer than the search, which looks `MaxDepth` = 1 link far instead of the code's
`MAX_DEPENDENCY_DEPTH`. *Sessions:* two troubles are one overlap or fault on top of another, which is what it takes
for a second stray; three refreshes are one of each client and one of a page; three tokens are the cookie, the one
before and the next, as names are used again (safety was also checked with four); two calls are one that starts a
refresh and one that waits, of the same client or of both. `OtherDeviceStaysIn` speaks of runs without trouble,
`StraysAreBounded` and `CallsEnd` of all. *Turns:* in the code both limits are 30; the instance sets them apart so
that each gate refuses. Four requests are two that overlap, one before and one after. In the runs of workspaces,
chat rooms, tasks, turns, sessions and notifications the identities run out, or the workspace is deleted, and the
configurations say `CHECK_DEADLOCK FALSE`; what might be a real deadlock there is a property of its own
(`NoCrossedLocks`, `NoDmDeadlock`, `CallsEnd`).

**Fairness.** `AnalysisPipeline`: strong fairness of each task's steps, since asyncio runs every task that is not
waiting, every wait has a timeout (the clone's included, `A/infrastructure/git/repository_fetcher.py`),
and PostgreSQL serves the waiters of a row lock in turn, so that deletes that come and roll back cannot
starve a run; weak fairness of the end of a delete. No client has to send anything. Liveness does not hold
under `crash` or `failure_write`: nothing in the code looks for the jobs of a dead process. The run leaves
these faults out by name, and the hazard list says so. `Presence`: handlers run to their end, open tabs
beat (`startHeartbeat`), the viewer is sent its roster and reads, time passes; no tab has to open, close or crash.
`Notifications`: request, consumer and workers go on and the container restarts the consumer; neither faults nor
the commit of an offset have to happen. `SessionRotation`: the services answer calls and refreshes, and the page
notices when an answer is lost; nobody has to sign in, call or load the page.

## 4. What is proved

Each theorem holds for every value of the constants that its module's named assumption admits: the
sequences of stages that start with `start`, have `finalize` exactly at the end and `churn`, if at all, right
after `clone`; all finite sets of users, invitations, rooms, tasks, turns, tabs or tokens; all limits. The
inductive invariants were checked by TLC on the instances of section 3 before they were proved.

**AnalysisPipeline.**

- `TypeCorrect`: `Spec => [](TypeOK /\ Located)`. `Located` (a run inside the pipeline is at a stage) makes
  `Stages[at[r]]` meaningful and is what makes `TypeOK` inductive.
- `OnePipeline` and `FailedIsOver`: `Spec => []AtMostOnePipeline` and `Spec => []FailedMeansIdle`, for any
  faults. Neither is inductive alone. The claim needs `FailedMeansIdle` to know that nobody runs; the step of a run needs
  `AtMostOnePipeline` to know that its failure leaves nobody running; and both need `IdPopped`: a run that
  has been entered has lost its `job_id`, so the last resort of an old run, which may come after a retry
  has revived the job, cannot mark the new attempt failed. So the property rests on the very defect
  that keeps the last resort from writing; whoever repairs it must keep the second write off a
  revived job (the mutant `KeepJobId` shows what happens otherwise). `Pristine` covers the time before
  the job exists. `SoloInv` is the conjunction.
- `RevivedClean`: `Spec => []RevivedRunIsClean`, for any faults. Relies on `RunStepAlone`: either the one
  active run takes a step, or an ended run changes nothing.
- `StagesRunOnce`: if `"checkpoint" \notin Faults` then `Spec => []NoStageTwice`. The
  inductive invariant `StageInv` says how outputs, file and tasks go together: the outputs are always a
  prefix of the pipeline, each stored once; while a run is inside stage `i` the prefix ends at `i - 1`
  (at `i` after the stage's commit) and the file names `i - 1` or is gone; a job that reads `failed`,
  or that a resume has claimed but not planned, has a file that is gone or names the last stored stage;
  a deleted job has no output but perhaps that of `finalize`. The assumption is necessary: a lost write
  repeats a stage. Crashes, aborted deletes, failing failure writes and re-enrich are all included.
- `NothingSkipped` (`[]CompletedIsWhole`) and `FileBehindRows` (`[]CheckpointIsBehindRows`), for any faults.
  `StageInv` is of no use here, since a lost write breaks it. What lost writes leave is weaker and enough,
  `BackedInv`: every stage up to the file's, and every stage a run at work has passed, has been stored at
  least once (`Backed`); a job is `completed` only once its run is past the last stage (`Finishing`). Repeating
  a stage stores it again, skipping one would need a file that is ahead of the rows.
- `EngineStatusesAgree` (`[]EnginesAgree`), for any faults: from `BackedInv` (whoever completes the job has
  passed every engine) and `SoloInv` (nobody writes an engine state after the failure).
- `CloneIsThere` (`[]ChurnFindsItsClone`), for any faults. `CloneInv`: a deep run past `clone`, or about to read the
  history, has the clone on disk, because a resume at `churn` whose clone is gone is refused, and a run that
  has just cloned keeps its clone unless it dies. It needs
  the order of the two stages, which is the code's and part of the module's assumption.
- `PromiseKept`: if `"checkpoint" \notin Faults` and `~AllowReEnrich` then `Spec => KeepsPromise`: each action
  maps to one of `AnalysisJob` or changes nothing a client sees. Uses `StageInv` (the stage stored next is the one
  after those stored) and `SoloInv` (whoever retries finds a failed and idle job). Re-enrich is excluded because it
  takes a finished job out of its status.
- `LiveJobHasTask`: if no fault of `Faults` is `crash` or `failure_write`, and `~AllowReEnrich`, then
  `Spec => []Attended`: a job that reads `queued` or `running` has a task that still works on it. This is what
  is safe about `QueuedSettles`: under these hypotheses fairness has something to move. Inductive with `Leaves`:
  a run goes out of the pipeline without a failure recorded only after the last stage or when its row is
  completed or gone. Each hypothesis is needed: a crash, a failure that cannot be recorded and a re-enrich (which
  sends a finished job back to a live status) are the three ways in which a live job has no task.

**WorkspaceMembership.** `MembershipInv` is the conjunction of `TypeOK` and

- `Ownership`: the owner's row, and no other, has the role `owner`, and is active until the workspace is deleted.
- `Informed`: what a request has read may be stale when it writes, except that a request past its look at the
  target does not aim at the owner (nobody becomes or ceases to be one), and that an invitation it saw exists.
- `Admitted`: what the locks of an acceptance keep true: it is the only one, the workspace is there, the
  invitation is unused and the user's; and an owner who accepts is seen to be a member already, which is
  why accepting cannot overwrite the owner's role.

From it follow `MembershipTypeCorrect`, `OwnerStays` (`[]OneOwner`), `JoinersWereInvited` (`JoinsConsumeInvitation`)
and `DeletedStaysClosed` (nobody joins a deleted workspace). `LocksNeverCross` (`[]NoCrossedLocks`) adds `LockInv`:
the rows a deletion has locked are members' and in no other deletion, and an acceptance that will write an existing
row writes that of a user who is no member; so the two transactions, which take workspace and member rows in
opposite orders, have no row to fight over. `RegisterKept` (`Spec => KeepsRegister`) adds `OwnerGoes` (a deletion
that has locked the members has the owner among them, so that the first to commit closes the register) and `Given`
(whoever is a member, and every invitation, has a role, so that the register's `None` means absence). Then every
writing statement is one step of the register: `InviteInsert` an `Invite`, `RoleSave` an `Appoint`, `RemoveSave` a
`Leave`, `RevokeSave` a `Drop`, `AcceptCommit` a `Join` (by `LockInv` the one who joins is still no member) or a
`Drop`, `DeleteCommit` a `Close`; the rest changes nothing it sees.

**ChatRooms.** `ChatInv` is `TypeOK` with `AcceptInv` (one acceptance at a time, and the count it read is still that of
the room), `TeamInv` (a seat if and only if there is a member row, removed or not), `LockInv` (no row is
locked twice; a request for a direct room locks upwards, and the rows of users never removed are locked or to be
locked) and `RoomInv` (who is about to create found nothing, and nothing has come since). From it
`ChatTypeCorrect`, `CountIsRight`, `SeatsFollow`, `OneConversation` and `NoDeadlock`. The order of `user_id` is
what proves the last one, and the locks of `LockInv` the one before it. `NoDmDeadlock` is about two requests;
`NoCircleOfWaits` (`[]SomeDmGoesOn`) excludes circles of any length: of any set of requests that lock the rows of direct
rooms, one waits for no other of the set. Whoever waits wants a smaller row than the one it waits for, so
the one with the fewest rows above the row it wants (strict inclusion is well-founded on finite sets) waits for none.

**ProjectTasks.** `TasksInv` is `RowInv` (rows and requests are of their kinds, and what a request names exists) and
`AloneInv` (without overlap one request is in progress and what it has read is still so, no circle is as short as
the search is deep, and the two rules on deletions hold). From it `TasksTypeCorrect`, `DeletedProjectStaysEmpty`,
`SubtasksGoAlong`, `NoShortCycleCloses` and, with any overlap, the action property `RevivedByEdits`. What the search
computes is `VisitedIsWithin`: `Visited(t)` is what can be reached from `t` over at most `MaxDepth` dependencies,
for every depth. The search is a recursive function over the depth, and the induction is done with
`LeastElement` (a set of naturals that is not empty has a least element) on the first depth at which the two
would differ. `LinkClosesNoCycle` then takes a circle through the new dependency apart.

**ChatTurns.** `TurnsInv` is `TypeOK`, `NeverOverstated`, `TurnInv`, `AloneInv` (a turn that has met no other read what
is stored) and `CacheInv` (a plain turn that is about to commit has emptied the cache; a stale history is
about to be forgotten by the streamed turn that has just committed). From it `TurnsTypeCorrect`,
`CounterIsNotLeaked` and `NextTurnSeesAll`.

**SessionRotation.** All theorems hold for any number of clients, tokens, refreshes and calls, with or without
reloads. `KindsInv` is `TypeOK` with `Answered` (the row a refresh came with is dead once it has its answer),
`Brings` and `Sent` (what a refresh and a call that has begun are made of) and `Enough`: there are at least as many
unused names of tokens as refreshes that will still take one, which is how the finite set of names stays out of the
argument. From it `SessionTypeCorrect`, whose heart is that a client has one refresh in flight at most. `CalmInv`
says what holds until the first trouble: there is one refresh at most, it presents the cookie the browser holds, and
that cookie is not revoked before its successor is on the way. From it `OtherDeviceKept` (`[]OtherDeviceStaysIn`).
`StraysCounted` (`[]StraysAreBounded`) is not inductive: nothing in it says what a refresh in flight is about to
leave behind. `Risk` adds that up. A refresh in flight may end without the browser's having both its tokens, a
cookie that is still good may be replaced by a sign-in (`Unclaimed`) or taken by a sign-out (`Leaving`); each may
cost one session, and the one refresh that will bring the successor of the cookie the browser holds (`Asked`) costs
none. No step adds to this sum more than to `overlaps + 2 * faults`. `NobodyWaitsInVain` (`[]WaitIsForRefresh`) and
`QueueIsEmptied` (an action property) are what is safe about `CallsEnd`: a call that was put aside waits for a
refresh its own client has in flight, and the step that ends the refresh, granted, refused, lost or given up, lets
go of all that wait for it.

**Presence.** All theorems hold for any number of tabs, worker processes and crashes. `PresenceInv` is `Kinds`,
`Tally` (the counter strays from zero, upwards by no more than the tabs it counts and downwards by no more than
those between DECR and DELETE, and either way by the tabs of each crash), `Kept` (unless a DELETE overtook a tab, no
tab is missing from the counter, and while there are any the key exists), `Beats` (a tab that has beaten has renewed
it), `Room` and `Told` (the last that is heard of a user who is gone, and not silently so, is that he is). From it
`PresenceTypeCorrect`, `StickyHolds` (`[]StickyUnlessOvertaken`) and `NobodyHaunts` (`[]NoGhost`). `Told` is
inductive because whoever takes the key away by a DELETE has a broadcast to make before he is gone.
`LeftoversExpire` (`[]LeftoverExpires`) and `LeftoversAge` (`[][LeftoverAges]_vars`) are what is safe about
`GoneIsForgotten`: what a user without tabs has left has an expiry, nobody renews it, and each tick brings its end
nearer. Their invariant `TimedInv` says that a key without expiry belongs to a handler that is about to set one, or
to delete the key.

**Notifications.** The bound on copies is not inductive: nothing in it keeps a job in the queue from becoming one
row too many. `NewsInv` counts, for each event and member, the rows there are, the copies of a job that wait in the
broker, the workers that have taken one and not stored it, and one for the request and one for the consumer as long
as each may still queue one (`Owed`). `Owed` never exceeds 2 (1 for the assignment) plus the faults: a fault adds at
most one to it, and every other step moves a copy from one term to another. `Order` says where request and consumer
are in the topic, which is why only a restart of the consumer, which a death precedes, can make it read the event
twice. From it `NotificationsTypeCorrect` and `CopiesBounded`. `OneFaultLosesNothing` (`[]QuietMeansTold`) is what
is safe about `LossNeedsTwoFaults`, for any number of workers and retries: the same count read the other way. What a
member is owed and the faults so far never add up to less than two (`Backed`), for the request and the consumer each
queue a job and a fault, the loss of a job with its worker included, takes away at most one of the two; at rest
nothing but rows is counted, so after at most one fault there is a row.

**Only model-checked:** liveness under fairness (`QueuedSettles`, `GoneIsForgotten`, `LossNeedsTwoFaults`,
`CallsEnd`), which is beyond the prover. What is safe about each of them is proved (`LiveJobHasTask`,
`LeftoversExpire` and `LeftoversAge`, `OneFaultLosesNothing`, `NobodyWaitsInVain` and `QueueIsEmptied`); that the
fair steps do come is what only TLC shows.

## 5. Reading some of the properties

- `OneDmUnlessBothLeft`, `StickyUnlessOvertaken` (`overtaken`), `NoGhost` (`silent`), `GoneIsForgotten` (`cut`),
  `HistoryIsWhole` (`excused`), and those of `ProjectTasks` that begin with `alone` name the case in which the code
  does not keep the rule. The exception is part of the statement because it is part of the code: a user both of
  whose rows are gone, a DELETE at one worker that overtakes an INCR at another, an expiry nobody is told of, a
  worker that dies between INCR and EXPIRE, turns that overlap or an invalidation that is lost, requests without a
  transaction that overlap. What is excused is not caught: `HistoryIsWhole` does not say that the plain turn
  invalidates too early, nor `NoShortCycle` that two dependencies inserted at once close a circle.
- `NeverOverstated` is about both gates, and one-sided on purpose: a stream gives its slot back at once and once
  more when it ends, so the counter may be too low and never too high. The code admits too many rather than refusing
  for ever.
- `OtherDeviceStaysIn` and `StraysAreBounded` count what runs side by side instead of forbidding it: the page has
  two clients and may be loaded at any moment. The first says what it takes to end the session of another device,
  the second what each overlap may cost. `two_clients` shows that one overlap is enough, and that the page alone
  brings it about.
- `TypeOK` of `Presence` bounds the counter on both sides of zero: with two workers it does go below.

## 6. Not modelled

- **Upload and file analysis, engines.** The upload shares its task wrapper and stages with the pipeline;
  rules, parsers, detectors and the scorer are pure functions, patterns and thresholds over source text,
  the bulk of the repository's lines, and tables of tests show them better than a model.
- **Community, knowledge, search, repositories.** Create, read, update, delete, with little interaction.
- **Auth** but for refresh tokens: OTP and lockout counters and OAuth states are single rows or keys with
  an expiry. **AI** but for admission and turns: agents, prompts, memory; failover between models
  (`execute` in `failover_engine.py` unpacks two of the three values that `resolve` returns, inside a `try` that
  catches the error and goes on with all models, so that only the filter of those cooling down is lost).
- **Web client** but for session and presence: rendering, forms and polling. **Infrastructure:** configuration.
- What each module leaves out of its own part is under "Abstracted" above.

## 7. Plan

Done: the analysis job and the workspace with their abstract specifications, chat rooms, presence, notifications, tasks,
sessions, turns. Left, in order:

1. **AnalysisProgress**: `_push_progress` against `update_status` with its floor, the two tables of
   percentages, resumes. Question: does the bar ever go back?
2. Messages and sequence numbers of a chat room, with the unread counters.
3. Uploads: the job id the upload invents against the one its handler creates.

## 8. Running

    tlc -workers 2 -config MCChatRooms.cfg MCChatRooms.tla
    tlapm ChatRoomsProofs.tla

`PROJECT.json` names each run with its module and configuration. `MCMembership.cfg` and `MCSessionRotation.cfg` take
about three minutes, `MCPresence.cfg` less than two, the others less than one; the proofs take from one to a few
minutes per module.
