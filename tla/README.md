# Verification of the Hydro operations system

TLA+ models of the parts of this repository in which an operator's decision,
a paid agent run or a SQL write can be lost, repeated or contradicted; the TLC
configurations that check them; and TLAPS proofs of their main properties for
every value of the constants. `PROJECT.json` maps each definition to the lines
of code it models and lists the runs, hazards, findings and theorems. Paths
below are relative to the repository; "service" is
`HydroOperationsService/src/hydro_orchestrator`.

    tlc -workers 2 -config DurableReview_one.cfg MCDurableReview.tla
    tlapm DurableReviewProofs.tla

## 1. Inventory

| Component | Code | State it keeps | Operations | Talks to |
|---|---|---|---|---|
| Durable review store | service `store.py` | SQLite tables `runs`, `events`, `validation_work` | create, start, wait, approve, finish, fail, retry, record_review, record_decision; each one `BEGIN IMMEDIATE` transaction | workflow, runner, HTTP handlers |
| Review workflow | `workflow.py` | checkpoint directory per run; `failure` of the storage | read_evidence, investigate, prepare_proposal, human_approval; save, get_latest, require_healthy | source and agent adapters, store |
| Local runner and `/runs` API | `service.py` | `tasks`, a semaphore of 4, `worker.lock` | schedule, execute, finished, record_failure, close; submit, approval, retry; restart in `lifespan` | store, workflow |
| Work-order decision | `service.py`, `live_sources.py`, `HydroOperationsApp/scripts/local-fabric-sources.mjs` | receipts `approval:<id>:intent` and `:result`, a file lock per card, the SQL `WorkOrder` row | decide, reconcile, submitApprovedWorkOrder | browser card, Node worker, database |
| Hosted invocations | `service.py` `create_delegated_app` | receipts `admission`, `answer`, `failure`; a semaphore; detached tasks; the delegated credential | run (stream or not), result, evidence | browser transport, supervisor |
| Foundry supervisor | `foundry_supervisor.py` | the run's journal of write-once receipts, its checkpoint directory, the turn, a count of delegations | plan, governed reads, handoff and invocation of specialists, verify, analyse, present, commit; resume from a checkpoint | Foundry agents, live sources, workflow library |
| Local supervisor runner | `service.py` `SupervisorRunner` | `tasks` (at most 32), semaphore, journal | submit_chat, schedule, execute, restart | supervisor |
| Node bridge and worker | `live_sources.py`, `local-fabric-sources.mjs` | worker process, pending table, reader task | call, replace worker, close | Fabric, GraphQL, SQL |
| Source tokens | `source_auth.py` | signing-key cache | verify, key | Entra |
| Native clients, presentation, reports, contracts | `native_*.py`, `presentation.py`, `foundry_rca.py`, `contracts.py` | none beyond a call | validate, render | external services |
| Browser conversation, transport and cards | `HydroOperationsApp/src`: `services/intelligenceModes.ts`, `services/copilot/hostedTransport.ts`, `components/WorkOrderApprovalCard.tsx` | transcript, busy flag and controller of the lane; previous and interrupted run, conversation version; state of each card | send, stop, new chat, change of identity; run, recover, decide, reconcile | hosted invocations |
| Other browser services | `HydroOperationsApp/src/services`, `src/components` | `ApprovalStore` entries, direct and battle lanes, token queue, page data | approve, compare, sign in, load | Fabric, agents |
| Setup web application | `Raw/workspace-reset/webapp/server.py` | `JOBS`, one thread and at most one child per job, `workflowCheckpoints` in the settings file | start, cancel and resume a Full Deploy; run and watch its commands; restore after a restart; single-command jobs, settings, sign-in | its child scripts, browser |
| Setup and deployment scripts | `Raw/workspace-reset/*.py` | workspace items, pipeline runs | synchronise, check for an active run, submit, monitor; upsert, deploy | Fabric, Azure, Git |
| Notebooks, pipelines, environments | `Notebooks`, `Raw/RTI_Notebooks`, `Orchestrator_Pipelines`, `Environments` | lakehouse data | batch steps | Fabric |

What is hard. (a) *Two durable stores that no transaction spans*: SQLite and the
checkpoint directory of the review; the journal and the SQL database of a card. A
crash, a fault or a retry can fall between them. (b) *Work that outlives its
caller*: a Node job that runs on after its Python call timed out, a supervisor task
whose client left, a done callback after a retry. (c) *Time*: a proposal approved in
time and executed too late. (d) *Capacity checked before an await*. (e) *Who is told
what*: a receipt is only worth something if it stays true, and an answer only under
its question and for its operator. (f) *Progress and its record* in different
places: receipts and a checkpoint, a job in memory and its record on disk, a child
process and the pipeline run it started. What makes each component correct is listed
with its module below; the hazards, line by line, are in `PROJECT.json`.

## 2. Modules

### DurableReview (implements ReviewLifecycle)

`store.py`, `workflow.py`, `LocalRunner` and the `/runs` handlers.

| TLA+ | Code |
|---|---|
| `row[r]` | the row of `runs`; `NoRow` when there is none |
| `work[r]` | the row of `validation_work`, as the proposal its digest names |
| `ckpt[r]`, `corrupt[r]` | newest checkpoint; whether some file of the run cannot be decoded |
| `task[r]` | `LocalRunner.tasks[r]` and the place its coroutine has reached; `graph` is the workflow's state in memory |
| `callback[r]` | a done callback of a task that raised what `execute` does not catch |
| `up`, `deployment` | the process and the source identity it is configured with |

Every store method is one step because it is one transaction. `Begin` takes a
permit, checks the source and the status, and starts the run; `LoadCheckpoint`
decodes all files and resumes or starts the graph; each executor is an action,
and the checkpoint that the SDK saves after it (`SaveCheckpoint`) is another,
because the process may exit between them. `SaveCheckpointFails` is what
`RequiredCheckpointStorage` remembers and `RequireHealthy` what it is asked for.
A run ends its task in the same step as its last store call, as the coroutine
does. The SDK (`agent_framework`) is external: the model assumes only that it
checkpoints the submitted message and every superstep, resumes from the
checkpoint it is given, and delivers a response to a pending request.

Abstractions: a proposal is its request, a draft, the time of its work-order
read and its expiry; `Digest` is injective (SHA-256 over canonical JSON); the
event table is append-only and no decision reads it, so only the failure of an
append is kept (in `StepFails`, `JournalRecovery`); `Window` stands for 15
minutes, `Capacity` for 4. Requests the code rejects (401, 404, 409, 422) change
nothing and are not steps. A failure to write a failure is left out (see
hazards). The replay branches of `record_review` and `record_decision` (an
outcome already stored is returned) are dead code for the workflow, because a
run with an outcome is finished without entering it; `TaskInv` proves that.

Properties: `ReceiptsAgree`, `DecisionIsResumable`, `WritesAreCovered`,
`RecordsAreFinal`, `StepsAreNotRepeated`, `Settles`, and `KeepsPromise`: seen
through the verdict, the effect, the result and the closing of each run, the
component implements `ReviewLifecycle`.

### WorkOrderDecision (implements WorkOrderCard)

One hosted approval card and every HTTP call about it. Cards are per principal
and source (the state directory is their hash), so one card stands for all.

| TLA+ | Code |
|---|---|
| `intent`, `result` | the two write-once receipts of the card |
| `holder` | the call that holds `approval-<id>.lock` |
| `call[c]` | one `decide` or `reconcile` call; `create` is its `allow_create` |
| `job[c]` | the Node promise that serves the call; it may outlive it |
| `wire`, `sql`, `creates` | a create mutation on its way, the row with the creation id, mutations ever sent |

`Ask` is everything `decide_work_order` does before its first await, in the
order of its checks (`Answered`). `Submit` is the bridge call up to the write into
the worker's pipe, and `Read` the worker's reading of it. `GiveUp` is the failure of
that call, a missing token or a readback that fails the Python contract, and
`Receive` the answer. `Timeout` is the part of `GiveUp` that `call_timeout`
brings about: it starts after `stdin.drain` (`live_sources.py:216`), once the
request was read. `FindExisting`, `FailsBeforeWrite`, `Stage`, `Create` and
`CheckCreated` are `submitApprovedWorkOrder`; the database (`Commit`,
`LoseMutation`) and people who edit the order (`WorkOn`) are external and take
any order. `Crash` ends the Python process; Node drains its jobs or is killed
(`JobLost`). A capacity refusal (429) and an unknown card (404) change nothing.

Properties: `OneCreation`, `ReceiptsAreTrue`, `DecisionsAreAnswered`, and
`KeepsCard`: one decision, then at most one order with the approved fields, then
one receipt.

### DelegatedStream (implements HostedRun)

The `run` and `result` operations of `create_delegated_app`.

| TLA+ | Code |
|---|---|
| `admission`, `answer`, `failure` | journal receipts; `admission` holds the worker instance |
| `handler[r]` | the request's coroutine or its `stream_run` generator |
| `task[r]` | the task of `execute()`, or the attached request's own await; `waiting` is queued on the semaphore |
| `keeper` | runs with a `complete_detached` continuation |
| `lease[r]` | the delegated credential |
| `told[r]` | the terminal frame or response the caller was given |

`Check` is the look at the capacity, `AdmitStream` the admission receipt one
await later. `Raise` separates exceptions with an except clause of their own,
which yield a terminal event before they save the failure (`Announce`, then
`Report`), from the others, which save first. `Raise` after `Commit` is an
exception raised while the supervisor's contexts are left. `Disconnect` is
`stream_run`'s `finally`. Event delivery, heartbeats and the presentation of the
answer are left out, and so are `decide` and `reconcile` calls, which use the
same semaphore for a bounded time. One worker at a time serves a state
directory (a hosted session is one container).

`HostedRun` is what one run promises to its caller: an answer or a failure, each
written once, nothing after a failure, and one terminal word taken from them. It
allows a run that raises after its commit to be retracted, because the except
clauses do not look for a committed answer and `result` reads the failure first.

Properties: the capacity bound in `TypeOK`, `InterruptedIsOrphan`,
`LeaseCoversRun`, `AbandonedRunsAreTold`, and `KeepsOutcome`: each run implements
`HostedRun`, whoever acts for it.

### SupervisorQueue

`SupervisorRunner`, the `/chat/runs` handlers and the lifespan of `create_app`.

| TLA+ | Code |
|---|---|
| `request`, `answer`, `failure` | journal receipts of a key; the body is a model value |
| `task[r]` | `SupervisorRunner.tasks[r]`, the request its coroutine was given and how far it is; `over` waits for its done callback |
| `service`, `source` | the process (`refused`: its lifespan raised) and `SupervisorRunner.source` |
| `unrecorded` | runs whose last failure receipt could not be written: "interrupted" in `chat_status` |

`Submit` and `Resubmit` are `submit_chat`, which never awaits and so is one
step; rejected requests (409, 429) change nothing. `Enter` takes the semaphore.
`FoundrySupervisor` appears as the service relies on it: `Refused` is what
`_run` checks before it does anything, `Commit` its answer receipt; whatever
happens in between ends in one of them or in `Raise`. `Raise` is the `except`
clause of `execute`, reachable after `Commit` as well. `Stop` stands for a
graceful end and for a kill: neither saves anything. `Restart` and
`RestartRefused` are the lifespan.

Properties: the two limits in `TypeOK`, `OneOutcome`, `AnswersTheRequest`,
`NoRunIsLost`, `RestartFits`, `SettledRunsRest`, `AcceptedRunsSettle`. The
second look at the queue in `submit_chat` (before the request is saved) is what
`RestartFits` and `NoRunIsLost` need: `schedule` alone would refuse a run that
is already on disk.

### SourceBridge

`NodeSourceBridge` and `serve()`: concurrent calls over one worker that is
replaced after a crash, an unusable response or a change of configuration.

| TLA+ | Code |
|---|---|
| `pc[c]`, `future[c]` | the coroutine of `call` and its future |
| `pending`, `process`, `lock` | `_pending`, `_process`, `_lock` |
| `closing[x]` | the worker that an `aclose` of call `x`, or of the lifespan, waits for |
| `stage[w]`, `stdin[w]`, `reader[w]` | a child (`reaped`: `returncode` is set), its pipe, its `_read_responses` task |
| `bound[w]`, `started[w]` | `_environment`, and the environment the child inherited |
| `job[c]` | the call's request inside the worker |

`aclose` is the state change up to its first await (`Aclose`), a wait
(`Closed`) and a `Kill` after two seconds. The body of `call` between
`_ensure_worker` and its next await is one step (`Write`). The start of a worker is
two: `Start` is the fork inside `create_subprocess_exec`, with the environment of
that moment, and `Started` the resumption of the call after line 175, with the
assignments and the write. Between them the configuration may change and the child
may exit; in that case alone the check of line 213 fails, and the call with it. `Cancel`
is a cancellation at any other await; inside `aclose` it first waits for the reader.
While a worker starts, a cancellation or a pipe that cannot be connected is `Abort`:
asyncio (external) kills the child and raises only after its exit (`AbortEnds`).
`StopReading` is the `finally` of `_read_responses`, `EndOfFile` and `Unusable`
are its ways in. Outside are the crash of Node (`Die`), the child watcher
(`Reap`) and the environment (`Reconfigure`).

Abstractions: one event loop (a second loop, which only replaces the worker and
closes its pipe, is left out); a response is routed to the call whose identifier
it carries; a configuration is never returned to, so the narrow case of a
configuration changed and changed back during one `aclose` or one start is outside
the model; `drain` either returns at once or waits for the worker to read. Other
steps may fall between the end of `aclose` and the fork, which the code does not
allow (there is no await): the model has more behaviours there, not fewer.

`ConfigurationIsFollowed` says what the code gives and no more. A request that finds
a worker goes to one that was started with the configuration in force. The request
that starts its worker may go to one started with a former configuration, if it
changed while `create_subprocess_exec` was awaited, since nothing compares it again
between lines 175 and 215; that worker is no older than the value the request
compared under the lock, and the next request replaces it.

Properties: the lock's owner in `TypeOK`, `PendingIsServed`,
`NoWorkerIsLeaked`, `ConfigurationIsFollowed`, `CallsEnd`; `ExitIsTrue` fails
(finding 3), and `ExitIsTrueUndisturbed` says how far it holds.

### SupervisorRun (implements SupervisorQueue for one run)

`FoundrySupervisor._run`: the graph of executors, the journal and the
checkpoints of one run, from the task's start to its receipt.

| TLA+ | Code |
|---|---|
| `plan` | the compiled plan: for each step the specialist it invokes, `"reader"`, or `"skipped"` where its condition does not hold |
| `turnSaved`, `receipt`, `stage`, `verified`, `analysis`, `prepared`, `filed`, `answer`, `failure` | the receipts `supervisor_turn`, tool reads and `CachedHandoff`, `specialist_stage`, `verified_supervisor_turn`, `answer_analysis`, `prepared_answer`, `evidence`, `answer`, `failure` |
| `asked`, `replied` | `specialist_input` and `specialist_attempt` of each invocation |
| `ckpt` | the newest checkpoint: the executor its message is for, the turn it carries, and the state's answer digest |
| `pc`, `at`, `turn`, `output`, `delegations`, `healthy` | memory: where the run is, the message and its executor, the workflow's output, the two members of the same names |
| `stops` | how often the process has stopped; `This` is the number of the current start |

Everything a call returns is the number of the process start it was made in,
because a call made again answers with another response identity, clock and
duration. So "the same value" in `RunJournal.save` is modelled by what it does:
a receipt written again after a restart is refused. Each receipt is a step of its
own, and `Stop` may fall between any two; `Checkpoint` is the save the workflow
library makes before the first executor and after each one, and the executor is
called whether or not it succeeds, as the library does; `require_healthy` at the
head of each executor is `healthy` in its guard. `Fails` is everything that ends
`_run` with an exception (deadline, refused or failed call, invalid evidence).
Under `Queue` the module's steps are steps of `SupervisorQueue`.

Abstractions: a reader step stands for adjacent reader steps, which the code
gives one executor; whether a conditional step is skipped is part of the plan;
an invocation is one request and one response (its completion retry and repair
rounds add receipts of the same form); what a specialist reads by itself and the
reads that `fulfil_catalog_requirements` adds are left out; a planned Data Agent
call is an invocation like the others, and an unwritable failure receipt is in
`SupervisorQueue`. The native pass-through, clarification and conversation paths
end before the graph is built and are not modelled.

Properties: `ProgressIsCheckpointed`, `AnswersRestOnReceipts`,
`CompletedWorkIsNotRepeated`, `ExecutesItsTask` (the refinement), the bound on
delegations in `TypeOK`; `InterruptedRunsRecover` fails (finding 4).

### SetupJob

Full Deploy of the setup application: `server.py` with `run_pipeline.py` as the
child of its second command, and Fabric's pipeline runs behind it.

| TLA+ | Code |
|---|---|
| `job`, `disk` | `JOBS` and `workflowCheckpoints`; a record keeps what decides a resumption |
| `worker[j]` | where the thread of `_workflow_worker` is |
| `snapshot[j]` | the record that its last save has built and not yet written |
| `cancel` | jobs with `cancel_requested` |
| `child[j]` | the command's process: its step, how far it has come, the run it watches |
| `orphans` | jobs whose child outlived the server between its inventory check and its submission |
| `run`, `workspace`, `checkout` | pipeline runs in Fabric with the definitions they ran; definitions in the workspace and in the checkout |
| `parent[n]` | the job that job `n` resumed (history) |

A checkpoint saved in mid-run is one step with the change it saves, because only
the job's own thread writes it then. The last one is two steps (`TakeSnapshot`,
`WriteSnapshot`), because the record is built under `job.lock` and written under
another lock when the job may already be resumed. `Begin` is what `JOBS_LOCK`
guards; `Resume` is check and start together, because `_start_workflow` checks
again under that lock. `Exit` loses memory and threads and is followed by a
start; a child whose output pipe is closed ends at its next line, so the only
request of it that counts is a pending submission (`OrphanPosts`). A lost answer
to a submission is `ChildFails` after `ChildPosts`.

Abstractions: definitions are version numbers of two parts, the notebooks that
setup runs and those of the last step; the pushed branch is taken to be the
checkout; `workflow_key` is unchanged (a changed key refuses the resumption);
`Deduped` is treated as `Failed`; the synchronisation and deployment commands
succeed or fail as a whole. Plain jobs (`_start`, `_worker`), timings, phases and
log lines are left out.

Properties: `OneCommand`, `CancelledCommandsEnd`, `OneActiveRun`,
`DependenciesAreVerified`, `AcceptedRunsAreWatched`, `JobsEnd`; `ResumedOnce`
fails (finding 5).

### HostedConversation (implements WorkOrderCard for every draft)

The Multi Agent lane of the browser, its transport and the cards of its answers,
beside the service they call.

| TLA+ | Code |
|---|---|
| `revision`, `transcript`, `busy`, `session`, `controller` | the identity's revision and the lane in `IntelligenceConversations` |
| `aborted[q]` | the signal of the request that asks `q` (stop, identity change, timeout) |
| `task[q]` | `run()` of the lane and of the transport: `signing` awaits credentials, `open` the stream, `polling` the `result` operation, `checking` the digests |
| `client[s]` | the `HostedTransport` of a session: `running`, `previousRunId`, `interruptedRunId`, `conversationVersion` |
| `run[q]` | the run on the service |
| `offered[q]` | the conversation version that the callback of a draft was made with |
| `visit`, `card[c]`, `call[c]` | a mounting of the page, the component state of a `HostedApprovalCard`, and its request on the way |
| `decides[c]` | how many decide operations the card has sent (history) |
| `verdict`, `order`, `receipt` | what the service has of a draft |

Only an await separates two steps. `Ask` is everything up to the sign-in of the
run operation, and `End` both `finally` blocks with all that lies between them,
so a request that ends, paints and frees its lane does it in one step.
`StopTakesEffect` is an abort at an await that listens to the signal; the
sign-in does not, and looks at it afterwards (`MaySend`), as `Accept` does after
the digests. `Abort` during the last await is therefore a case of its own.
`Submit` compares the conversation version at the click, and `CallSignedIn`
sends what it was given later. A decide that was sent may arrive at any time
(`Judge`), also after its answer was given up. `Replies` is what
`decide_work_order` can answer in each state; `Outcome` is what a card makes of
it.

Abstractions: a session is named after its first question, a run after the
question it answers, and an answer has at most one card; progress events are left
out; "conflict" stands for every error without a status that the card knows; the
direct and the battle lane use the same class with other transports and are left
out. A run fails or completes as it likes: how is the subject of
`DelegatedStream` and `SupervisorRun`. It stays completed here, because the
conversation asks nothing more about a run whose answer it has shown; likewise the
operations behind a decision
are those of `WorkOrderDecision`. `KeepsCards` says that the short form of them here
is a `WorkOrderCard` for each draft, as the long form is.

Properties: `ShownIsCurrent`, `BusyIsOneTask`, `AnswersAreTheirOwn`,
`FollowUpsAreVisible`, `NothingIsSentAfterStop`, `DecidedOnce`, `CardsAreTrue`,
`KeepsCards`, the bound on lost polls in `TypeOK`, `InterruptedRunsAreShown`;
`FailedRunsAreForgotten`, `OldCardsNeverSubmit`, `StopEndsWaiting`,
`BlockedCardsStayUnwritten` and `SettledCardsStaySettled` fail (findings 7 to 11).

## 3. Runs

| Run | Constants | What it shows |
|---|---|---|
| `one` | 1 run, 2 bodies, 2 sources, 2 drafts, Window 2, time to 3, 1 crash, 3 faults | safety of a review, the refinement of `ReviewLifecycle` and `Settles` under fairness (420,704 states) |
| `calls` | 3 calls, 2 edits, 1 crash, Python and the reading of a pipe fair | safety of a card, the refinement of `WorkOrderCard`, `DecisionsAreAnswered` (414,578 states) |
| `blocked` | 2 calls, no crash | finding 1 |
| `runs` | 2 runs, Capacity 1, 2 crashes, 2 faults | safety of hosted runs, the refinement of `HostedRun`, `AbandonedRunsAreTold` under fairness (27,706 states) |
| `lost` | 1 run | finding 2 |
| `queue` | 3 keys, 2 bodies, 2 sources, Capacity 1, QueueLimit 2, 1 stop, 1 fault | safety of the local supervisor queue, and under fairness that accepted runs settle (86,266 states) |
| `bridge` | 2 calls, 1 crash or bad response, 1 change of configuration | safety of the bridge, and `CallsEnd` under fairness (791,040 states) |
| `stale` | 2 calls, no fault | finding 3 |
| `commit` | 3 steps, 2 roles, 2 reads, 2 stops, every plan | safety of a supervisor run and its refinement of `SupervisorQueue` (207,485 states) |
| `deploy` | 2 jobs, 1 exit, failed save or edit | safety of Full Deploy, and `JobsEnd` under fairness (299,455 states) |
| `asked` | 2 questions, PollLimit 3, 1 identity change, 4 faults | safety of the conversation, and under fairness that recoveries end and show their answer (107,506 states) |
| `cards` | 2 questions, one with a draft, 1 identity change, 1 revisit | each card decides once and shows what is so (1,660,290 states) |

These runs are listed in `PROJECT.json`. Findings 4 to 11 have a configuration of
their own, each with one formula that TLC refutes within seconds:

    tlc -workers 2 -config SupervisorRun_recovered.cfg MCSupervisorRun.tla
    tlc -workers 2 -config SetupJob_resumed.cfg MCSetupJob.tla
    tlc -workers 2 -config WorkOrderDecision_disabled.cfg MCWorkOrderDecision.tla
    for f in kept chats stopped unsent visited; do
        tlc -workers 2 -config HostedConversation_$f.cfg MCHostedConversation.tla
    done

Some formulas are proved (Section 5) without being properties of a run, mostly
because one that is speaks of the same hazard: `TypeOK`, except where it holds a
capacity (`runs`, `queue`); `ReceiptsAreTrue`, beside `KeepsCard`; `NoRunIsLost`,
without which `AcceptedRunsSettle` would fail; `FollowUpsAreVisible`, beside what
`NothingIsSentAfterStop` says of a question's context; `ToldIsRecorded`, which
`KeepsOutcome` implies; `ResumedCheckpointsRest`, a step of what is proved of
`AcceptedRunsAreWatched`; `ExitIsTrueUndisturbed`, beside the run that refutes
`ExitIsTrue`; `JournalIsWriteOnce` and `SettledRunRests`, which justify
how `SupervisorRun` writes receipts; and `KeepsCards`, because the service side of
that module is close to the abstract specification.

Bounds. Three faults allow a review to fail, be retried and fail at each of its two
retries; Window 2 and time 3 let a proposal be made late, approved in time and
executed too late. Two reviews meet only at the semaphore: a second one changes
nothing in the first one's safety, which is proved for any number, and delays it by
steps that are themselves bounded, so the liveness run has one. A second edit is
what tells "the decision" from "a decision"; the third call is needed for a
reconciliation that overlaps a later one while the first job still runs. With
Capacity 1 the second hosted run waits while the first executes or is lost, and two
crashes let a replaced worker be replaced again. A queue one shorter than the number
of keys fills up, and a single unwritten failure then makes the next start
impossible (`RestartRefused`). In `SourceBridge` a call starts at most one worker,
so workers are named after calls and need no bound of their own; with two calls one
replaces the worker while the other is served by it, waits for the lock or is
released by the lifespan. Three steps with two roles let a role be delegated twice,
before and after a reader step of two concurrent reads, and be skipped; two stops
let a resumed run be resumed. Two jobs are a Full Deploy and its resumption, or two
that compete; the third in `SetupJob_resumed` is the second resumption. One event
there is an exit, a failed save, a command that cannot be started, or an edit
between a failure and its resume. Two questions are one that the other follows up,
one in a new chat, or one of another account while the first still runs. Four faults
break a stream and lose three polls in a row, or lose two, answer one and lose
another. One revisit gives a draft two cards, with different decisions, while both
of their requests are on the way. The proofs below lift these bounds for every
safety property; `Capacity`, `Window`, `Steps`, the sets of roles and reads and the
fault bounds are then arbitrary. No run uses `SYMMETRY`.

`CHECK_DEADLOCK FALSE`: each of these systems really comes to rest. When every
run, call or job is finished, the clock has reached its bound and the bounded
faults are used up, no step is left; that a request in progress never stops for
any other reason is what the liveness properties say.

Fairness. `one`: each runner step, because the event loop runs every ready
coroutine and each adapter call is bounded by `step_timeout`, and the restart of
the process, without which nothing promises anything. Requests, faults and the
clock are not fair. `calls`: a submission reaches a worker or fails
(`CallsEnd` says so of the bridge, and the token service answers), a live worker
reads its pipe, and from then on `call_timeout` (75 s) bounds the wait. It does not
bound the lock, `aclose` and the start of a worker, nor `stdin.drain`, which are all
awaited before it begins; hence the two assumptions, which `bridge` shares. A worker
that has read the request, the database and the operator may stop for ever.
`runs`: started requests go on, a run ends within `MAX_CHAT_RUN_DURATION` (10
minutes), a lost worker is replaced, and the caller polls every second
(`hostedTransport.ts` `recoverInterruptedRun`), for longer than a run may last
(12 minutes). The client is never assumed to stay connected;
`AbandonedRunsAreTold` promises nothing once a receipt could not be written.
`queue`: every task goes on (a run ends by its deadline, `FoundrySupervisor.run`)
and a stopped service is started again; nobody has to submit. `bridge`: the event
loop and its timers, the exit of a child being noticed, and a live worker reading
its pipe. That the worker answers or exits by itself is not assumed. The last
assumption is needed because `stdin.drain` is awaited before `call_timeout`
starts. `deploy`: the job's thread, and the timer that ends a command
(`_run_workflow_step`, `timeout`); that a child succeeds, that Fabric ends a run
or that anybody resumes a job is not assumed. `asked`: the awaits that listen to
the signal, the digests, the answer to a poll, and a service that ends the runs it
admits (its deadline). It also assumes that a sign-in ends. The code promises
that of no interactive sign-in; without it a stopped question may never end, which
is finding 9 (`HostedConversation_stopped` has the same fairness without it). No liveness is
claimed for cards, because a hosted decision has no timer.

## 4. Findings

In parentheses, the run or the configuration of Section 3 that shows it.

1. **A blocked receipt beside a created order** (`blocked`). `writeAttempted` in
   `local-fabric-sources.mjs` describes one call; the receipt made from it is the
   card's. A call that timed out may have created the row; a later call whose
   sign-in or read fails, or whose read comes before the commit, reports
   "no SQL write was attempted", and `decide_work_order` saves that for good. The
   order is not duplicated (`OneCreation` holds), but it is denied. What remains
   true, and is proved, is weaker: the call that was itself allowed to create is
   answered "blocked" only when nothing was sent.
2. **A disconnect can lose the terminal receipt** (`lost`). `stream_run` detaches
   its continuation only if the task is still running. If the task has just
   failed, and the generator is suspended in its 250 ms wait or at a terminal
   event it yields before it saves the failure, the disconnect skips both the
   except branches and the continuation; `result` then answers 202 on that worker
   for ever. `AbandonedRunsAreTold` holds for clients that leave while the run is
   executing.
3. **A discarded worker's reader fails its successor's calls** (`stale`).
   `_read_responses` clears `_process` only if it is still its own, but calls
   `_fail_pending` in any case, and the table is shared. When a new worker is
   started while the old one is being closed without the lock (the lifespan's
   release, or a call cancelled inside `aclose`), calls that the new, live
   worker serves fail with "Local source process exited before returning a
   response". For a decision such a failure is an uncertain answer, which a
   reconciliation resolves: in `WorkOrderDecision` it is a `GiveUp`, and
   `OneCreation` holds across it. `PendingIsServed` still holds, because the
   failed calls leave the table. One of the two disturbances is needed: as long as
   the bridge is not released and the configuration does not change, however calls,
   crashes, bad output and cancellations fall together, `ExitIsTrue` holds
   (`ExitIsTrueUntilDisturbed`, Section 5).
4. **An interrupted specialist call can make its run fail for ever**
   (`recovered`). Receipts of an invocation are keyed by `self.delegations`, a
   counter in memory that starts at 0 in each process. A stop after the response
   is recorded (`foundry_supervisor.py:3784`) and before the handoff receipt
   (2994) leaves `specialist_attempt:<role>:1` behind; the resumed step repeats
   the call, gets another response identity and is refused by `RunJournal.save`.
   That is recorded as the run's terminal failure, although the README of the
   service describes the checkpoint as what an unfinished run resumes from. The
   same happens, without any call being interrupted, when a role is delegated
   twice and the run resumes at the second. Evidence is never replaced, so
   `AnswersRestOnReceipts` and `CompletedWorkIsNotRepeated` hold.
5. **A checkpoint can be resumed twice** (`resumed`). The worker's last save
   builds its record before and writes it after a resumption that came in
   between, and erases `resumedBy`. After a restart the first job is offered for
   resumption again, which a test of the repository asserts it is not. The second
   resumption does not submit a second setup run beside an active one
   (`OneActiveRun` holds, and `OneCommand` within one server), but it repeats
   steps that the first resumption has completed.

6. **Disabled writes deny a create that was sent** (`disabled`). A service
   started without its write tools answers every approval that has no receipt
   with "no SQL write was attempted", and does not look at the intent of an
   earlier process whose create may have been committed. The card settles and
   offers no reconciliation.
7. **A failed question leaves the run before it** (`kept`). The service's README
   says that failed runs clear the preceding run identity; the transport does it
   for 404 and 409 alone, deliberately by its own comment. `FollowUpsAreVisible`
   holds: what the next question continues is still on the screen.
8. **An old card can submit** (`chats`). The version of the conversation is
   compared at the click, and New chat is possible while the decision signs in.
   The decision is the operator's own and for the draft they saw; what does not
   hold is that a reset keeps it from being sent.
9. **Stop does not end a sign-in** (`stopped`). Credentials are awaited without
   the signal and without a timer. Until the sign-in ends, the lane stays busy and
   refuses new questions and a new chat. Nothing is sent afterwards
   (`NothingIsSentAfterStop`).
10. **A reconciliation can overtake its decision** (`unsent`). A decide opens its
    sources before it takes the card's lock. If the browser loses that request,
    "Check original submission" may come first, is told that no submitted decision
    exists, and the card settles as blocked; the decision then goes ahead.
11. **A visit elsewhere forgets what a card knows** (`visited`). Transcripts
    outlive a page, the state of a hosted card does not. No second order results
    (`CardsAreTrue`, `KeepsCards`), but the operator is offered a decision that was
    already taken, or is still on its way.

Read, but not decided by a run: `HydroOperationsService/README.md` also says that
a browser disconnect cancels abandoned work, which the detached continuation
contradicts; a failure receipt can be saved beside a committed answer on the
hosted path; a Data Agent pass-through that stops between its evidence
(`foundry_supervisor.py:5035`) and its answer (5039) asks again and then meets its
own evidence receipt; and a child of the setup application that outlives its
server can submit a run that it had checked for before.

## 5. Proofs

For all constants that satisfy `ConstantsAssumption` of each module:

| Module | Theorems |
|---|---|
| `DurableReviewProofs` | `TypeCorrect`, `ReceiptsAlwaysAgree`, `DecisionAlwaysResumable`, `RecordsStayFinal`, `StepsNeverRepeat`, `WritesStayCovered`, `ReviewKeepsPromise` |
| `WorkOrderDecisionProofs` | `TypeCorrect`, `AtMostOneCreation`, `ReceiptsStayTrue`, `DecisionKeepsCard` |
| `DelegatedStreamProofs` | `TypeCorrect`, `InterruptedStaysOrphan`, `ToldStaysRecorded`, `LeaseAlwaysCoversRun`, `RunKeepsOutcome` |
| `SupervisorQueueProofs` | `TypeCorrect`, `AlwaysOneOutcome`, `AlwaysAnswersTheRequest`, `NoRunIsEverLost`, `RestartAlwaysFits`, `SettledRunsAlwaysRest` |
| `SourceBridgeProofs` | `TypeCorrect`, `PendingIsAlwaysServed`, `NoWorkerIsEverLeaked`, `ConfigurationIsAlwaysFollowed`, `ExitIsTrueUntilDisturbed` |
| `SupervisorRunProofs` | `TypeCorrect`, `ProgressStaysCheckpointed`, `AnswersAreGrounded`, `CallsAreNotRepeated`, `JournalStaysWritten`, `SettledRunStaysSettled`, `RunExecutesItsTask` |
| `SetupJobProofs` | `TypeCorrect`, `FullDeployIsExclusive`, `CancellationIsHonoured`, `SetupRunsAreExclusive`, `DependenciesAreSound`, `AcceptedRunsStayWatched`, `ResumedCheckpointsAreFinal` |
| `HostedConversationProofs` | `TypeCorrect`, `ShownIsCurrentAlways`, `BusyIsOneTaskAlways`, `AnswersAreTheirOwnAlways`, `FollowUpsAreVisibleAlways`, `NothingSentAfterStop`, `DecidedOnceAlways`, `CardsAreTrueAlways`, `CardsAreKept` |

The assumptions only separate `None` and `Uncovered` from data and give the
bounds their types; `DelegatedStream` and `SupervisorQueue` also take `Runs` to
be finite, so that a capacity is a count, and `SupervisorRun` assumes that `None`
is no task of the queue it maps to (`QueueAssumption`). Each proof rests on an
inductive invariant `IInv`, a conjunction of named parts at the end of its
module. `RecordsStayFinal` and `AlwaysOneOutcome` have no run of their own:
`KeepsPromise` and `SettledRunsRest` imply what they say of a run.

*Durable review.* The properties are not inductive: that a waiting run can be
resumed depends on what its last task had checkpointed. `TaskInv` ties the three
places a run lives in. A task that executes belongs to a run in status `running`
of the deployed source; its graph only extends the newest checkpoint; unless a
save is open or has failed the two are equal; and once the row holds a proposal
the checkpoint is its approval request. `WellFormed` carries the expiry bound
through the graph. The action properties and the refinement follow from `IInv`
in the state before the step.

*Work-order decision.* The one call with `create` set is unique (`OrderInv`),
because `intent` is journalled before the lock is released, and `JobInv` follows
its job: before the write nothing has been sent, and only that job writes.

*Hosted runs.* `FollowerInv` says who follows a task (its handler, or else its
continuation) and that the follower holds the lease; `ReceiptInv` says that only
the worker that admitted a run executes it, and that a run somebody still follows has no failure
and its caller has been told nothing but its answer. That is what `RunKeepsOutcome`
needs: whichever of handler, continuation and poll writes next finds the receipts as
`HostedRun` wants them. `AcquireUnchecked`, `DisconnectClosing` and `FailedUnsaved`
show what the parts are needed for.

*Supervisor queue.* `TaskInv` says that a task carries the request on disk and
that its progress agrees with its receipts: what waits or runs is unsettled, and
what is over is settled or `unrecorded`. `RestartFits` then follows from
`NoRunIsLost`: unsettled runs are tasks while the service is up, the table of
tasks is bounded, and a stop changes no receipt.

*Source bridge.* `PendingIsServed` is inductive because a worker never leaves
`process` without `_fail_pending`; `CallInv` says that whoever holds the lock to
start a worker finds none. For `ConfigurationIsFollowed`, `WorkerInv` orders the
two readings of the environment: `bound <= started <= configuration`, so the
comparison of `_ensure_worker` can be wrong only by discarding a good worker, and
the call that resumes in `Started` writes to a worker that is not older than its own
`bound`.
`ExitInv` adds what finding 3 leaves: until a disturbance (`Undisturbed`) a worker is
replaced only after its exit was seen, by a call that holds the lock and cannot leave
`aclose` before the old reader is done (`ReaderIsAwaited`), so the reader that fails
the pending calls is their own worker's.

*Supervisor run.* `PositionInv` says how far memory may be ahead of the
checkpoint in each place of the code, `TurnInv` that a turn on its way to
executor `k` holds exactly the journal's receipts before `k` (`Upto`), and
`JournalInv` the same of every saved stage. Without `healthy` in the guards the
distance would grow by one executor per failed save; `CheckpointIgnored` shows
it. The refinement follows from `PositionInv`, by cases of `pc`. The actions write
some receipts without the check of `RunJournal.save` that refuses another value
(`SaveHandoff`, `Verify`, `SaveAnswer`, the failure); `JournalStaysWritten` and
`SettledRunStaysSettled` show that the check would not have refused: no key is ever
given a second value, and a run with an outcome writes nothing more.

*Setup job.* `OneActiveRun` is inductive with `SubmissionInv` (a job submits at
most once, so a run is named after its job) and with what `ChildInv` says of a
child that has found the pipeline idle. `DependenciesAreVerified` needs `Claims`
of every record, also of stale ones on disk and in `snapshot`: what a record says
of Fabric is true and stays true, because definitions in the workspace only get
newer and a run that has ended does not change. That is why finding 5 costs
repeated work but no wrong deployment. `AcceptedRunsAreWatched` speaks of every
job that resumed another, so it needs `WatchInv` on top of `IInv`: a record names
an accepted run only when all that precedes setup is done (`Accepted`); what a
resumed job left on disk keeps its run, state and completed commands, even when
its last save comes late (`Left`, which makes `ResumedCheckpointsRest` an
invariant step); and the job that resumes it starts its setup command past the
submission (`Bound`).

*Hosted conversation.* What the screen shows depends on requests that began
earlier, so `SessionInv` says what each live request would paint: a session
belongs to one revision and has one live request at a time, and the current one
holds the history that is shown. `RunInv` says that a request knows no run but
its own, which is why a recovery cannot bring another question's answer; it fails
without the reset of `interruptedRunId` (`KeepInterrupted`). `CardInv` follows a
card's decision: it is sent before it is reconciled, and an outcome is painted
only from a receipt of the same decision. The refinement follows from `CardInv`
in the state before the step.

Only model-checked: liveness (`Settles`, `DecisionsAreAnswered`,
`AbandonedRunsAreTold`, `AcceptedRunsSettle`, `CallsEnd`, `JobsEnd`,
`InterruptedRunsAreShown`), which TLAPS cannot prove under fairness.

## 6. Not modelled, and what could follow

The map covers the control of eight components, about a fifth of the lines of the
files they are in. It is a small part of the repository as a whole: most of its
lines are notebooks (twice, as `.py` and `.ipynb`), prompts, presentation and user
interface, which transform data or call external services in a straight line and
have no interleaving or failure protocol to model.

- *Foundry supervisor*: choice of a plan, validation of reports, repair rounds,
  native pass-through, clarification and conversation.
- *Source tokens* (`source_auth.py`): parsing and cryptography. The cache of
  signing keys has refresh limits (30 s and 300 s) that a model could check.
- *Native clients, presentation, root-cause reports, contracts*: pure functions
  or single calls; contracts appear where their validators constrain a workflow.
- *Browser*: `ApprovalStore` (90 s phase timeouts against late writes), the direct
  and battle lanes, the sign-in queue, data services and pages. `ApprovalStore`
  would be the next module; after it, `HostedConversation` composed with
  `DelegatedStream` and `WorkOrderDecision` in place of their short forms here and
  of the fair `Poll` there.
- *Setup application*: single-command jobs, settings, sign-in and file serving.
- *Deployment scripts* other than `run_pipeline.py`: sequential upserts. Their
  retry rule (`http_retries.py`: reads are retried, ambiguous mutations are not)
  matters to Full Deploy only through a submission that was accepted without an
  answer, which `SetupJob` has.
- *Notebooks, pipelines, environments*: batch data preparation inside Fabric.

`SupervisorQueue` keeps more than `HostedRun` (`OneOutcome`: no retraction), so one
specification of a run's outcome for both services would need that difference to
be resolved first.
