# KubeSynapse: TLA+ models, checks and proofs

KubeSynapse runs AI agents and workflows of agents on Kubernetes. A FastAPI gateway takes
requests and keeps a database; a kopf operator turns custom resources into Kubernetes objects;
worker Jobs execute the steps of a workflow; runtimes (one pod per agent) talk to the models; a
web console shows and edits all of it. This directory models the parts where concurrency, failure
and order decide what happens: how one `AgentWorkflow` gets from its creation to its end, how a
runtime shares one process among requests, how the executions of webhooks are claimed, and the state
that the web console keeps of its own.

Paths below are relative to the root of the repository. "Checked" means model-checked with TLC on
the instance named in a `.cfg`; "proved" means proved with TLAPS for every value of the constants.

## 1. Inventory

### Components that the models cover

| Component | State it keeps | Operations | What is hard about it |
|---|---|---|---|
| Gateway, workflow requests (`api-gateway/routers/workflows.py`, `admin.py`) | none of its own: it writes the `AgentWorkflow` and `AgentApproval` resources | trigger (replace the resource, then reset its status), retry-failed, cancel, decide an approval | every request reads, then writes; the second call of trigger is best effort; the replacement removes labels and annotations that others rely on |
| Workflow controller (`operator/controllers/workflow_controller.py`) | none: each handler works on the copy of the status it was called with | create/update/resume handler, cancellation handler, watchdog timer, `enqueue_workflow_job` | handlers of one object are serialised by kopf, timers and approval handlers are not; between two calls to the API server everything may change; a handler that fails is called again with a fresh copy |
| Approval controller (`operator/controllers/approval_controller.py`) | none | `on_approval_decision` | finds the workflow by a label that a worker sets after the phase |
| Status projection (`operator/controllers/status_projection.py`) | one active row per generation in the database | mirror phase and run id | the worker's check for a conflicting run reads it, possibly late |
| Worker Job and pod (`operator/services/k8s.py`, `operator/worker.py`) | artifact file per generation on a volume, lease, status patches | claim, load, execute, save, report, pause, fail, leave | two pods per Job (`backoffLimit: 1`), deletion under a live pod, crash between any two writes |
| Worker lease (`operator/worker.py`, 231-360) | a Kubernetes `Lease` per workflow and generation | create / read / inspect the holder's Job / replace; renewal thread; release | the two pods of a Job use one identity; renewal and release do not look at the holder |
| Step scheduler (`run_workflow_worker` in `operator/worker.py`, `operator/utils.py`) | completed, skipped, frontier, outcomes in memory; completed results in the artifact | validate the graph, choose a frontier, execute it in threads, settle it, resume | steps of one frontier end in any order, one may raise, one may wait for an approval, and the pod may die anywhere |
| Circuit breaker and retry loop (`operator/circuit_breaker.py`, `operator/services/k8s.py`) | state, failure and success counts, time of the last failure | `is_open`, `record_success`, `record_failure`; `_exponential_backoff` | each entry point is under a lock, the call between them is not: results arrive in another state than the one that admitted them |
| Pi runtime bridge (`pi-runtime/pi_bridge.js`, `session_state.js`) | one Pi process and its FIFOs, pending responses, active invocations, sessions | `/invoke`, `/invoke/stream`, `/cancel`, start, restart and exit of the process | all invocations share one process, which is restarted under them for another model; no line of its output names an invocation |
| Executions of triggers (`api-gateway/routers/webhooks.py`, `auth_store.py`) | a row with a status per execution | record, claim, report | a claim that reads and then writes, callers that give up, an execution that becomes pending again |
| Sessions of the browser (`auth_store.py`, `routers/auth.py`, `web-ui/src/lib/api.ts`) | session rows, one cookie per browser, an access token per tab | login, refresh, logout | a refresh is three transactions, and tabs that share a cookie refresh at once |
| Workflow composer (`web-ui/src/components/workflows/WorkflowComposer.tsx`, `lib/composer-utils.ts`) | the canvas, the flag of unsaved work | add, connect, rename, delete, save | edits go on while a save is under way; a rename reaches every edge |
| Lists of workflows (`web-ui/src/contexts/WorkspaceContext.tsx`) | list, selection, polling | two polls, five operations, change of namespace | answers are merged by name as they arrive, also late ones |
| Notifications (`web-ui/src/contexts/NotificationContext.tsx`, `routers/chat.py`) | a stream with a memory, a list, a stored list per namespace | poll, receive, load, save, clear | effects run in the order of the code, every event is handled twice |
| Log panel (`web-ui/src/components/shared/ResourceLogsPanel.tsx`) | shown and buffered lines, a timer | fetch, stream, flush, pause | runs of the effect share refs with their successors |
| Changed files (`web-ui/src/lib/unifiedDiff.ts`) | none | parse a diff, undo it | line numbers of several hunks |

How they interact:

```
 gateway --replace / patch status--> AgentWorkflow <--patch status, label-- worker pod
    |                                    |    ^                                |  |  |
    +--patch--> AgentApproval            |    +--patch copy / queued-- operator|  |  +-> Lease
                     |                   +--change event, timer ------->  |    |  +----> artifact
                     +--change event----------------------------------->  |    |
                                                  create / delete Job ----+--> Job controller
```

The one shared record of that picture is the status of the `AgentWorkflow`. Four kinds of writers patch it with
JSON merge patches and no precondition. The worker's steps end in an `/invoke` of a runtime; the console only talks to the gateway, and each of its parts that is
modelled keeps its state to itself.

What makes each component correct:

- *Lifecycle*: workers of one generation execute one at a time; "completed" means that the
  results are on disk; a workflow that waits can be found by the approval that it waits for; a
  workflow ends or waits; an approved one resumes; automatic retries are bounded.
- *Lease*: a pod at work is alone and keeps its lease, unless something happened that a lease
  cannot protect against.
- *Scheduler*: dependencies first, nothing executed twice, no result lost, no branch executed
  that was not taken, no "completed" with steps left, no false "dependency cycle".
- *Breaker*: late results neither wipe its counts nor end its open period.
- *Pi bridge*: every request ends; a prompt reaches a Pi of the model it names; requests made in
  turn do not disturb each other; no process runs on that nobody will stop.
- *Executions of triggers*: of those who claim a pending execution, one succeeds.
- *Console*: the browser keeps a cookie that works; a canvas never becomes a graph that the operator
  refuses for a cycle, and unsaved work is flagged; lists, notifications, logs and the old text of a
  file come to be, and stay, those of the gateway.

### Components that are not modelled

| Component | State and operations | What is hard | Why it is not modelled |
|---|---|---|---|
| Incidents (`api-gateway/routers/incidents.py`, `operator/controllers/incident_controller.py`) | incident status, escalation timers in memory | unlocked status updates, timers that outlive the incident | read; section 5 has what its timers do, planned (`Incidents`) |
| OpenCode and Vibe runtimes (`opencode-runtime/`, `vibe-runtime/`) | conversation with a model server, supervised subprocess, memory store | the model server is outside the repository | mostly I/O; the supervisor and the approval client are candidates |
| Webhook controller (`operator/controllers/webhook_controller.py`) | dispatches under way | a claim, a dispatch and a report, each a call that may fail | every call it makes to the gateway lacks a token and is refused, so it changes nothing (section 5) |
| Agent, tenant, policy, MCP controllers, manifests (`operator/controllers/`, `operator/builders/`) | none | | transformations of a specification into objects, idempotent |
| Observation controller and signal watch | reports under derived names | | periodic queries; the slot of a cycle is taken under a lock |
| Reconciliation wrapper (`operator/reconcile.py`) | none | | used: `HandlerFails` takes from it that a failed handler is called again |
| Authentication, users, optimization studies, traces, migrations | rows | | access control and records; the life of a browser session is modelled |
| Agent read cache (`api-gateway/_core.py`) | cached agents, a few seconds each | a read before an invalidation stored after it | bounded by its time to live; the Redis cache of `agent_cache.py` has no caller |
| Console: chat (`web-ui/src/contexts/ChatContext.tsx`) | sessions, messages, invocations | effects and late answers that use an agent captured earlier | read; a model of it would restate the disagreements of section 5, and few of its properties hold |
| Console: pages, API client, documentation pages | state of forms and views | | presentation and the parsing of answers |
| Credential proxy, sidecars, CLI, clients, charts, demos | none or configuration | | I/O. The limits (`backoffLimit`, timeouts) come from here |

`PROJECT.json` has one entry for each of these, and under `hazards` every place in the code where
one of the difficulties above bites, with the properties that cover it or the reason why none does.

How much of the code that is. The lifecycle, the lease, the steps, the breaker, webhooks and the
sessions of the gateway are Python; the bridge and the console are JavaScript and TypeScript. Of the
80,000 lines of the latter by far the most are markup, forms, documentation pages and the
parsing of answers, which hold no state over which a property could be stated. The modules cover the
files in which the console keeps state across events, and leave the share of lines small.

## 2. Modules

| Module | Models | Used by |
|---|---|---|
| `WorkflowStatus` | the status record and what each writer leaves in it | `WorkflowLifecycle` |
| `WorkflowLifecycle` | gateway, operator handlers, Jobs, pods and workers around one workflow | `MCWorkflowLifecycle`, `WorkflowLifecycleProofs` |
| `WorkerLease` | the lease protocol, call by call | `MCWorkerLease`, `WorkerLeaseProofs` |
| `WorkerMutex` | abstract: what a lease promises | `WorkerLease` and `WorkflowLifecycle` (both implement it) |
| `StepScheduler` | the steps of one run, in threads, over several pods | `MCStepScheduler`, `StepSchedulerProofs` |
| `CircuitBreaker` | the breaker and the retry loop with any number of threads | `MCCircuitBreaker`, `CircuitBreakerProofs` |
| `PiBridge` | the bridge: handlers, timers, process, sessions | `MCPiBridge`, `PiBridgeProofs` |
| `TriggerExecutions` | the row of an execution and the callers that claim it and report on it | `MCTriggerExecutions` |
| `SessionRefresh` | the cookie and the sessions of one browser | `MCConsole`, `ConsoleProofs` |
| `ComposerCanvas` | the canvas, its saves and its flag | `CanvasAlgorithms`, `ComposerCanvasProofs` |
| `CanvasAlgorithms` | `hasCycle` and `autoLayout` as the code computes them | `MCConsole`, `ComposerCanvasProofs` |
| `WorkspaceSync` | the list of workflows and its polls | `MCConsole` |
| `NotificationFeed` | the stream, the feed and its storage | `MCConsole`, `ConsoleProofs` |
| `ResourceLogs` | fetch, stream, buffer and timer of the log panel | `MCConsole`, `ConsoleProofs` |
| `UnifiedDiff` | parsing and undoing a diff | `MCConsole`, `ConsoleProofs` |
| `Recursion` | nothing of the code: lemmas on induction, and on loops that repeat a step until it does nothing | `StepSchedulerProofs`, `ComposerCanvasProofs`, `ConsoleProofs` |

The models overlap where one abstracts the other. `WorkflowLifecycle` takes the acquisition of the
lease for one step (`WorkerClaim`) and the steps of a run for "all done, some failed, or waiting".
`WorkerLease` opens up the first: every call to the API server is a step there. `WorkerMutex` is where
the two meet: `WorkerLease!MutexSpec` says that the calls keep its promise, and
`WorkflowLifecycle!GenerationMutex` that the one step of the lifecycle assumes no other. `StepScheduler`
opens up the second.

### 2.1 WorkflowStatus and WorkflowLifecycle

`st` is the status; a name such as `run`, `obs`, `job`, `pend` stands for `runId`,
`observedGeneration`, `workerJob`, `pendingApproval`. `failed` summarises `stepStates`. A Job is the
pair of generation and run that its name is made of (`operator/services/k8s.py`). `Merge` is a JSON
merge patch of one status over another: an absent or empty field keeps the live value.

| Actions | Code |
|---|---|
| `EventPickup`, `EventKill`, `EventCheck`, `EventPatch` | delivery by kopf; `on_workflow_phase_cancelled`; `run_workflow` up to its call of `enqueue_workflow_job` |
| `ResumePickup` | `resume_workflow` after a restart |
| `TimerFire`, `TimerRequeue`, `TimerAutoRetry`, `TimerIgnore` | `run_workflow_watchdog` |
| `ApprovalPickup`, `ApprovalDeny` | `on_approval_decision`; the workflow is found by its label or, when that call fails, in the list of all |
| `EnqueueSkip/Go/Create/Cancel/Queue` | `enqueue_workflow_job`: guard, Job creation, cancellation of the previous Job, status |
| `HandlerFails`, `OperatorRestart` | an API call that raises; the operator's pod is replaced |
| `PodStart`, `PodCrash`, `PodEnds` | Job controller and node (external) |
| `LeaseExpires`, `LeaseLapses`, `LeaseRenewed` | time, and `_renew_lease_loop`, on the lease of a generation |
| `WorkerBoot` ... `WorkerLeave` | `main` and `run_workflow_worker` in `operator/worker.py`, write by write; `WorkerAbort` is the shutdown check of the loop (line 3178), after the deletion of the Job or of the pod |
| `Trigger`, `TriggerReset`, `RetryCheck/Patch`, `CancelCheck/Patch`, `Decide` | the gateway's requests |

A handler `h[t]` carries `copy`, the status it was called with, and `gen`; every step after the first
may meet a live status that has moved on. Facts about kopf that the model relies on, taken from how
`operator/main.py` and the controllers use it: the handlers of one object's changes are serialised,
timers and handlers of another resource run beside them, what counts as a change includes
`status.phase` and `status.runId` (field handlers watch them), and a handler that raises is called
again. `trigger` uses a replacement (PUT), which removes the pending-approval label and kopf's own
annotation.

A lease expires when nobody is at work on its generation any more (`LeaseExpires`), because
`_renew_lease_loop` renews it every minute, whoever holds it. Under a worker it expires only when two renewals in a
row fail or come late, a rare event (`LeaseLapses`); a later renewal makes it fresh again, also in the
hands of somebody else (`LeaseRenewed`).

`disturbed` is a history variable, set by `Disturb` with every step: it has the generations of which a
worker has been at work with its Job deleted or its lease expired, until the last worker at work there has left. These
two are what the lease does not protect against here, where a Job has one pod; `WorkerLease` has the
third, a second pod of the same Job.

Abstractions: one pod of a Job at a time (`WorkerLease` has two); a failing API call in a worker is
a crash of its pod; one workflow in one namespace; a Job name is used again only after its old pod
is gone.

### 2.2 WorkerLease and WorkerMutex

`pc[p]` follows a pod through `acquire_worker_lease` (`create`, `read`, `inspect`, `replace`), its
work, and one iteration of `_renew_lease_loop` (`renew`). `seen` is the lease it has read; `current`
has the pods whose reading is still current, which is what the resource version decides when a
`replace` is sent. `at` is the time sampled before the calls, which is what is written.
`disturbed` is a history variable: it has the pods that were, while at work, in one of three situations
the lease is not made for (it or its Job deleted, a second pod of its Job running, its lease run out), since
the workflow was last idle. `Delete` is that of a Job with its pods, or of a single pod that is evicted: either
terminates for a while, and an evicted one no longer counts in the `active` of its Job, so that
`lease_holder_job_is_active` may take the Job for over while the pod still works (`JobIsOver`). Where a
Job has one pod at a time, as in the lifecycle, an eviction is `PodCrash` or `WorkerAbort`.

`WorkerMutex` states the promise without leases: `Enter`, `Leave`, `Disturb`. `MutexSpec` maps
`working` to the pods at work and `excused` to `disturbed # {}`.

### 2.3 StepScheduler

`graph` is the workflow, chosen in `Init` among `Graphs` and constant from there on. `Sorted` and
`Reached` are the two halves of `validate_workflow_graph` (topological sort; connectivity), written as
recursive functions; a worker validates before anything else (`operator/worker.py:2933`), so
`GraphsAssumption` has only graphs that `ValidGraph` lets through. `Ready` is `ready_workflow_steps`; `Frontier` is the choice between ungated steps
and one gated step. `StartStep` and `EndStep` interleave the threads of the pool. `Settle` takes
the outcomes over and writes the artifact; `FrontierRaises` is the path on which an exception loses
them. `StartPod` resumes from the artifact; `skipped` is not in the artifact.
What a step does inside (prompts, its own retries, loops, reviews) is abstracted to how it ends.

### 2.4 CircuitBreaker

One action per entry point and branch: `AdmitThrough`, `AdmitFirstProbe` and `Reject` are `is_open`;
`Succeed`, `FailAndRetry` and `FailForGood` are what `_exponential_backoff` does with the result.
Time is a counter; `RecoveryTimeout` and the clock are in the same unit.

### 2.5 PiBridge

The bridge is one JavaScript thread, so an action runs from one await, timer or event of the code to
the next, and handlers interleave exactly there. `pc[r]` follows a request through
`ensurePiWithConfig`, `sendToPi` and the poll of `/invoke` or the events of `/invoke/stream`;
`proc`, `io`, `fifos`, `starting` and `config` are the module's variables; `table` is
`ACTIVE_INVOCATIONS`, `pending` is `pendingResponses`.

| Actions | Code |
|---|---|
| `RestartForModel`, `StartForRequest`, `WaitForStart`, `SendAtOnce` | a request up to its first await |
| `StartAfterStop`, `StoppedExit`, `StopGivesUp` | `stopPi`: the exit, or eight seconds without one |
| `Spawn`, `Ready`, `OwnExit` | `startPi`: the FIFOs, the process, its exit |
| `Accept`, `Refuse`, `Delta`, `MessageEnd`, `AgentEnd`, `PiError` | `handlePiOutput` |
| `AckTimeout`, `PollTimeout`, `AbortOver`, `ModelTimer`, `Keepalive`, `Finish`, `ClientLeaves` | the timers and ends of the handlers |
| `Cancel`, `CancelSession` | `/cancel` |

Pi itself is external: it reads prompts in order, accepts or refuses each, writes text and ends, and
may exit or say nothing at any time. Left out: a spawn that fails for want of the binary, output
that is not a line of the protocol but names a pending id, output that arrives after an exit, the
legacy `/prompt`, `/events`, `/question`, uploads and the shutdown. Pi is assumed not to refuse an abort; the
bridge would take that refusal for one of every active invocation (line 695).

### 2.6 TriggerExecutions

`status` is the row, `request[c]` what an authenticated caller has asked for: a claim, or a new status.
A transaction is two steps, `Read` and `Write`, because the code reads the row without a lock and
PostgreSQL lets others commit in between. `Answer` is the response; `Lose` a caller that gives up or a
gateway that goes away, whether or not the row was written. `turn` counts how often the execution
became pending (a report may make it so again), so that a second claim after a replay is told
apart from two claims of one pending execution. The operator is no caller of this model: its subscriber and its timers
send no token, so that the gateway refuses them and nothing is dispatched (section 5).

### 2.7 SessionRefresh

`call[c]` is a refresh or a logout under way; a refresh is `Send`, `Verify`, `Revoke`, `Create` and
`Renewed`, which sets the cookie to whatever was created, even if the browser has got another one
since. Tabs are callers of their own: what `lib/api.ts` joins is the refreshes of one tab, and not
the one that restores a session at the load of a page.

### 2.8 ComposerCanvas and CanvasAlgorithms

A step is its name, an edge a pair of names. `HasCycle` is written as "every closed set that holds the
target holds the source", which a proof can use; `CanvasAlgorithms` has the loop of the code
(`Finds`) and the loop of the layout (`Depths`) as recursive functions over the number of iterations that
do something. The run compares them with it on every canvas that is reached, the proofs on all. `forgiven` is a history variable with the ways in which the page gives up work unflagged:
a save that fails, one that is overtaken by an edit, and an edge deleted by key. A save is stored and answered in one
step, so saves that Ctrl+S sends while another is under way (line 533) are answered in the order in which they are
stored.

### 2.9 WorkspaceSync

`request[s]` is a request in flight in one of the slots: a list poll, the poll of the selected workflow,
an operation of the user. `Render` stands for a render with all its effects; `Preserved` is the rule
by which a list does not overwrite the workflow that is being polled. Answers are those of the moment in
which the gateway serves them, and arrive at any later one.

### 2.10 NotificationFeed, ResourceLogs and UnifiedDiff

In `NotificationFeed` a state setter queues an update and a `Render` applies the queue in order: `next` is
what the list will be then, and `due` says that something is queued. `RunEffects` runs the effects of
a render in the order of the code. Assumed: the user acts on a page
that has settled, and tabs do not share storage (without either, section 5). `sent` numbers the
events, so that "newest first" can be said. `kept` is what has arrived for the namespace shown and nobody has
cleared. An event that arrives between the render and the effects of a change of namespace is shown
nowhere; `kept` leaves it out.

In `ResourceLogs` every run of the effect has a record of its own; `lines`, `pending` and `timer` are
shared by all of them, as the refs of the component are.

In `UnifiedDiff` an edit is a sequence of kept, removed and added lines, `Patch` writes it as a
unified diff does, and the code's two functions are applied to that. `Loop` is the loop of the language over a
sequence, with what its body makes of the value so far; `Spliced` is `splice`, which cuts what lies beyond
the end. `Context` is at least one line: the diffs of the runtimes are written with the default of their
tools, three. Left out are two edits for which the code is wrong (section 5): a hunk without context,
and a removed line that looks like a header.

### 2.11 MCConsole

The six parts of the console share no state, so one run checks them all: `part` says which one moves
in a behaviour, the others stay as they start. The parts with theorems are extended, so that the run checks
the very definitions that these state; the lists of workflows are instantiated. The number of states is the sum of theirs.

## 3. What the runs check

| Run | Instance | Question | Result |
|---|---|---|---|
| `breaker` | 3 threads, threshold 2, recovery 2, clock to 5, 5 failures, 2 attempts | do late results corrupt the breaker? | `OpenedForCause`, `ClosedBelowThreshold`, `TrialsWaitForRecovery`, `OpenUntilRecovery` hold |
| `lease` | 2 pods of one Job and 1 of another, duration 1, clock to 3 | is a pod at work alone, and does it keep its lease? | `OneWorker`, `LeaseNamesWorker`, `MutexSpec` hold |
| `lease_lock` | the same | does an undisturbed pod keep its lock whatever happens to others? | violated: `WorkersKeepTheirLock` |
| `lifecycle_operations` | 3 runs, 2 generations, six mixes of rare events | are workers kept apart, is "completed" on disk, and does the lifecycle use the lease as it is promised? | `OneWorkerPerGeneration`, `CompletedIsOnDisk`, `GenerationMutex` hold |
| `lifecycle_approval` | 1 run, approval needed or not, 2 decisions, a lease that lapses, fairness | is a waiting workflow findable; does a workflow end or wait? | `WaitingIsLabelled`, `Finishes` hold |
| `lifecycle_approved` | 1 run, 1 decision, fairness | does an approved workflow resume? | violated: `ApprovedResumes` |
| `lifecycle_auto_retry` | 3 runs, `maxAttempts` 1, 2 ticks | are automatic retries bounded? | violated: `AutoRetriesBounded` |
| `scheduler` | every valid workflow of 3 steps with at most one gated and one conditional step, 2 threads, 2 pods, fairness | order, resumption, branches, termination | all eight properties hold |
| `pi_bridge` | 2 requests of one session, one of them a stream, 2 models, fairness | does every request end, meet the right model, and leave no process or record behind? | `SerialRequestsAreServed`, `ServedByRequestedModel`, `NoStrayProcess`, `OnlyUnacceptedLeak`, `EveryRequestAnswered` hold |
| `console` | six parts, see Bounds; fairness of the polls | is what the console keeps and shows right? | two properties of the canvas, two of its algorithms, and `AlwaysRenewable`, `FeedsAreKept`, `LastChangeIsReported`, `LinesAreOfSource`, `NothingWaitsUnseen`, `OriginalIsRecovered`, `ShowsServerState` hold |
| `webhook_claim` | 1 execution, 2 authenticated callers, pending twice | does one of two claims succeed? | violated: `OneClaimSucceeds` |
| `scheduler_skipped` | 4 steps: a condition, its two branches, a step after one of them; 2 pods | does a branch not taken stay off? | violated: `BranchNotTakenStaysOff` |

Every property of a passing run has a mutant in `PROJECT.json`: a plausible slip in the code it
is about (a dropped guard, a swapped order, an off-by-one) with which the run finds it violated.

### The five disagreements

1. **`lease_lock`.** `release_worker_lease` deletes the lease by name (`operator/worker.py:311`).
   When a Job has been deleted, its successor may take the lease while the old pod still
   terminates; the old pod then deletes the successor's lease, and a third pod may start. The
   renewal thread cannot notice: a missing lease is logged. For that reason `OneWorker` and
   `OneWorkerPerGeneration` carry their premises.
2. **`lifecycle_approved`.** `on_approval_decision` calls `enqueue_workflow_job`, whose guard
   (`workflow_controller.py:470`) returns because the live phase is `waiting-approval`. Nothing is
   created and nobody tries again.
3. **`lifecycle_auto_retry`.** The retry counter is put into the summary of a status whose
   `observedGeneration` is `None`; `enqueue_workflow_job` keeps the summary only of a status of the
   same generation (`workflow_controller.py:553`), so the count is always 0.
4. **`scheduler_skipped`.** `skipped` starts empty in every pod (`operator/worker.py:2955`) and a
   conditional step that has completed is not evaluated again.
5. **`webhook_claim`.** `claim_trigger_execution` reads the row (`auth_store.py:4425`) and then writes it by its
   id; two authenticated callers may both find it pending and both be answered `claimed: true`, against
   "only succeeds if the execution is still pending" (`webhooks.py:704`) and "returns 409 if
   another operator already claimed it" (`docs/api-reference.md:1042`). No dispatch follows from it at this
   commit, because the operator's own claims are refused (section 5).

### Bounds

- *Lifecycle.* The bounds are the `Budgets`: how often each rare event happens in one behaviour.
  A run without rare events has few interleavings, and each defect or guard we know of needs at most
  two kinds of rare event, so `Operations` combines kinds that meet in the code: watchdog with a
  pod that dies and one that overtakes its handler; a failing call with a restart of the operator;
  a trigger with a failing call; a cancellation with a retry; a trigger, which forgets the Job that
  runs, with a lease that lapses under its worker; and a trigger with another spec. Three
  runs give a first run, one that replaces it and one that meets both. Larger products exceed the time a
  run should take, not what the model can express. No mix has a decision together with a failing call, so
  that the list of all workflows to which `ApprovalPickup` falls back is in the proofs of `OneWorkerPerGeneration`,
  `CompletedIsOnDisk` and `GenerationMutex` only, which are about every mix. `TimerRequeue` allows for an old status at any
  time instead of counting seconds, which is more than the code does.
- *Lease.* Three pods of two Jobs is the smallest instance with a pod of the same Job, a pod of
  another one, and a third to gain from a lease that is lost. Duration 1 and four instants cover "runs
  out", "exactly as old as the duration" and "renewed". Proved without bounds.
- *Scheduler.* Three steps are enough for a chain, a fork, a join, and a condition with
  a branch and a sibling. The graphs are all those that the validation accepts, not a sample. Two pods
  give one crash, failure or approval at any point. Proved for any number of steps and pods, except
  `WorkerEnds`.
- *Pi bridge.* Two requests, one that names a model and one that does not, are enough for each to
  restart, join or be served beside the other; Pi may be started three times, once by each and at boot,
  so that the late exit of an older process meets a newer one.
- *Console.* Canvas: three names, every graph of up to three steps that the operator accepts to
  start from, one save under way (the edit that overtakes it is what matters). Proved for any number.
  Session: two callers and four sessions, so that two refreshes overlap with a login. Proved for any number.
  List: two namespaces, one name of a workflow in each, two operations, failures or changes by
  others in any order, a list poll, a workflow poll and an operation in flight at once. Notifications:
  two namespaces, a list of two, four changes by user, network or resources, so a list overflows and a
  namespace is left and entered again. Proved for any number. Logs: two sources, two lines each, a panel of three, so that the
  fetched and the streamed tail overflow it; two runs of the effect. Diff: seven lines with a
  context of one, the smallest with two hunks that both change the numbering.
- *Executions of triggers.* Two callers and one execution suffice for the violation.
- *Breaker.* Three threads: one admitted before the breaker opened, one that opens it, one that
  tries it. Proved without bounds on threads.

### Fairness

`WorkflowLifecycle!Fairness` is weak fairness of: kopf's deliveries and the steps of a handler that has
begun, the timer while it has ticks left, the Job controller starting pods, a worker that has begun
(except `WorkerProgress`, which may not go on for ever: steps have timeouts), the expiry of a lease that
nobody renews, and the answer to a request that has begun. Not fair: users, approvers, crashes, failing
calls, restarts. `StepScheduler!FairSpec` is weak fairness of the worker: its threads go on, and every
step has a timeout. A pod is not fair to start: `WorkerEnds` says that a pod that runs comes to an end.

`PiBridge!Fairness` is weak fairness of the handlers (their awaits have timers or polls) and of the two steps of a
start; Pi, its exit and the clients are not fair. `WorkspaceSync!Fairness` is weak fairness of the render and,
for each slot, of what goes on in it: an interval asks again, the gateway answers or the request fails, the
answer is merged. Failures, users and other writers are bounded; the property says what is shown when they
have come to rest.

`Finishes` is checked without rare events other than decisions and a lease that lapses, on purpose. It
does not hold with others; see below.

## 4. What is proved

All theorems hold for every value of the constants; they rest on the named `ASSUME`s of the
modules, which the runs evaluate.

| Theorem | Establishes | Inductive invariant |
|---|---|---|
| `BreakerTyped`, `BreakerCounts`, `BreakerBelowThreshold`, `BreakerTrials`, `BreakerStaysOpen` | types, `OpenedForCause`, `ClosedBelowThreshold`, `TrialsWaitForRecovery`, `OpenUntilRecovery` | `BreakerInv`: the three checked invariants and `StillOnTrial`, that a half-open breaker has not seen enough successes to close; without it the count may leave its range |
| `LeaseTyped`, `LeaseExcludes`, `LeaseIsWorkers` | types, `OneWorker`, `LeaseNamesWorker` | `Inv`: besides the two, `ReadingsCurrent` (a reading that no write has made old is what the lease holds), `ClaimsFree` (a pod that may still replace the lease does so only while nobody is at work, unless somebody was disturbed), and that every disturbance is on record until the workflow is idle. Without `ClaimsFree` a late replacement would have to be excluded at the moment it is sent, where nothing says what its reading was worth |
| `LeaseImplementsMutex` | `Spec => MutexSpec` | the same; each step of the protocol is an `Enter`, a `Leave`, a `Disturb` or a stutter |
| `SchedulerTyped`, `SchedulerDoesNotRepeat`, `SchedulerRespectsDependencies`, `SchedulerKeepsProgress`, `SchedulerPausesSafely` | types, `NotExecutedAgain`, `ResultsBeforeUse`, `ProgressIsKept`, `PauseLosesNothing` | `SchedInv`: `MemoryIsOnDisk` (what the loop takes for completed is in the artifact) relates memory and disk; `FrontierIsReady` and `GatedAlone` say what a frontier consists of |
| `SchedulerCompletesAll` | `CompletedRanAll` | `CountInv`: in a workflow with flat branches, no step is both completed and skipped, so the sum of the two cardinalities counts each once |
| `ValidationIsExact` | the two loops of `validate_workflow_graph` let exactly the graphs through that have no cycle and are connected | none: a statement about operators. `Repeats` (in `Recursion`) is a loop whose step adds to a set or does nothing: it is at rest after as many rounds as there are elements. A sort at rest that has not taken all leaves steps that wait for each other; a walk at rest that has not met all leaves a part without an edge to the rest. Conversely the round in which a step is sorted is a layer, and the lowest layer of a set is a step without a dependency in it |
| `SchedulerNeverStuck` | `NeverStuck` | from `ValidationIsExact` and `GraphStaysValid`: among the steps not yet counted one has no dependency among them, so it is ready |
| `CanvasSearchIsExact` | `SearchFindsEveryCycle` | the types of the canvas. The search is a loop that adds; at rest with an empty stack, what it has visited is closed and holds the target, so it is the set that `HasCycle` asks for; and whatever it visits is in every closed set with the target |
| `CanvasLayoutIsExact` | `LayoutFollowsDependencies` | `CanvasInv`: as long as a node has no depth, one of those without has only parents with a depth, since the canvas has no cycle, so the loop ends with depths for all; and what is placed is one below its lowest parent and stays |
| `CanvasTyped`, `CanvasStaysDag`, `CanvasFlagsWork` | types, `CanvasIsDag`, `UnsavedWorkIsFlagged` | `CanvasInv`: that edges lead between steps of the canvas, no cycle, and the same of every save under way. The lemma that carries it is `AcyclicConnected`: the set that the search from the target has visited is closed and does not hold the source, so no set of waiting steps can use the new edge |
| `LifecycleTyped` | types | `TypeInv`: the retry count of the resource is zero except in the copy of an automatic retry, and each automatic retry has minted a run, so the number of runs bounds their count |
| `LifecycleExcludes` | `OneWorkerPerGeneration` | `MutexInv`: the worker of an undisturbed generation is the holder of its lease, which is fresh (`LeaseNamesWorker`), so a lease that lapses does so under its holder and disturbs the generation, as does a worker whose Job is deleted; the disturbance lasts until the last one has left (`DisturbedWhileAtWork`); a pod has a Job |
| `LifecycleUsesMutex`, `LifecycleImplementsMutex` | `GenerationMutex`, and `Spec => Exclusion(g)!Spec` for every generation | the same; each step of the lifecycle is, for each generation, an `Enter`, a `Leave`, a `Disturb` or a stutter |
| `LifecycleSavesResults` | `CompletedIsOnDisk` | `DiskInv`: nobody knows of a generation that is yet to come, and no copy or worker says otherwise (`GenerationsPast`); a worker about to report has its results on disk (`ReportsWhatIsSaved`); once a run of the generation is reported completed, no undisturbed worker of it has begun (`NoneBegunAfterCompletion`). It stands on `MutexInv`: without exclusion another worker may write between saving and reporting |
| `LifecycleLabelsWaiting` | `WaitingIsLabelled`, from `Calm`: no rare event but decisions, leases that lapse, and pods that overtake the handler that queues them | `CalmInv`: the handler of the first change creates one Job and finds nothing to do afterwards (`EnqueuesOnce`, `OneRun`); a label is there only once the worker has left its pause, and stays, because that pod ends well and no other starts (`Labels`) |
| `BridgeTyped` | types of `PiBridge` | `TypeInv` there: the starts of Pi are the one at boot and at most one per request (`StartsCounted`, on the cardinality of those that may still start it) |
| `RequestedModelServes`, `ProcessesAreKnown`, `EndedHandlersLeave` | `ServedByRequestedModel`, `NoStrayProcess`, `OnlyUnacceptedLeak` | `BridgeInv`: `piStarting` keeps the starts apart and each has the model it wants (`OneStarts`); without an overlap there is at most one process, and none while the FIFOs are made (`OneProcess`); the table, the pending answers and the timers say where each handler is (`RecordsMatch`) |
| `SerialRequestsServed` | `SerialRequestsAreServed` | `SerialInv`: while requests are made in turn, all but one have had their good answer, the newest Pi has no prompt but that of the one at work (`OwnPrompts`), and nothing of it is left when its output is complete (`NothingLeft`); from that no output is of two requests (`Unmixed`) and the session is completed. A restart begins with empty FIFOs (`LaterPipesEmpty`) |
| `FeedTyped`, `FeedsStayApart`, `FeedsReportTheLast` | types, `FeedsAreKept`, `LastChangeIsReported` | `FeedInv`: where the newest notifications of every namespace are at each moment between a change of the namespace, its render and its effects (`ListsInStep`); only then may a stream be of another namespace (`EffectsTidy`); what is on its way comes after all that was kept (`WireInOrder`), and its last has the phase that was seen last (`LastIsLast`). `NewestAdded` says that an event added in front keeps a list the newest of one more, cut off or not |
| `LogsShowTheirSource`, `LogsAreFlushed` | `LinesAreOfSource`, `NothingWaitsUnseen` | `LogsInv`: earlier runs of the effect are cancelled and read no stream (`RunsTidy`), and before its tail is loaded nothing is shown (`LoadsFirst`). The lemmas on `Suffix` (the end of an end; appending to an end) carry what is cut from panel and buffer |
| `OriginalTextIsRecovered` | `OriginalIsRecovered` | `EditTypeOK` only: the rest is about what the functions make of an edit, by induction on its lines. Each block of shown lines is read back as one hunk with the numbers it was written with (`BlockRead`). What undoes is stated for the first lines of the edit, whatever text follows them (`Undoes`): the hunks read so far, undone from the last to the first, turn the new text of these lines into the old. A shortest beginning for which that fails would end with an unshown line, which both versions have, or with a block; the block's hunk is undone first, while all lines before it are still new, so its line number is right. A hunk that leaves no line of the new file names the line before it, and begins the file, since a later block begins with a line of context |
| `SessionTyped`, `SessionStaysRenewable` | types, `AlwaysRenewable` | `SessionInv`: besides the checked one, `Fresh`, that a session an answer is about to set has been created for that answer alone and is not revoked; without it a refresh could set a cookie that another has revoked |

Three proof attempts corrected what they were to prove. `CompletedIsOnDisk` used to ask for the results at
every write of any artifact. With more generations than the run has, a write for another generation
then meets what a disturbance, excused and over by now, has left of the current one. The property is
now about the writes of the status and of the artifact that the status speaks of. `GenerationMutex` took
the Jobs that are deleted at the moment for its excuse; a deleted Job that is created again
under the same name ended the excuse too early, hence the history variable `disturbed`. In
`NotificationFeed` the effects of a `Render` were a `CASE` two of whose guards could hold at once; TLC takes
the first, the prover any, and it found the render of another namespace that runs only some of its effects.

Induction is done with sets: the lemmas of `Recursion` take the set of numbers, or of sets, for
which something holds, instead of a predicate, because no installed prover instantiates the operator that the
theorems of the library take. A recursive function is there any function that satisfies its equations.

Steps that a prover finds only after some seconds name it with a longer limit (`SMTT`, `ZenonT`), so that the
proofs do not depend on how fast or busy the machine is.

Only model-checked, and why:

- *Liveness* (`Finishes`, `WorkerEnds`, `EveryRequestAnswered`, `ShowsServerState`) is out of the prover's
  reach, together with `ENABLED`.
- Everything a violation run shows.

`WaitingIsLabelled` is proved of calm environments because it is true of no others: with two generations and three runs, TLC
finds it violated for each of the other rare events alone. A pod dies between the phase and the label, by
itself or because a cancellation or the watchdog deleted its Job; a trigger, or an update, removes the label before it
resets the phase; a failing call, a restart or a retry starts another worker while the workflow waits, which removes the label
when it loads and patches the phase later.

`CompletedRanAll` is stated for workflows whose branches are flat (a target of a branch depends on
the step that chooses it, and is not a condition itself). It is false for others: a chain 1, 2, 3, 4
whose first two steps are conditions, with a pod that resumes, ends as "completed" with step 4
never executed, because step 2 counts as completed and as skipped (`operator/worker.py:3177`).

## 5. Disagreements that no run checks

Met while reading and modelling; the models contain this behaviour where they cover the code.

| Where | What happens |
|---|---|
| `operator/worker.py:3467`, `3474` | phase first, label second: a decision that arrives in between is not found by label, and is lost |
| `workflow_controller.py:470`, log at `836` | the watchdog's requeue meets the same guard as every handler and does nothing, so `Finishes` fails with one crash, cancellation, retry, tick or trigger in the budget |
| `operator/worker.py:3076` | a worker that finds its run done writes "running" and leaves it at that |
| `operator/worker.py:716` | the next patch of a worker overwrites "cancelled" |
| `workflow_controller.py:491`, `545` | an enqueue for a run that exists returns its Job and then deletes it, when the copy names that Job |
| `routers/workflows.py:301` | the reset of trigger may be overwritten by a worker, so that no new run starts; it also forgets the Job, which then is not cancelled |
| `routers/workflows.py:370`, `workflow_controller.py:429` | the run id of retry-failed is not taken over; with the fresh one, completed steps are executed again |
| `circuit_breaker.py:23` | "half-open" admits every caller, not the next call only |
| `operator/utils.py:286` | a name repeated in `dependsOn` counts twice, so that a valid graph is refused as a cycle |
| `operator/worker.py:3433` | a step that returns "failed" does not cancel its siblings (the documentation says fail-fast) |
| `docs/configuration-reference.md:95` | 1800 seconds for a stale run; `operator/config.py` has 900 |
| `operator/worker.py:231` | the lease is named after the workflow without its namespace |
| `webhook_controller.py:213`, `auth_middleware.py:903` | the operator claims executions without the token that the endpoint verifies, and is refused: no execution is dispatched |
| `webhook_controller.py:706` | the timer "recovers executions stuck in 'queued' or 'processing'" (line 711), but fetches only pending ones, and only of namespace "default"; `list_stale_trigger_executions` has no caller |
| `webhook_controller.py:456` | nobody reports "completed", and the dispatch to an agent only logs and patches a session id |
| `webhooks.py:621` | the replay of a dead letter imports a name that `_core.py` does not have |
| `pi_bridge.js:787`, `723` | without a name in Pi's output, the text and the end of one prompt go to every invocation under way, also to those that were rejected and stay in the table (`1265`) |
| `pi_bridge.js:1467`, `session_state.js:211` | a session that was cancelled becomes "completed" with the next end of a prompt; one whose process is restarted stays "active" |
| `pi_bridge.js:634` | a request that joins the start of another gets the model of that one |
| `pi_bridge.js:487`, `574` | the late exit of a process whose stop was given up unlinks the FIFOs of its successor, and the timer that spawns then throws and ends the bridge |
| `incident_controller.py:148`, `310` | an escalation timer is cancelled and set under two separate locks, lives in memory and outlives the incident; the reconciliation triggers the workflow of a diagnosing incident again every minute |
| `WorkflowComposer.tsx:474` | the flag is cleared after a save that failed or was overtaken, so that "Back — warn if unsaved changes" (line 497) does not; an edge deleted by key and a node that is dragged do not set it |
| `WorkflowComposer.tsx:400` | a rename or a deletion does not reach the branches (`thenSteps`, `elseSteps`) of other steps |
| `WorkspaceContext.tsx:366` | a late list, or one of another namespace, may change the selection and so remount the composer, with its unsaved work lost; until the next poll it is what is shown |
| `WorkspaceContext.tsx:514` | a late answer ends the polling of a newer run, though polling is to "restart when the selected workflow's phase changes" (line 507) |
| `api.ts:310` | "deduplicates concurrent refresh attempts" of one tab: the loser of two tabs, or of a restore, signs its tab out although the cookie is good |
| `auth_store.py:2840`, `routers/auth.py:189` | a logout that meets a refresh leaves the session alive that the refresh creates, and its cookie |
| `api.ts:3971`, `NotificationContext.tsx:315` | "auto-reconnects": the error thrown there ends the connection for good, as does a close; only a new token or another namespace opens a stream again |
| `api.ts:3962`, `NotificationContext.tsx:312` | every event is handled twice: one entry, two toasts |
| `routers/chat.py:805` | "succeeded" is reported as completed, but the operator writes "completed" (`operator/worker.py:3578`) |
| `NotificationContext.tsx:254` | two changes of namespace in quick succession store the list of one under the name of another |
| `AgentManagementPanel.tsx:1507`, `WorkflowManager.tsx:646` | the `source` of a log panel is another object at every render of its parent, so each poll of the page aborts the stream, clears the panel and fetches again, where only "switching context" is to (`ResourceLogsPanel.tsx:119`) |
| `ResourceLogsPanel.tsx:160` | the fetched tail and the tail with which the stream begins are both shown; the end of a pause drops lines that came before it |
| `unifiedDiff.ts:59` | a removed line that begins with "-- " is taken for a header; a hunk without context that only removes is undone one line too early |
| `ChatContext.tsx:1480` | the effect that saves messages fires when another agent is chosen, with the messages of the one before; `activeSessionId` is not reset (line 1279) |
| `ChatContext.tsx:681`, `897` | a late answer restores the thread that "New session" has left; the end of one invocation clears the flag of a newer one |
| `api.ts:4131` | a stream of an invocation that ends without its last event counts as a success |
| `ExecutionObservatory.tsx:4430`, `4518` | a late list of runs, or a late refresh of the detail, of what was selected before is shown (lists of executions and first loads of a detail are guarded); the loading flag stays set if the selection goes while it loads |

## 6. Plan

Done: `CircuitBreaker`, `WorkflowStatus` and `WorkflowLifecycle`, `WorkerLease` over `WorkerMutex`,
`StepScheduler`, `PiBridge`, `TriggerExecutions`, the six parts of the console, and the proofs of
section 4, in this order of importance to the system: lifecycle, lease, steps, bridge, executions
of triggers, console; the breaker is the smallest.

Next, in order:

1. `Incidents`: the transition table, concurrent updates, escalation timers and a restart of
   the operator. Run: one incident, two writers, one restart.
2. The detail view of executions in the console, whose late answers are guarded in part; the queue
   of runtime events; the supervisor of the OpenCode runtime.

## 7. Running it

```
tlc -workers 2 -config MCWorkflowLifecycle_operations.cfg MCWorkflowLifecycle.tla   # a run
tlapm StepSchedulerProofs.tla                                                       # the proofs of a module
```

`lifecycle_operations` is the largest run (1.4 million distinct states, two to three minutes); `lease`
has 1.3 million, `console` 0.3, `scheduler` 0.2 and `pi_bridge` 0.1 million. Deadlock checking is off where the system may come to rest.
