------------------------- MODULE WorkflowLifecycle -------------------------
(***************************************************************************)
(* One AgentWorkflow from its creation to its end: the gateway's requests  *)
(* (api-gateway/routers/workflows.py), the operator's handlers             *)
(* (operator/controllers/workflow_controller.py, approval_controller.py,   *)
(* status_projection.py), the worker Jobs they create (services/k8s.py)    *)
(* and the worker process in their pods (operator/worker.py).              *)
(*                                                                         *)
(* A handler works on a copy of the status taken when it started; between  *)
(* any two of its calls to the Kubernetes API anything else may happen.    *)
(* The steps of the workflow are abstracted here to what the lifecycle     *)
(* depends on (all done, some failed, waiting for an approval).            *)
(***************************************************************************)
EXTENDS WorkflowStatus, FiniteSets

CONSTANTS
  ApprovalRequired,   \* whether the workflow has a step with requireApproval: one of these
  AutoRetryLimit,     \* autoRetry.maxAttempts; 0 is autoRetry.enabled = false
  Budgets             \* bounds of the model: how often each of the rare events may
                      \* happen, and how many runs there may be

RareEvents ==
  {"trigger", "update", "retry", "cancel", "decide", "tick", "overtake", "crash",
   "lapse", "fault", "restart"}

ASSUME LifecycleAssumption ==
  /\ ApprovalRequired \subseteq BOOLEAN
  /\ AutoRetryLimit \in Nat
  /\ Budgets \subseteq [RareEvents \cup {"runs"} -> Nat]
  /\ \A b \in Budgets : b["runs"] <= MaxRun

VARIABLES
  gen,          \* metadata.generation of the workflow
  st,           \* its status
  label,        \* its pending-approval label: the run whose approval it names
  approval,     \* AgentApproval of each run: its decision
  job,          \* the Jobs
  tries,        \* pods each Job has started
  w,            \* the worker in the current pod of each Job
  artifact,     \* the artifact file of each generation
  lease,        \* the worker lease of each generation
  row,          \* the run each generation's active row in the database names
  h,            \* the operator's handlers
  handled,      \* what kopf saw last (its last-handled annotation)
  answered,     \* runs whose approval decision the operator has handled
  resumeDue,    \* the operator has restarted and not resumed the workflow yet
  gw,           \* the request the gateway is serving
  nextRun,      \* run ids are minted in this order
  budget,       \* what is left of one of the Budgets
  autoRetries,  \* history: runs the watchdog started as automatic retries
  disturbed     \* history: generations of which a worker has been at work with its Job
                \* deleted or its lease expired, since none of their workers was at work

kube == <<job, tries, w, artifact, lease>>
oper == <<h, handled, answered, resumeDue, row, autoRetries>>
user == <<gw, approval>>
vars == <<gen, st, label, kube, oper, user, nextRun, budget>>
allVars == <<vars, disturbed>>

NoLease == [holder |-> NoJob, fresh |-> FALSE]
NoWorker == [pc |-> "none", lgen |-> 0, gen |-> 0, failed |-> "none"]
NoArtifact == [gen |-> 0, run |-> 0, done |-> FALSE]

Handlers == {"event", "resume", "timer", "approval"}
IdleHandler == [pc |-> "idle", copy |-> NoStatus, gen |-> 0, run |-> 0]
HandlerPCs == {"idle", "check", "kill", "patch", "decide", "deny",
               "guard", "create", "cancel", "queue"}
WorkerPCs == {"none", "boot", "claim", "load", "begin", "ghost", "exec", "report",
              "pause", "label", "fail", "failed", "leave0", "leave1"}

\* What kopf compares to find a change: the spec and the fields of the status
\* that field handlers watch.
Essence == [phase |-> st.phase, run |-> st.run, gen |-> gen]
NotHandled == [phase |-> "none", run |-> 0, gen |-> 0]

TypeOK ==
  /\ gen \in Generations
  /\ st \in Statuses
  /\ label \in 0..MaxRun
  /\ approval \in [Runs -> {"unneeded", "none", "pending", "approved", "denied"}]
  /\ job \in [Jobs -> {"absent", "live", "succeeded", "failed", "deleted"}]
  /\ tries \in [Jobs -> 0..2]
  /\ w \in [Jobs -> [pc : WorkerPCs, lgen : 0..MaxGeneration,
                     gen : 0..MaxGeneration, failed : {"none", "failed"}]]
  /\ artifact \in [Generations -> [gen : 0..MaxGeneration, run : 0..MaxRun,
                                   done : BOOLEAN]]
  /\ lease \in [Generations -> [holder : Jobs \cup {NoJob}, fresh : BOOLEAN]]
  /\ row \in [Generations -> 0..MaxRun]
  /\ h \in [Handlers -> [pc : HandlerPCs, copy : Statuses,
                         gen : 0..MaxGeneration, run : 0..MaxRun]]
  /\ handled \in [phase : Phases, run : 0..MaxRun, gen : 0..MaxGeneration]
  /\ answered \subseteq Runs
  /\ resumeDue \in BOOLEAN
  /\ gw \in {"idle", "reset", "retry", "cancel"}
  /\ nextRun \in 1..(MaxRun + 1)
  /\ budget \in [RareEvents \cup {"runs"} -> Nat]
  /\ autoRetries \in 0..MaxRun
  /\ disturbed \subseteq Generations

Init ==
  /\ gen = 1
  /\ st = NoStatus
  /\ label = 0
  /\ \E required \in ApprovalRequired :
       approval = [r \in Runs |-> IF required THEN "none" ELSE "unneeded"]
  /\ job = [j \in Jobs |-> "absent"]
  /\ tries = [j \in Jobs |-> 0]
  /\ w = [j \in Jobs |-> NoWorker]
  /\ artifact = [g \in Generations |-> NoArtifact]
  /\ lease = [g \in Generations |-> NoLease]
  /\ row = [g \in Generations |-> 0]
  /\ h = [t \in Handlers |-> IdleHandler]
  /\ handled = NotHandled
  /\ answered = {}
  /\ resumeDue = FALSE
  /\ gw = "idle"
  /\ nextRun = 1
  /\ budget \in Budgets
  /\ autoRetries = 0
  /\ disturbed = {}

Spend(event) ==
  /\ budget[event] > 0
  /\ budget' = [budget EXCEPT ![event] = @ - 1]

MayMint == nextRun <= budget["runs"]

-----------------------------------------------------------------------------
(* Job objects (services/k8s.py).                                          *)

\* read_job_state
JobState(j) ==
  CASE j = NoJob                                 -> "none"
    [] j # NoJob /\ job[j] \in {"absent", "deleted"} -> "missing"
    [] j # NoJob /\ job[j] = "live" /\ w[j].pc # "none" -> "active"
    [] j # NoJob /\ job[j] = "live" /\ w[j].pc = "none" -> "pending"
    [] OTHER                                     -> job[j]

\* cancel_worker_job: the Job object goes, its pod is asked to terminate.
JobsWithout(j) ==
  IF j # NoJob /\ job[j] # "absent" THEN [job EXCEPT ![j] = "deleted"] ELSE job

\* read_worker_lease_freshness
LeaseFresh(g) == lease[g].holder # NoJob /\ lease[g].fresh

-----------------------------------------------------------------------------
(* The operator: handlers that take a copy of the status.                  *)

Idle(t) == h[t].pc = "idle"
Stop(t) == h' = [h EXCEPT ![t] = IdleHandler]
Goto(t, pc) == h' = [h EXCEPT ![t].pc = pc]
Start(t, pc, run) ==
  h' = [h EXCEPT ![t] = [pc |-> pc, copy |-> st, gen |-> gen, run |-> run]]

\* kopf delivers a change: the two projections mirror the status into the database
\* (safe_record_workflow_state supersedes the other active rows of the generation),
\* a cancellation kills the job, and run_workflow looks at the change.
EventPickup ==
  /\ Idle("event") /\ Idle("resume") /\ ~resumeDue
  /\ Essence # handled
  /\ handled' = Essence
  /\ row' = IF st.run = 0 \/ (st.run = handled.run /\ st.phase = handled.phase) THEN row
            ELSE [g \in Generations |->
                   IF g = gen THEN IF st.phase \in {"queued", "running"} THEN st.run ELSE 0
                   ELSE IF row[g] = st.run THEN 0 ELSE row[g]]
  /\ Start("event", IF st.phase = "cancelled" /\ handled.phase # "cancelled"
                    THEN "kill" ELSE "check", 0)
  /\ UNCHANGED <<gen, st, label, kube, answered, resumeDue, autoRetries, user,
                 nextRun, budget>>

\* on_workflow_phase_cancelled
EventKill ==
  /\ h["event"].pc = "kill"
  /\ job' = JobsWithout(h["event"].copy.job)
  /\ Goto("event", "check")
  /\ UNCHANGED <<gen, st, label, tries, w, artifact, lease, handled, answered,
                 resumeDue, row, autoRetries, user, nextRun, budget>>

Reconciled(status, generation) ==
  MatchesGeneration(status, generation) /\ status.phase \in Active \cup Terminal

\* The two early returns of run_workflow.
NothingToRun(t) ==
  \/ Reconciled(h[t].copy, h[t].gen)
  \/ /\ ~MatchesGeneration(h[t].copy, h[t].gen)
     /\ h[t].copy.phase \notin Active
     /\ Reconciled(st, h[t].gen)

EventCheck ==
  /\ h["event"].pc = "check"
  /\ IF NothingToRun("event") THEN Stop("event") ELSE Goto("event", "patch")
  /\ UNCHANGED <<gen, st, label, kube, handled, answered, resumeDue, row,
                 autoRetries, user, nextRun, budget>>

\* run_workflow writes its copy of the status back before it enqueues.
EventPatch ==
  /\ h["event"].pc = "patch"
  /\ st' = Merge(st, h["event"].copy)
  /\ Goto("event", "guard")
  /\ UNCHANGED <<gen, label, kube, handled, answered, resumeDue, row, autoRetries,
                 user, nextRun, budget>>

\* resume_workflow, once after the operator has restarted.
ResumePickup ==
  /\ Idle("event") /\ Idle("resume") /\ resumeDue
  /\ resumeDue' = FALSE
  /\ IF st.phase \in Active /\ JobState(st.job) # "active"
     THEN Start("resume", "guard", st.run)
     ELSE UNCHANGED h
  /\ UNCHANGED <<gen, st, label, kube, handled, answered, row, autoRetries, user,
                 nextRun, budget>>

\* run_workflow_watchdog reads the status; in the other phases it does nothing.
TimerFire ==
  /\ Idle("timer")
  /\ st.phase \in {"queued", "running", "failed"}
  /\ Spend("tick")
  /\ Start("timer", "decide", st.run)
  /\ UNCHANGED <<gen, st, label, kube, handled, answered, resumeDue, row,
                 autoRetries, user, nextRun>>

\* workflow_should_requeue.  A worker is given up when its job is gone or over;
\* one whose job is there may also be given up because the status is old.
MayRequeue(status, generation) ==
  status.phase \in {"queued", "running"} /\ ~LeaseFresh(generation)
MustRequeue(status, generation) ==
  /\ MayRequeue(status, generation)
  /\ JobState(status.job) \in {"missing", "failed", "succeeded"}

TimerRequeue ==
  /\ h["timer"].pc = "decide"
  /\ MayRequeue(h["timer"].copy, h["timer"].gen)
  /\ Goto("timer", "guard")
  /\ UNCHANGED <<gen, st, label, kube, handled, answered, resumeDue, row,
                 autoRetries, user, nextRun, budget>>

\* resolve_failed_workflow_auto_retry_plan: some step failed, none was denied, and
\* the retries counted in the summary are below the limit.
MayAutoRetry(status) ==
  /\ status.phase = "failed"
  /\ status.failed = "failed"
  /\ status.retries < AutoRetryLimit

TimerAutoRetry ==
  /\ h["timer"].pc = "decide"
  /\ MayAutoRetry(h["timer"].copy)
  /\ MayMint
  /\ nextRun' = nextRun + 1
  /\ h' = [h EXCEPT !["timer"] = [pc |-> "guard", copy |-> AutoRetryStatus(@.copy, nextRun),
                                  gen |-> @.gen, run |-> nextRun]]
  /\ UNCHANGED <<gen, st, label, kube, handled, answered, resumeDue, row,
                 autoRetries, user, budget>>

TimerIgnore ==
  /\ h["timer"].pc = "decide"
  /\ ~MustRequeue(h["timer"].copy, h["timer"].gen)
  /\ ~(MayAutoRetry(h["timer"].copy) /\ MayMint)
  /\ Stop("timer")
  /\ UNCHANGED <<gen, st, label, kube, handled, answered, resumeDue, row,
                 autoRetries, user, nextRun, budget>>

\* A workflow that has been listed is acted on only while it waits for this approval.
ActOnApproval(r) ==
  IF st.pend = r /\ st.phase = "waiting-approval"
  THEN Start("approval", IF approval[r] = "approved" THEN "guard" ELSE "deny", st.run)
  ELSE UNCHANGED h

\* on_approval_decision finds the workflow by its label, or in the list of all workflows when
\* the call with the label fails.
ApprovalPickup(r) ==
  /\ Idle("approval")
  /\ approval[r] \in {"approved", "denied"}
  /\ r \notin answered
  /\ answered' = answered \cup {r}
  /\ \/ (IF label = r THEN ActOnApproval(r) ELSE UNCHANGED h) /\ UNCHANGED budget
     \/ ActOnApproval(r) /\ Spend("fault")
  /\ UNCHANGED <<gen, st, label, kube, handled, resumeDue, row, autoRetries, user, nextRun>>

ApprovalDeny ==
  /\ h["approval"].pc = "deny"
  /\ LET copy == h["approval"].copy
     IN  st' = [st EXCEPT !.phase = "failed", !.run = copy.run, !.obs = copy.obs,
                          !.pend = copy.pend, !.failed = "denied"]
  /\ Stop("approval")
  /\ UNCHANGED <<gen, label, kube, handled, answered, resumeDue, row, autoRetries,
                 user, nextRun, budget>>

-----------------------------------------------------------------------------
(* enqueue_workflow_job, the tail of all four handlers.                    *)

\* The final guard: the live status says that a run is under way.
RunUnderWay == st.phase \in Active /\ st.run # 0

EnqueueSkip(t) ==
  /\ h[t].pc = "guard"
  /\ RunUnderWay
  /\ Stop(t)
  /\ UNCHANGED <<gen, st, label, kube, handled, answered, resumeDue, row,
                 autoRetries, user, nextRun, budget>>

\* No run is under way, or the live status could not be read.
EnqueueGo(t) ==
  /\ h[t].pc = "guard"
  /\ \/ ~RunUnderWay /\ UNCHANGED budget
     \/ Spend("fault")
  /\ Goto(t, "create")
  /\ UNCHANGED <<gen, st, label, kube, handled, answered, resumeDue, row,
                 autoRetries, user, nextRun>>

\* resolve_workflow_run_id: the run asked for, or the run of the copy if it belongs
\* to the generation, or a fresh one (0 here).
ResolvedRun(t) ==
  IF h[t].run # 0 THEN h[t].run
  ELSE IF MatchesGeneration(h[t].copy, h[t].gen) THEN h[t].copy.run ELSE 0

\* enqueue_worker_job returns the Job of that name if there is one.  (Bound of the
\* model: a name is used again only when the pod of its deleted Job is gone.)
EnqueueCreate(t) ==
  /\ h[t].pc = "create"
  /\ ResolvedRun(t) = 0 => MayMint
  /\ LET run == IF ResolvedRun(t) = 0 THEN nextRun ELSE ResolvedRun(t)
         j   == <<h[t].gen, run>>
     IN  /\ job[j] = "deleted" => w[j].pc = "none"
         /\ IF job[j] \in {"absent", "deleted"}
            THEN job' = [job EXCEPT ![j] = "live"] /\ tries' = [tries EXCEPT ![j] = 0]
            ELSE UNCHANGED <<job, tries>>
         /\ h' = [h EXCEPT ![t].pc = "cancel", ![t].run = run]
         /\ nextRun' = IF ResolvedRun(t) = 0 THEN nextRun + 1 ELSE nextRun
         /\ autoRetries' = IF t = "timer" /\ h[t].copy.phase = "pending"
                           THEN autoRetries + 1 ELSE autoRetries
  /\ UNCHANGED <<gen, st, label, w, artifact, lease, handled, answered, resumeDue,
                 row, user, budget>>

\* The job the copy names is cancelled, after the new one has been created.
EnqueueCancel(t) ==
  /\ h[t].pc = "cancel"
  /\ job' = JobsWithout(h[t].copy.job)
  /\ Goto(t, "queue")
  /\ UNCHANGED <<gen, st, label, tries, w, artifact, lease, handled, answered,
                 resumeDue, row, autoRetries, user, nextRun, budget>>

EnqueueQueue(t) ==
  /\ h[t].pc = "queue"
  /\ st' = QueuedStatus(st, h[t].copy, h[t].gen, h[t].run)
  /\ Stop(t)
  /\ UNCHANGED <<gen, label, kube, handled, answered, resumeDue, row, autoRetries,
                 user, nextRun, budget>>

\* A call to the API fails: execute_reconcile has kopf call the handler again, which
\* takes a new copy.
HandlerFails(t) ==
  /\ h[t].pc \in {"kill", "patch", "deny", "create", "cancel", "queue"}
  /\ Spend("fault")
  /\ Stop(t)
  /\ handled' = IF t = "event" THEN NotHandled ELSE handled
  /\ answered' = IF t = "approval" THEN answered \ {h[t].run} ELSE answered
  /\ resumeDue' = (resumeDue \/ t = "resume")
  /\ UNCHANGED <<gen, st, label, kube, row, autoRetries, user, nextRun>>

\* The operator dies and comes back: what its handlers had not finished is
\* delivered again, and the workflow is resumed.
OperatorRestart ==
  /\ Spend("restart")
  /\ h' = [t \in Handlers |-> IdleHandler]
  /\ handled' = IF Idle("event") THEN handled ELSE NotHandled
  /\ answered' = IF Idle("approval") THEN answered ELSE answered \ {h["approval"].run}
  /\ resumeDue' = TRUE
  /\ UNCHANGED <<gen, st, label, kube, row, autoRetries, user, nextRun>>

EnqueueStep(t) ==
  EnqueueSkip(t) \/ EnqueueGo(t) \/ EnqueueCreate(t) \/ EnqueueCancel(t)
    \/ EnqueueQueue(t)

-----------------------------------------------------------------------------
(* The worker pods.                                                        *)

\* Mutant: one pod more than backoffLimit allows.
PodsPerJobAndOne == 3

\* backoffLimit 1
PodsPerJob == 2

\* The Job controller starts a pod, and another one if it ends in failure.
PodStart(j) ==
  /\ job[j] = "live"
  /\ w[j].pc = "none"
  /\ tries[j] < PodsPerJob
  /\ tries' = [tries EXCEPT ![j] = @ + 1]
  /\ w' = [w EXCEPT ![j].pc = "boot"]
  /\ UNCHANGED <<gen, st, label, job, artifact, lease, oper, user, nextRun, budget>>

\* The pod of j ends with exit code 0 (ok) or not.
PodEnds(j, ok) ==
  /\ w' = [w EXCEPT ![j] = NoWorker]
  /\ job' = [job EXCEPT ![j] = IF @ # "live" THEN @
                               ELSE IF ok THEN "succeeded"
                               ELSE IF tries[j] = PodsPerJob THEN "failed" ELSE @]

\* main reads the workflow; check_run_id_conflict refuses a run while the database
\* says that another one of the generation is active.
WorkerBoot(j) ==
  /\ w[j].pc = "boot"
  /\ IF row[gen] \notin {0, j[2]}
     THEN PodEnds(j, FALSE)
     ELSE w' = [w EXCEPT ![j].pc = "claim", ![j].lgen = gen] /\ UNCHANGED job
  /\ UNCHANGED <<gen, st, label, tries, artifact, lease, oper, user, nextRun, budget>>

\* Mutant: a holder whose pod is running is taken for one that is over.
MayClaimFromLiving(j, g) ==
  \/ lease[g].holder \in {NoJob, j}
  \/ ~lease[g].fresh
  \/ JobState(lease[g].holder) \in {"missing", "active", "succeeded", "failed"}

\* acquire_worker_lease: the lease is free, its own, expired, or its holder's Job
\* is over.
MayClaim(j, g) ==
  \/ lease[g].holder \in {NoJob, j}
  \/ ~lease[g].fresh
  \/ JobState(lease[g].holder) \in {"missing", "succeeded", "failed"}

WorkerClaim(j) ==
  LET g == w[j].lgen
  IN  /\ w[j].pc = "claim"
      /\ IF MayClaim(j, g)
         THEN /\ lease' = [lease EXCEPT ![g] = [holder |-> j, fresh |-> TRUE]]
              /\ w' = [w EXCEPT ![j].pc = "load"]
              /\ UNCHANGED job
         ELSE PodEnds(j, FALSE) /\ UNCHANGED lease
      /\ UNCHANGED <<gen, st, label, tries, artifact, oper, user, nextRun, budget>>

\* resume_workflow_state_from_artifact: progress is kept only within a run.
Resumes(j, g) == artifact[j[1]].gen = g /\ artifact[j[1]].run = j[2]

\* run_workflow_worker reads the workflow and the artifact; a run whose steps are all
\* in the artifact is a ghost.
WorkerLoad(j) ==
  /\ w[j].pc = "load"
  /\ w' = [w EXCEPT ![j].gen = gen,
                    ![j].pc = IF Resumes(j, gen) /\ artifact[j[1]].done
                              THEN "ghost" ELSE "begin"]
  /\ label' = IF st.phase = "waiting-approval" THEN 0 ELSE label
  /\ UNCHANGED <<gen, st, job, tries, artifact, lease, oper, user, nextRun, budget>>

Save(j, done) ==
  artifact' = [artifact EXCEPT ![j[1]] = [gen |-> w[j].gen, run |-> j[2], done |-> done]]

\* The first "running" patch; a ghost does nothing else.  The pod takes seconds to get
\* here: that it overtakes the handler that is still queuing its run is a rare event.
WorkerBegin(j) ==
  /\ w[j].pc \in {"begin", "ghost"}
  /\ IF \E t \in Handlers : h[t].pc \in {"cancel", "queue"} /\ <<h[t].gen, h[t].run>> = j
     THEN Spend("overtake")
     ELSE UNCHANGED budget
  /\ st' = WorkerStatus(st, "running", j, w[j].gen, 0, st.failed)
  /\ w' = [w EXCEPT ![j].pc = IF @ = "ghost" THEN "leave0" ELSE "exec"]
  /\ UNCHANGED <<gen, label, job, tries, artifact, lease, oper, user, nextRun>>

\* A frontier starts, reports progress or ends: "running" is patched again, and a step
\* that failed before may be running again.
WorkerProgress(j) ==
  /\ w[j].pc = "exec"
  /\ \E failed \in {st.failed, "none"} :
       st' = WorkerStatus(st, "running", j, w[j].gen, 0, failed)
  /\ UNCHANGED <<gen, label, kube, oper, user, nextRun, budget>>

\* Mutant: completion is reported before the artifact is written.
WorkerFinishUnsaved(j) ==
  /\ w[j].pc = "exec"
  /\ approval[j[2]] \in {"unneeded", "approved"}
  /\ w' = [w EXCEPT ![j].pc = "report"]
  /\ UNCHANGED <<gen, st, label, job, tries, artifact, lease, oper, user, nextRun, budget>>

\* Mutant: a run whose last frontier is done returns without a report.
WorkerFinishUnreported(j) ==
  /\ w[j].pc = "exec"
  /\ approval[j[2]] \in {"unneeded", "approved"}
  /\ Save(j, TRUE)
  /\ w' = [w EXCEPT ![j].pc = "leave0"]
  /\ UNCHANGED <<gen, st, label, job, tries, lease, oper, user, nextRun, budget>>

\* Every step is done: the artifact is written, and then reported.
WorkerFinish(j) ==
  /\ w[j].pc = "exec"
  /\ approval[j[2]] \in {"unneeded", "approved"}
  /\ Save(j, TRUE)
  /\ w' = [w EXCEPT ![j].pc = "report"]
  /\ UNCHANGED <<gen, st, label, job, tries, lease, oper, user, nextRun, budget>>

WorkerReport(j) ==
  /\ w[j].pc = "report"
  /\ st' = WorkerStatus(st, "completed", j, w[j].gen, 0, "none")
  /\ w' = [w EXCEPT ![j].pc = "leave0"]
  /\ UNCHANGED <<gen, label, job, tries, artifact, lease, oper, user, nextRun, budget>>

\* The runtime asks for an approval, or finds it undecided.
WorkerPause(j) ==
  /\ w[j].pc = "exec"
  /\ approval[j[2]] \in {"none", "pending"}
  /\ approval' = [approval EXCEPT ![j[2]] = "pending"]
  /\ Save(j, FALSE)
  /\ w' = [w EXCEPT ![j].pc = "pause"]
  /\ UNCHANGED <<gen, st, label, job, tries, lease, oper, gw, nextRun, budget>>

\* Mutant: the pending-approval label is not set.
WorkerReportPauseUnlabelled(j) ==
  /\ w[j].pc = "pause"
  /\ st' = WorkerStatus(st, "waiting-approval", j, w[j].gen, j[2], st.failed)
  /\ w' = [w EXCEPT ![j].pc = "leave0"]
  /\ UNCHANGED <<gen, label, job, tries, artifact, lease, oper, user, nextRun, budget>>

WorkerReportPause(j) ==
  /\ w[j].pc = "pause"
  /\ st' = WorkerStatus(st, "waiting-approval", j, w[j].gen, j[2], st.failed)
  /\ w' = [w EXCEPT ![j].pc = "label"]
  /\ UNCHANGED <<gen, label, job, tries, artifact, lease, oper, user, nextRun, budget>>

WorkerLabel(j) ==
  /\ w[j].pc = "label"
  /\ label' = j[2]
  /\ w' = [w EXCEPT ![j].pc = "leave0"]
  /\ UNCHANGED <<gen, st, job, tries, artifact, lease, oper, user, nextRun, budget>>

\* A step fails for good (its approval may have been denied).
WorkerStepFails(j) ==
  /\ w[j].pc = "exec"
  /\ Save(j, FALSE)
  /\ st' = WorkerStatus(st, "running", j, w[j].gen, 0, "failed")
  /\ w' = [w EXCEPT ![j].pc = "fail", ![j].failed = "failed"]
  /\ UNCHANGED <<gen, label, job, tries, lease, oper, user, nextRun, budget>>

\* The pod was told to terminate, with its Job or alone: the next frontier raises.
WorkerAbort(j) ==
  /\ w[j].pc = "exec"
  /\ \/ job[j] = "deleted" /\ UNCHANGED budget
     \/ job[j] # "deleted" /\ Spend("crash")
  /\ w' = [w EXCEPT ![j].pc = "fail", ![j].failed = "none"]
  /\ UNCHANGED <<gen, st, label, job, tries, artifact, lease, oper, user, nextRun>>

\* The run has failed: the label goes, the artifact is written, and then reported; a
\* step that an earlier run left failed and this one never started stays so.
WorkerSaveFailure(j) ==
  /\ w[j].pc = "fail"
  /\ label' = 0
  /\ Save(j, FALSE)
  /\ w' = [w EXCEPT ![j].pc = "failed"]
  /\ UNCHANGED <<gen, st, job, tries, lease, oper, user, nextRun, budget>>

WorkerReportFailure(j) ==
  /\ w[j].pc = "failed"
  /\ st' = WorkerStatus(st, "failed", j, w[j].gen, 0,
                        IF w[j].failed = "none" THEN st.failed ELSE "failed")
  /\ w' = [w EXCEPT ![j].pc = "leave1"]
  /\ UNCHANGED <<gen, label, job, tries, artifact, lease, oper, user, nextRun, budget>>

\* release_worker_lease deletes the lease, whoever holds it.
WorkerLeave(j) ==
  /\ w[j].pc \in {"leave0", "leave1"}
  /\ lease' = [lease EXCEPT ![w[j].lgen] = NoLease]
  /\ PodEnds(j, w[j].pc = "leave0")
  /\ UNCHANGED <<gen, st, label, tries, artifact, oper, user, nextRun, budget>>

\* The pod dies; one whose Job was deleted is killed after its grace period.
PodCrash(j) ==
  /\ w[j].pc # "none"
  /\ \/ job[j] = "deleted" /\ UNCHANGED budget
     \/ job[j] # "deleted" /\ Spend("crash")
  /\ PodEnds(j, FALSE)
  /\ UNCHANGED <<gen, st, label, tries, artifact, lease, oper, user, nextRun>>

\* The workers of a generation, from their claim of its lease until they have left.
AtWork == {j \in Jobs : w[j].pc \notin {"none", "boot", "claim"}}
AtWorkOn(g) == {j \in AtWork : w[j].lgen = g}

\* Nobody renews a lease of a generation that nobody works on.
LeaseExpires(g) ==
  /\ lease[g].fresh
  /\ AtWorkOn(g) = {}
  /\ lease' = [lease EXCEPT ![g].fresh = FALSE]
  /\ UNCHANGED <<gen, st, label, job, tries, w, artifact, oper, user, nextRun, budget>>

\* Two renewals in a row fail, or come late: the lease of a worker at work expires.
LeaseLapses(g) ==
  /\ lease[g].fresh
  /\ AtWorkOn(g) # {}
  /\ Spend("lapse")
  /\ lease' = [lease EXCEPT ![g].fresh = FALSE]
  /\ UNCHANGED <<gen, st, label, job, tries, w, artifact, oper, user, nextRun>>

\* _renew_lease_loop renews a lease that has expired, too, and whoever holds it.
LeaseRenewed(g) ==
  /\ lease[g].holder # NoJob /\ ~lease[g].fresh
  /\ AtWorkOn(g) # {}
  /\ lease' = [lease EXCEPT ![g].fresh = TRUE]
  /\ UNCHANGED <<gen, st, label, job, tries, w, artifact, oper, user, nextRun, budget>>

LeaseChanges(g) == LeaseExpires(g) \/ LeaseLapses(g) \/ LeaseRenewed(g)

WorkerStep(j) ==
  WorkerBoot(j) \/ WorkerClaim(j) \/ WorkerLoad(j) \/ WorkerBegin(j)
    \/ WorkerFinish(j) \/ WorkerReport(j) \/ WorkerPause(j) \/ WorkerReportPause(j)
    \/ WorkerLabel(j) \/ WorkerStepFails(j) \/ WorkerAbort(j)
    \/ WorkerSaveFailure(j) \/ WorkerReportFailure(j) \/ WorkerLeave(j)

-----------------------------------------------------------------------------
(* The gateway's requests, and the decision of an approver.                *)

\* trigger_workflow replaces the resource: the generation changes only with the spec,
\* and the labels and annotations go, kopf's own included (which kopf writes again
\* when the handler it is running returns).
Trigger ==
  /\ gw = "idle"
  /\ \/ gen' = gen /\ Spend("trigger")
     \/ gen' = gen + 1 /\ gen' \in Generations /\ Spend("update")
  /\ label' = 0
  /\ handled' = IF Idle("event") THEN NotHandled ELSE handled
  /\ gw' = "reset"
  /\ UNCHANGED <<st, kube, h, answered, resumeDue, row, autoRetries, approval, nextRun>>

\* The reset of the status is best effort.
TriggerReset ==
  /\ gw = "reset"
  /\ \/ st' = TriggeredStatus /\ UNCHANGED budget
     \/ UNCHANGED st /\ Spend("fault")
  /\ gw' = "idle"
  /\ UNCHANGED <<gen, label, kube, oper, approval, nextRun>>

\* retry_failed_workflow_steps: the phase is checked, then patched.
RetryCheck ==
  /\ gw = "idle"
  /\ st.phase = "failed"
  /\ st.failed = "failed"
  /\ MayMint
  /\ Spend("retry")
  /\ gw' = "retry"
  /\ UNCHANGED <<gen, st, label, kube, oper, approval, nextRun>>

RetryPatch ==
  /\ gw = "retry"
  /\ MayMint
  /\ st' = RetriedStatus(st, nextRun)
  /\ nextRun' = nextRun + 1
  /\ gw' = "idle"
  /\ UNCHANGED <<gen, label, kube, oper, approval, budget>>

\* cancel_workflow: likewise.
CancelCheck ==
  /\ gw = "idle"
  /\ st.phase \in Active
  /\ Spend("cancel")
  /\ gw' = "cancel"
  /\ UNCHANGED <<gen, st, label, kube, oper, approval, nextRun>>

CancelPatch ==
  /\ gw = "cancel"
  /\ st' = [st EXCEPT !.phase = "cancelled", !.pend = 0]
  /\ gw' = "idle"
  /\ UNCHANGED <<gen, label, kube, oper, approval, nextRun, budget>>

\* decide_approval
Decide(r) ==
  /\ approval[r] \in {"pending", "approved", "denied"}
  /\ Spend("decide")
  /\ \E decision \in {"approved", "denied"} : approval' = [approval EXCEPT ![r] = decision]
  /\ UNCHANGED <<gen, st, label, kube, oper, gw, nextRun>>

-----------------------------------------------------------------------------
HandlerStep ==
  \/ EventKill \/ EventCheck \/ EventPatch \/ ApprovalDeny
  \/ TimerRequeue \/ TimerAutoRetry \/ TimerIgnore
  \/ \E t \in Handlers : EnqueueStep(t)

Step ==
  \/ EventPickup \/ ResumePickup \/ TimerFire \/ HandlerStep
  \/ \E r \in Runs : ApprovalPickup(r) \/ Decide(r)
  \/ \E t \in Handlers : HandlerFails(t)
  \/ OperatorRestart
  \/ \E j \in Jobs : PodStart(j) \/ WorkerStep(j) \/ WorkerProgress(j) \/ PodCrash(j)
  \/ \E g \in Generations : LeaseChanges(g)
  \/ Trigger \/ TriggerReset \/ RetryCheck \/ RetryPatch \/ CancelCheck \/ CancelPatch

\* History: a disturbance of a generation ends with the last worker that was there.
Disturb ==
  disturbed' = {g \in Generations :
                 \/ g \in disturbed /\ AtWorkOn(g)' # {}
                 \/ \E j \in AtWorkOn(g)' : job'[j] = "deleted"
                 \/ lease'[g].holder \in AtWorkOn(g)' /\ ~lease'[g].fresh}

Next == Step /\ Disturb

Spec == Init /\ [][Next]_allVars

\* kopf delivers what changed and every handler it started goes on; its timer fires;
\* the Job controller starts pods; a worker that has begun comes to an end; a lease
\* that nobody renews expires; a request that was begun is answered.
Fairness ==
  /\ WF_vars(EventPickup) /\ WF_vars(ResumePickup) /\ WF_vars(TimerFire)
  /\ WF_vars(EventKill \/ EventCheck \/ EventPatch) /\ WF_vars(ApprovalDeny)
  /\ WF_vars(TimerRequeue \/ TimerAutoRetry \/ TimerIgnore)
  /\ \A t \in Handlers : WF_vars(EnqueueStep(t))
  /\ \A r \in Runs : WF_vars(ApprovalPickup(r))
  /\ \A j \in Jobs : WF_vars(PodStart(j)) /\ WF_vars(WorkerStep(j))
  /\ \A g \in Generations : WF_vars(LeaseExpires(g))
  /\ WF_vars(TriggerReset \/ RetryPatch \/ CancelPatch)

FairSpec == Spec /\ Fairness

-----------------------------------------------------------------------------
(* Properties.                                                             *)

\* The worker lease (acquire_worker_lease) keeps the workers of a generation apart: two of
\* them are at work only if a Job has been deleted under its pod, be it one of theirs or a
\* third one, whose worker released the lease when it left, or if the lease of one at work
\* has expired.
OneWorkerPerGeneration ==
  \A g \in Generations : \A i, j \in AtWorkOn(g) : i # j => g \in disturbed

Exclusion(g) == INSTANCE WorkerMutex
  WITH Pods <- Jobs, working <- AtWorkOn(g), excused <- g \in disturbed

\* The workers of each generation, from their claim (acquire_worker_lease) until they have
\* left, enter and leave as WorkerMutex says, which WorkerLease implements call by call: what
\* the lifecycle takes of the lease for one step is no more than the lease promises.  It is
\* Exclusion(g)!Spec for every g, in a form that TLC evaluates.
GenerationMutex ==
  /\ \A g \in Generations : Exclusion(g)!Init
  /\ [][\A g \in Generations :
          UNCHANGED <<AtWorkOn(g), g \in disturbed>> \/ Exclusion(g)!Next]_<<AtWork, disturbed>>

\* The results of all steps of the run that is reported completed are in the artifact of
\* the generation, if its Job was created for that.
OnDisk ==
  st.phase = "completed" /\ gen = st.job[1] =>
    artifact[gen] = [gen |-> gen, run |-> st.run, done |-> TRUE]

\* run_workflow_worker reports a run completed only after it has written the artifact
\* that holds the results of all its steps, and no other worker writes over them while the
\* run is the one reported completed: unless a Job was deleted under its pod, or a lease
\* expired under its holder, so that the lease did not keep the two apart.
CompletedIsOnDisk ==
  [][st' # st \/ artifact'[gen] # artifact[gen] => OnDisk' \/ gen' \in disturbed']_<<st, artifact>>

\* While no worker is at work on a workflow that waits, its label names the approval it
\* waits for: that is how on_approval_decision finds it.
WaitingIsLabelled ==
  st.phase = "waiting-approval" /\ w[st.job].pc # "label" => label = st.pend

\* A workflow that has been created ends, or waits for an approval.
Finishes == []<>(st.phase \in Terminal \cup {"waiting-approval"})

-----------------------------------------------------------------------------
(* What the repository says of the program and the program does not do.    *)

\* A workflow whose approval the operator has seen granted resumes.
ApprovedResumes == h["approval"].pc = "guard" ~> st.phase # "waiting-approval"

\* The watchdog starts no more automatic retries than the workflow allows.
AutoRetriesBounded == autoRetries <= AutoRetryLimit

=============================================================================
