--------------------------- MODULE WorkflowStatus ---------------------------
(***************************************************************************)
(* The status of an AgentWorkflow resource: the one record through which   *)
(* the gateway, the operator and the workers talk to each other.  All of   *)
(* them write it with JSON merge patches, so a field a patch does not name *)
(* keeps its value and a field patched with null is removed.               *)
(***************************************************************************)
EXTENDS Integers

CONSTANTS
  MaxGeneration,      \* bound of the model: spec updates
  MaxRun              \* bound of the model: run ids that are minted

ASSUME GenerationsAssumption == MaxGeneration \in Nat \ {0}
ASSUME RunsAssumption        == MaxRun \in Nat \ {0}

Generations == 1..MaxGeneration
Runs == 1..MaxRun

\* A worker Job is named after the workflow, the generation and the run id, so
\* the pair stands for its name.
Jobs == Generations \X Runs
NoJob == <<0, 0>>

Active   == {"queued", "running", "waiting-approval"}
Terminal == {"completed", "failed", "cancelled"}
Phases   == {"none", "pending"} \cup Active \cup Terminal

\* 0 and NoJob stand for an absent field.  failed summarises stepStates: some
\* step is "failed", or the current step is "denied".
Statuses ==
  [phase  : Phases,
   run    : 0..MaxRun,
   obs    : 0..MaxGeneration,
   job    : Jobs \cup {NoJob},
   pend   : 0..MaxRun,
   failed : {"none", "failed", "denied"},
   retries : 0..MaxRun]

NoStatus ==
  [phase |-> "none", run |-> 0, obs |-> 0, job |-> NoJob, pend |-> 0,
   failed |-> "none", retries |-> 0]

\* The live status after a handler patches its copy of an older one back.
Merge(live, copy) ==
  [phase   |-> IF copy.phase = "none" THEN live.phase ELSE copy.phase,
   run     |-> IF copy.run = 0 THEN live.run ELSE copy.run,
   obs     |-> IF copy.obs = 0 THEN live.obs ELSE copy.obs,
   job     |-> IF copy.job = NoJob THEN live.job ELSE copy.job,
   pend    |-> IF copy.pend = 0 THEN live.pend ELSE copy.pend,
   failed  |-> IF copy.failed = "none" THEN live.failed ELSE copy.failed,
   retries |-> IF copy.retries = 0 THEN live.retries ELSE copy.retries]

\* workflow_status_matches_generation
MatchesGeneration(status, generation) == status.obs = generation

\* The status enqueue_workflow_job leaves when it queues run of generation on
\* behalf of a handler that saw copy: what the generation has done so far is kept
\* only if copy belongs to the generation.
QueuedStatus(live, copy, generation, run) ==
  LET kept == MatchesGeneration(copy, generation)
  IN  [phase   |-> "queued",
       run     |-> run,
       obs     |-> generation,
       job     |-> <<generation, run>>,
       pend    |-> IF kept THEN copy.pend ELSE 0,
       failed  |-> IF kept /\ copy.failed # "none" THEN copy.failed ELSE live.failed,
       retries |-> IF kept /\ copy.retries # 0 THEN copy.retries ELSE live.retries]

\* The status a worker leaves (patch_workflow_status): its own run, job and
\* generation, whatever the live status says.
WorkerStatus(live, phase, job, generation, pend, failed) ==
  [phase |-> phase, run |-> job[2], obs |-> generation, job |-> job, pend |-> pend,
   failed |-> failed, retries |-> live.retries]

\* The status the gateway leaves when it triggers a new run: everything is reset.
TriggeredStatus == [NoStatus EXCEPT !.phase = "pending"]

\* The status the gateway leaves when it retries the failed steps: a fresh run id,
\* the failed steps pending again, the job forgotten.
RetriedStatus(live, run) ==
  [phase |-> "pending", run |-> run, obs |-> 0, job |-> NoJob, pend |-> 0,
   failed |-> "none", retries |-> live.retries]

\* The copy of the status the watchdog enqueues an automatic retry with; it is
\* never written back as it stands.
AutoRetryStatus(copy, run) ==
  [phase |-> "pending", run |-> run, obs |-> 0, job |-> copy.job, pend |-> 0,
   failed |-> "none", retries |-> copy.retries + 1]

=============================================================================
