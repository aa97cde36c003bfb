----------------------- MODULE WorkflowLifecycleProofs -----------------------
(***************************************************************************)
(* Proofs about WorkflowLifecycle, for every number of generations and     *)
(* runs, every retry limit and every mix of rare events.                   *)
(***************************************************************************)
EXTENDS WorkflowLifecycle, TLAPS

-----------------------------------------------------------------------------
(* The inductive invariants.                                               *)

\* A status that may be in the resource, or be a handler's copy of it.  The count of retries
\* is zero but in the copy of an automatic retry, which belongs to no generation.
Copied(status) == status.retries = 0 \/ (status.retries = 1 /\ status.obs = 0)

\* What a handler knows once it is under way.
HandlerReady(t) ==
  /\ h[t].pc # "idle" => h[t].gen \in Generations
  /\ h[t].pc \in {"cancel", "queue"} => h[t].run \in Runs
  /\ Copied(h[t].copy)
  /\ t # "timer" \/ h[t].pc = "decide" => h[t].copy.retries = 0

\* The timer is about to create the Job of an automatic retry.
Retrying == h["timer"].pc \in {"guard", "create"} /\ h["timer"].copy.phase = "pending"

\* Each automatic retry has minted a run of its own.
RetriesMinted ==
  /\ autoRetries < nextRun
  /\ Retrying => autoRetries + 1 < nextRun

Counted(status) == status \in Statuses /\ status.retries = 0

HandlersTyped ==
  /\ h \in [Handlers -> [pc : HandlerPCs, copy : Statuses,
                         gen : 0..MaxGeneration, run : 0..MaxRun]]
  /\ \A t \in Handlers : HandlerReady(t)

TypeInv ==
  /\ TypeOK
  /\ Counted(st)
  /\ HandlersTyped
  /\ RetriesMinted
  /\ budget["runs"] <= MaxRun

\* A pod belongs to a Job that is live or was deleted under it; past its boot its worker
\* has read a generation.
PodsHaveJobs ==
  \A j \in Jobs :
    /\ w[j].pc # "none" => job[j] \in {"live", "deleted"}
    /\ w[j].pc \notin {"none", "boot"} => w[j].lgen \in Generations

\* A worker whose Job is deleted disturbs its generation, until nobody is at work there.
DisturbedWhileAtWork ==
  \A g \in Generations :
    /\ \A j \in AtWorkOn(g) : job[j] = "deleted" => g \in disturbed
    /\ g \in disturbed => AtWorkOn(g) # {}

\* The worker of an undisturbed generation holds its lease.
LeaseNamesWorker ==
  \A g \in Generations : \A j \in AtWorkOn(g) :
    g \notin disturbed => lease[g] = [holder |-> j, fresh |-> TRUE]

MutexInv ==
  /\ PodsHaveJobs
  /\ DisturbedWhileAtWork
  /\ LeaseNamesWorker
  /\ OneWorkerPerGeneration

\* Nobody knows of a generation that is yet to come, and what a worker reads is no older
\* than what its Job was created for.
WorkerPast(j) ==
  /\ w[j].pc \notin {"none", "boot"} => j[1] <= w[j].lgen /\ w[j].lgen <= gen
  /\ w[j].pc \notin {"none", "boot", "claim", "load"} =>
       w[j].lgen <= w[j].gen /\ w[j].gen <= gen

GenerationsPast ==
  /\ st.obs <= gen
  /\ \A t \in Handlers : h[t].copy.obs <= h[t].gen /\ h[t].gen <= gen
  /\ \A j \in Jobs : (job[j] # "absent" => j[1] <= gen) /\ WorkerPast(j)

\* A status that says completed names the Job that was; one that says nothing is empty.
Reported(status) ==
  /\ status.phase = "completed" => status.job \in Jobs /\ status.job[1] <= status.obs
  /\ status.phase = "none" => status = NoStatus

\* The event handler writes a completed status back only for a generation that came later.
StaleIfCompleted ==
  h["event"].pc = "patch" /\ h["event"].copy.phase = "completed" =>
    h["event"].copy.obs # h["event"].gen

Begun(j) == w[j].pc \in {"exec", "report", "pause", "label", "fail", "failed"}

\* The results are on disk when a worker is about to report them.
ReportsWhatIsSaved ==
  \A j \in Jobs : w[j].pc = "report" /\ gen = j[1] =>
    \/ artifact[gen] = [gen |-> gen, run |-> j[2], done |-> TRUE]
    \/ gen \in disturbed

\* No undisturbed worker writes after a run of its generation has been reported completed.
NoneBegunAfterCompletion ==
  st.phase = "completed" /\ gen = st.job[1] =>
    \A j \in Jobs : Begun(j) /\ j[1] = gen => gen \in disturbed

PastInv ==
  /\ GenerationsPast
  /\ Reported(st) /\ \A t \in Handlers : Reported(h[t].copy)
  /\ StaleIfCompleted

DiskInv == PastInv /\ ReportsWhatIsSaved /\ NoneBegunAfterCompletion

\* Approvals.  An environment with no rare event but decisions, leases that expire under
\* their holders, and pods that overtake the handler that queues their run.
Unasked == RareEvents \ {"decide", "overtake", "lapse"}
Calm == \A b \in Budgets : \A e \in Unasked : b[e] = 0

NothingHappens ==
  /\ gen = 1 /\ ~resumeDue /\ gw = "idle" /\ Idle("timer") /\ Idle("resume")
  /\ \A e \in Unasked : budget[e] = 0

\* One Job is created, by the handler of the first event.
Only == <<1, 1>>
Event == h["event"]

StatusOfOnly ==
  \/ st = NoStatus
  \/ /\ st.phase \in {"queued", "running", "waiting-approval", "completed", "failed"}
     /\ st.obs = 1 /\ st.run = 1 /\ st.job = Only

EnqueuesOnce ==
  \/ Event.pc = "idle"
  \/ /\ Event.gen = 1
     /\ \/ Event.pc = "check" /\ Reconciled(Event.copy, 1)
        \/ /\ Event.copy = NoStatus
           /\ \/ Event.pc \in {"check", "patch", "guard", "create"} /\ Event.run = 0 /\ nextRun = 1
              \/ Event.pc \in {"cancel", "queue"} /\ Event.run = 1 /\ nextRun # 1

OneRun ==
  /\ StatusOfOnly
  /\ EnqueuesOnce
  /\ \A j \in Jobs : j # Only => job[j] = "absent" /\ w[j].pc = "none"
  /\ job[Only] # "deleted"
  /\ w[Only].pc # "none" => job[Only] = "live"
  /\ w[Only].pc \notin {"none", "boot", "claim", "load"} => w[Only].gen = 1
  /\ nextRun = 1 => job[Only] = "absent" /\ st = NoStatus
  /\ nextRun # 1 => Event.pc \in {"cancel", "queue"} \/ st # NoStatus

\* The worker has labelled the workflow, or completed it, and starts no more.
HasPaused == w[Only].pc = "leave0" \/ (w[Only].pc = "none" /\ job[Only] = "succeeded")

Labels ==
  /\ label # 0 => label = 1 /\ HasPaused
  /\ st.phase = "waiting-approval" => st.pend = 1 /\ (w[Only].pc = "label" \/ label = 1)
  /\ ~Idle("approval") =>
       /\ HasPaused /\ st # NoStatus
       /\ h["approval"].copy.obs = 1 /\ h["approval"].copy.run = 1
       /\ h["approval"].pc = "deny" \/ (h["approval"].pc = "guard" /\ RunUnderWay)

CalmInv == NothingHappens /\ OneRun /\ Labels

USE GenerationsAssumption, RunsAssumption

-----------------------------------------------------------------------------
(* Statuses.                                                               *)

LEMMA NoStatusCounted == Counted(NoStatus) /\ Counted(TriggeredStatus)
  BY DEF Counted, NoStatus, TriggeredStatus, Statuses, Phases, Active, Terminal

LEMMA MergeCounted ==
  ASSUME NEW live, Counted(live), NEW copy, Counted(copy)
  PROVE  Counted(Merge(live, copy))
  BY DEF Counted, Merge, Statuses

LEMMA QueuedCounted ==
  ASSUME NEW live, Counted(live), NEW copy \in Statuses, Copied(copy),
         NEW generation \in Generations, NEW run \in Runs
  PROVE  Counted(QueuedStatus(live, copy, generation, run))
  BY DEF Counted, Copied, QueuedStatus, MatchesGeneration, Statuses, Phases, Active, Jobs,
         Generations, Runs

LEMMA WorkerStatusCounted ==
  ASSUME NEW live, Counted(live), NEW phase \in Phases, NEW j \in Jobs,
         NEW generation \in 0..MaxGeneration, NEW pend \in 0..MaxRun,
         NEW failed \in {"none", "failed", "denied"}
  PROVE  Counted(WorkerStatus(live, phase, j, generation, pend, failed))
  BY DEF Counted, WorkerStatus, Statuses, Jobs, Generations, Runs

LEMMA RetriedCounted ==
  ASSUME NEW live, Counted(live), NEW run \in Runs
  PROVE  Counted(RetriedStatus(live, run))
  BY DEF Counted, RetriedStatus, Statuses, Phases, Runs

LEMMA AutoRetryCopied ==
  ASSUME NEW copy, Counted(copy), NEW run \in Runs
  PROVE  AutoRetryStatus(copy, run) \in Statuses /\ Copied(AutoRetryStatus(copy, run))
  BY DEF Counted, Copied, AutoRetryStatus, Statuses, Phases, Runs
-----------------------------------------------------------------------------
(* The handlers keep their types.                                          *)

LEMMA StopTyped ==
  ASSUME HandlersTyped, NEW t \in Handlers, Stop(t)
  PROVE  HandlersTyped'
<1>1. IdleHandler \in [pc : HandlerPCs, copy : Statuses, gen : 0..MaxGeneration, run : 0..MaxRun]
  BY NoStatusCounted DEF IdleHandler, HandlerPCs, Counted
<1>2. Copied(IdleHandler.copy) /\ IdleHandler.copy.retries = 0 /\ IdleHandler.pc = "idle"
  BY NoStatusCounted DEF Counted, Copied, IdleHandler
<1>3. QED
  BY <1>1, <1>2 DEF HandlersTyped, HandlerReady, Stop

LEMMA GotoTyped ==
  ASSUME HandlersTyped, NEW t \in Handlers, NEW pc \in HandlerPCs \ {"decide"}, Goto(t, pc),
         h[t].pc # "idle", pc \in {"cancel", "queue"} => h[t].run \in Runs
  PROVE  HandlersTyped'
  BY DEF HandlersTyped, HandlerReady, Goto

LEMMA StartTyped ==
  ASSUME HandlersTyped, Counted(st), gen \in Generations,
         NEW t \in Handlers, NEW pc \in HandlerPCs \ {"cancel", "queue"}, NEW run \in 0..MaxRun,
         Start(t, pc, run)
  PROVE  HandlersTyped'
  BY DEF HandlersTyped, HandlerReady, Start, Counted, Copied, Generations

\* What of the type invariant the steps of handlers rely on.
LEMMA TypeFacts ==
  ASSUME TypeInv
  PROVE  /\ HandlersTyped /\ Counted(st) /\ gen \in Generations
         /\ nextRun \in Nat /\ (MayMint => nextRun \in Runs)
         /\ budget \in [RareEvents \cup {"runs"} -> Nat]
  BY DEF TypeInv, TypeOK, MayMint, Runs

LEMMA EventTyped ==
  ASSUME TypeInv, EventPickup \/ EventKill \/ EventCheck \/ EventPatch
  PROVE  HandlersTyped' /\ RetriesMinted'
<1> USE TypeFacts DEF HandlerPCs, Handlers
<1>1. CASE EventPickup
  <2>1. HandlersTyped'
    BY <1>1, StartTyped DEF EventPickup
  <2>2. h["timer"]' = h["timer"] /\ autoRetries' = autoRetries /\ nextRun' = nextRun
    BY <1>1 DEF EventPickup, Start, HandlersTyped
  <2>3. QED
    BY <2>1, <2>2 DEF TypeInv, RetriesMinted, Retrying
<1>2. CASE EventKill
  BY <1>2, GotoTyped DEF EventKill, TypeInv, RetriesMinted, Retrying, Goto, HandlersTyped
<1>3. CASE EventCheck
  BY <1>3, GotoTyped, StopTyped DEF EventCheck, TypeInv, RetriesMinted, Retrying, Goto, Stop, HandlersTyped
<1>4. CASE EventPatch
  BY <1>4, GotoTyped DEF EventPatch, TypeInv, RetriesMinted, Retrying, Goto, HandlersTyped
<1>5. QED
  BY <1>1, <1>2, <1>3, <1>4

LEMMA TimerTyped ==
  ASSUME TypeInv, ResumePickup \/ TimerFire \/ TimerRequeue \/ TimerAutoRetry \/ TimerIgnore
  PROVE  HandlersTyped' /\ RetriesMinted'
<1> USE TypeFacts DEF HandlerPCs, Handlers
<1>1. CASE ResumePickup
  <2>1. st.run \in 0..MaxRun
    BY DEF Counted, Statuses
  <2>2. HandlersTyped'
    BY <1>1, <2>1, StartTyped DEF ResumePickup, HandlersTyped, HandlerReady
  <2>3. h["timer"]' = h["timer"] /\ autoRetries' = autoRetries /\ nextRun' = nextRun
    BY <1>1 DEF ResumePickup, Start, HandlersTyped
  <2>4. QED
    BY <2>2, <2>3 DEF TypeInv, RetriesMinted, Retrying
<1>2. CASE TimerFire
  <2>1. st.run \in 0..MaxRun
    BY DEF Counted, Statuses
  <2>2. HandlersTyped'
    BY <1>2, <2>1, StartTyped DEF TimerFire
  <2>3. ~Retrying' /\ autoRetries' = autoRetries /\ nextRun' = nextRun
    BY <1>2 DEF TimerFire, Start, HandlersTyped, Retrying
  <2>4. QED
    BY <2>2, <2>3 DEF TypeInv, RetriesMinted
<1>3. CASE TimerRequeue
  <2>1. HandlersTyped'
    BY <1>3, GotoTyped DEF TimerRequeue
  <2>2. ~Retrying' /\ autoRetries' = autoRetries /\ nextRun' = nextRun
    BY <1>3 DEF TimerRequeue, MayRequeue, Goto, HandlersTyped, Retrying
  <2>3. QED
    BY <2>1, <2>2 DEF TypeInv, RetriesMinted
<1>4. CASE TimerAutoRetry
  <2> DEFINE copy == h["timer"].copy
             new  == AutoRetryStatus(copy, nextRun)
  <2>1. nextRun \in Runs /\ h["timer"].pc = "decide"
    BY <1>4 DEF TimerAutoRetry
  <2>2. h["timer"] \in [pc : HandlerPCs, copy : Statuses, gen : 0..MaxGeneration, run : 0..MaxRun]
    BY DEF HandlersTyped
  <2>3. Counted(copy)
    BY <2>1, <2>2 DEF HandlersTyped, HandlerReady, Counted
  <2>4. new \in Statuses /\ Copied(new)
    BY <2>1, <2>3, AutoRetryCopied
  <2>5. /\ h' \in [Handlers -> [pc : HandlerPCs, copy : Statuses,
                                gen : 0..MaxGeneration, run : 0..MaxRun]]
        /\ \A t \in Handlers \ {"timer"} : h'[t] = h[t]
        /\ h'["timer"].pc = "guard" /\ h'["timer"].copy = new
        /\ h'["timer"].gen = h["timer"].gen
    BY <1>4, <2>1, <2>2, <2>4 DEF TimerAutoRetry, HandlersTyped, Runs
  <2>6. HandlersTyped'
    BY <2>1, <2>4, <2>5 DEF HandlersTyped, HandlerReady
  <2>7. autoRetries' = autoRetries /\ nextRun' = nextRun + 1
    BY <1>4 DEF TimerAutoRetry
  <2>8. RetriesMinted'
    BY <2>7 DEF TypeInv, TypeOK, RetriesMinted
  <2>9. QED
    BY <2>6, <2>8
<1>5. CASE TimerIgnore
  <2>1. HandlersTyped'
    BY <1>5, StopTyped DEF TimerIgnore
  <2>2. ~Retrying' /\ autoRetries' = autoRetries /\ nextRun' = nextRun
    BY <1>5 DEF TimerIgnore, Stop, IdleHandler, HandlersTyped, Retrying
  <2>3. QED
    BY <2>1, <2>2 DEF TypeInv, RetriesMinted
<1>6. QED
  BY <1>1, <1>2, <1>3, <1>4, <1>5

LEMMA ApprovalTyped ==
  ASSUME TypeInv, ApprovalDeny \/ \E r \in Runs : ApprovalPickup(r)
  PROVE  HandlersTyped' /\ RetriesMinted'
<1> USE TypeFacts DEF HandlerPCs, Handlers
<1>1. ASSUME NEW r \in Runs, ApprovalPickup(r)
      PROVE  HandlersTyped' /\ RetriesMinted'
  <2>1. st.run \in 0..MaxRun
    BY SMTT(40) DEF Counted, Statuses
  <2>2. HandlersTyped'
    BY <1>1, <2>1, StartTyped DEF ApprovalPickup, ActOnApproval, HandlersTyped, HandlerReady
  <2>3. h["timer"]' = h["timer"] /\ autoRetries' = autoRetries /\ nextRun' = nextRun
    BY <1>1 DEF ApprovalPickup, ActOnApproval, Start, HandlersTyped
  <2>4. QED
    BY <2>2, <2>3 DEF TypeInv, RetriesMinted, Retrying
<1>2. CASE ApprovalDeny
  BY <1>2, StopTyped DEF ApprovalDeny, TypeInv, RetriesMinted, Retrying, Stop, HandlersTyped
<1>3. QED
  BY <1>1, <1>2

\* The run that a handler queues, and the Job it creates for it.
LEMMA ResolvedTyped ==
  ASSUME TypeInv, NEW t \in Handlers
  PROVE  ResolvedRun(t) \in 0..MaxRun
  BY TypeFacts DEF ResolvedRun, HandlersTyped, Statuses

LEMMA EnqueueTyped ==
  ASSUME TypeInv, NEW t \in Handlers, EnqueueStep(t)
  PROVE  HandlersTyped' /\ RetriesMinted'
<1> USE TypeFacts DEF HandlerPCs, Handlers
<1>1. CASE EnqueueSkip(t)
  BY <1>1, StopTyped DEF EnqueueSkip, TypeInv, RetriesMinted, Retrying, Stop, IdleHandler, HandlersTyped
<1>2. CASE EnqueueGo(t)
  BY <1>2, GotoTyped DEF EnqueueGo, TypeInv, RetriesMinted, Retrying, Goto, HandlersTyped
<1>3. CASE EnqueueCreate(t)
  <2> DEFINE run == IF ResolvedRun(t) = 0 THEN nextRun ELSE ResolvedRun(t)
  <2>1. run \in Runs /\ h[t].pc = "create"
    BY <1>3, ResolvedTyped DEF EnqueueCreate, Runs
  <2>2. /\ h' = [h EXCEPT ![t].pc = "cancel", ![t].run = run]
        /\ nextRun' \in {nextRun, nextRun + 1}
        /\ autoRetries' = IF t = "timer" /\ h[t].copy.phase = "pending"
                          THEN autoRetries + 1 ELSE autoRetries
    BY <1>3 DEF EnqueueCreate
  <2>3. HandlersTyped'
    BY <2>1, <2>2 DEF HandlersTyped, HandlerReady, Runs
  <2>4. RetriesMinted'
    <3>1. autoRetries < nextRun /\ autoRetries \in Nat
      BY DEF TypeInv, TypeOK, RetriesMinted
    <3>2. CASE t = "timer"
      <4>1. ~Retrying'
        BY <2>1, <2>2, <3>2 DEF HandlersTyped, Retrying
      <4>2. h[t].copy.phase = "pending" => Retrying
        BY <2>1, <3>2 DEF Retrying
      <4>3. QED
        BY <2>2, <3>1, <3>2, <4>1, <4>2 DEF TypeInv, RetriesMinted
    <3>3. CASE t # "timer"
      <4>1. h'["timer"] = h["timer"]
        BY <2>2, <3>3 DEF HandlersTyped
      <4>2. QED
        BY <2>2, <3>1, <3>3, <4>1 DEF TypeInv, RetriesMinted, Retrying
    <3>4. QED
      BY <3>2, <3>3
  <2>5. QED
    BY <2>3, <2>4
<1>4. CASE EnqueueCancel(t)
  <2>1. HandlersTyped'
    BY <1>4, GotoTyped DEF EnqueueCancel, HandlersTyped, HandlerReady
  <2>2. QED
    BY <1>4, <2>1, SMTT(40) DEF EnqueueCancel, TypeInv, RetriesMinted, Retrying, Goto, HandlersTyped
<1>5. CASE EnqueueQueue(t)
  BY <1>5, StopTyped DEF EnqueueQueue, TypeInv, RetriesMinted, Retrying, Stop, IdleHandler, HandlersTyped
<1>6. QED
  BY <1>1, <1>2, <1>3, <1>4, <1>5 DEF EnqueueStep

LEMMA StoppedTyped ==
  ASSUME TypeInv, OperatorRestart \/ \E t \in Handlers : HandlerFails(t)
  PROVE  HandlersTyped' /\ RetriesMinted'
<1> USE TypeFacts DEF HandlerPCs, Handlers
<1>1. ASSUME NEW t \in Handlers, HandlerFails(t)
      PROVE  HandlersTyped' /\ RetriesMinted'
  BY <1>1, StopTyped DEF HandlerFails, TypeInv, RetriesMinted, Retrying, Stop, IdleHandler, HandlersTyped
<1>2. CASE OperatorRestart
  <2>1. /\ IdleHandler \in [pc : HandlerPCs, copy : Statuses,
                            gen : 0..MaxGeneration, run : 0..MaxRun]
        /\ IdleHandler.pc = "idle" /\ Copied(IdleHandler.copy) /\ IdleHandler.copy.retries = 0
    BY NoStatusCounted DEF IdleHandler, Counted, Copied
  <2>2. h' = [t \in Handlers |-> IdleHandler] /\ autoRetries' = autoRetries /\ nextRun' = nextRun
    BY <1>2 DEF OperatorRestart
  <2>3. QED
    BY <2>1, <2>2 DEF TypeInv, RetriesMinted, Retrying, HandlersTyped, HandlerReady
<1>3. QED
  BY <1>1, <1>2

-----------------------------------------------------------------------------
(* The status keeps its type.                                              *)

LEMMA OperatorStatus ==
  ASSUME TypeInv, EventPatch \/ ApprovalDeny \/ \E t \in Handlers : EnqueueQueue(t)
  PROVE  Counted(st')
<1> USE TypeFacts
<1>1. CASE EventPatch
  <2>1. Counted(h["event"].copy)
    BY DEF HandlersTyped, HandlerReady, Counted, Handlers
  <2>2. QED
    BY <1>1, <2>1, MergeCounted DEF EventPatch
<1>2. CASE ApprovalDeny
  <2>1. h["approval"].copy \in Statuses
    BY DEF HandlersTyped, Handlers
  <2>2. QED
    BY <1>2, <2>1 DEF ApprovalDeny, Counted, Statuses, Phases, Terminal
<1>3. ASSUME NEW t \in Handlers, EnqueueQueue(t)
      PROVE  Counted(st')
  <2>1. h[t].copy \in Statuses /\ Copied(h[t].copy) /\ h[t].gen \in Generations /\ h[t].run \in Runs
    BY <1>3 DEF EnqueueQueue, HandlersTyped, HandlerReady
  <2>2. QED
    BY <1>3, <2>1, QueuedCounted DEF EnqueueQueue
<1>4. QED
  BY <1>1, <1>2, <1>3

WorkerWrites(j) ==
  WorkerBegin(j) \/ WorkerProgress(j) \/ WorkerReport(j) \/ WorkerReportPause(j)
    \/ WorkerStepFails(j) \/ WorkerReportFailure(j)

LEMMA WorkerStatusTyped ==
  ASSUME TypeInv, NEW j \in Jobs, WorkerWrites(j)
  PROVE  Counted(st')
<1>1. w[j].gen \in 0..MaxGeneration
  BY DEF TypeInv, TypeOK
<1>2. st.failed \in {"none", "failed", "denied"} /\ j[2] \in 0..MaxRun /\ 0 \in 0..MaxRun
  BY TypeFacts DEF Counted, Statuses, Jobs, Runs
<1>3. {"running", "completed", "waiting-approval", "failed"} \subseteq Phases
  BY DEF Phases, Active, Terminal
<1> USE <1>1, <1>2, <1>3, TypeFacts, WorkerStatusCounted
<1>4. CASE WorkerBegin(j)
  BY <1>4 DEF WorkerBegin
<1>5. CASE WorkerProgress(j)
  BY <1>5 DEF WorkerProgress
<1>6. CASE WorkerReport(j)
  BY <1>6 DEF WorkerReport
<1>7. CASE WorkerReportPause(j)
  BY <1>7 DEF WorkerReportPause
<1>8. CASE WorkerStepFails(j)
  BY <1>8 DEF WorkerStepFails
<1>9. CASE WorkerReportFailure(j)
  BY <1>9 DEF WorkerReportFailure
<1>10. QED
  BY <1>4, <1>5, <1>6, <1>7, <1>8, <1>9 DEF WorkerWrites

LEMMA GatewayStatus ==
  ASSUME TypeInv, TriggerReset \/ RetryPatch \/ CancelPatch
  PROVE  Counted(st')
<1>1. CASE TriggerReset
  BY <1>1, TypeFacts, NoStatusCounted DEF TriggerReset
<1>2. CASE RetryPatch
  BY <1>2, TypeFacts, RetriedCounted DEF RetryPatch
<1>3. CASE CancelPatch
  BY <1>3, TypeFacts DEF CancelPatch, Counted, Statuses, Phases, Terminal
<1>4. QED
  BY <1>1, <1>2, <1>3

-----------------------------------------------------------------------------
(* Every step keeps the types.                                             *)

\* The type invariant without the status, the handlers and the history of disturbances.
OtherTypes ==
  /\ gen \in Generations /\ label \in 0..MaxRun
  /\ approval \in [Runs -> {"unneeded", "none", "pending", "approved", "denied"}]
  /\ job \in [Jobs -> {"absent", "live", "succeeded", "failed", "deleted"}]
  /\ tries \in [Jobs -> 0..2]
  /\ w \in [Jobs -> [pc : WorkerPCs, lgen : 0..MaxGeneration,
                     gen : 0..MaxGeneration, failed : {"none", "failed"}]]
  /\ artifact \in [Generations -> [gen : 0..MaxGeneration, run : 0..MaxRun, done : BOOLEAN]]
  /\ lease \in [Generations -> [holder : Jobs \cup {NoJob}, fresh : BOOLEAN]]
  /\ row \in [Generations -> 0..MaxRun]
  /\ handled \in [phase : Phases, run : 0..MaxRun, gen : 0..MaxGeneration]
  /\ answered \subseteq Runs /\ resumeDue \in BOOLEAN
  /\ gw \in {"idle", "reset", "retry", "cancel"}
  /\ nextRun \in 1..(MaxRun + 1)
  /\ budget \in [RareEvents \cup {"runs"} -> Nat] /\ budget["runs"] <= MaxRun
  /\ autoRetries \in Nat

LEMMA TypeInvParts ==
  TypeInv <=> OtherTypes /\ Counted(st) /\ HandlersTyped /\ RetriesMinted /\ disturbed \subseteq Generations
<1>1. TypeInv => OtherTypes /\ Counted(st) /\ HandlersTyped /\ RetriesMinted /\ disturbed \subseteq Generations
  BY DEF TypeInv, TypeOK, OtherTypes
<1>2. OtherTypes /\ RetriesMinted => autoRetries \in 0..MaxRun
  BY DEF OtherTypes, RetriesMinted
<1>3. OtherTypes /\ Counted(st) /\ HandlersTyped /\ RetriesMinted /\ disturbed \subseteq Generations => TypeInv
  BY <1>2 DEF TypeInv, TypeOK, OtherTypes, Counted, HandlersTyped
<1>4. QED
  BY <1>1, <1>3

\* Paying for a rare event leaves the bound on runs alone.
LEMMA SpendTyped ==
  ASSUME budget \in [RareEvents \cup {"runs"} -> Nat], budget["runs"] <= MaxRun,
         NEW event \in RareEvents, Spend(event)
  PROVE  budget' \in [RareEvents \cup {"runs"} -> Nat] /\ budget'["runs"] <= MaxRun
  BY DEF Spend, RareEvents

LEMMA JobsWithoutTyped ==
  ASSUME OtherTypes, NEW j
  PROVE  JobsWithout(j) \in [Jobs -> {"absent", "live", "succeeded", "failed", "deleted"}]
  BY DEF OtherTypes, JobsWithout

OperatorStep ==
  \/ EventPickup \/ ResumePickup \/ TimerFire \/ HandlerStep
  \/ \E r \in Runs : ApprovalPickup(r)
  \/ \E t \in Handlers : HandlerFails(t)
  \/ OperatorRestart

LEMMA OperatorOthers ==
  ASSUME TypeInv, OperatorStep
  PROVE  OtherTypes'
<1> USE DEF OtherTypes
<1>0. OtherTypes /\ Counted(st)
  BY TypeInvParts
<1>1. CASE EventPickup
  <2>1. Essence \in [phase : Phases, run : 0..MaxRun, gen : 0..MaxGeneration]
    BY <1>0 DEF Essence, Counted, Statuses, Generations
  <2>2. row' \in [Generations -> 0..MaxRun]
    BY <1>0, <1>1 DEF EventPickup, Counted, Statuses
  <2>3. QED
    BY <1>0, <1>1, <2>1, <2>2 DEF EventPickup, kube, user
<1>2. CASE ResumePickup
  BY <1>0, <1>2 DEF ResumePickup, kube, user
<1>3. CASE TimerFire
  BY <1>0, <1>3, SpendTyped DEF TimerFire, kube, user, RareEvents
<1>4. CASE EventKill
  BY <1>0, <1>4, JobsWithoutTyped DEF EventKill, user
<1>5. CASE EventCheck \/ EventPatch \/ ApprovalDeny \/ TimerRequeue \/ TimerIgnore
  BY <1>0, <1>5 DEF EventCheck, EventPatch, ApprovalDeny, TimerRequeue, TimerIgnore, kube, user
<1>6. CASE TimerAutoRetry
  BY <1>0, <1>6 DEF TimerAutoRetry, MayMint, kube, user
<1>7. ASSUME NEW t \in Handlers, EnqueueStep(t)
      PROVE  OtherTypes'
  <2>1. CASE EnqueueSkip(t) \/ EnqueueQueue(t)
    BY <1>0, <2>1 DEF EnqueueSkip, EnqueueQueue, kube, user
  <2>2. CASE EnqueueGo(t)
    BY <1>0, <2>2, SpendTyped DEF EnqueueGo, kube, user, RareEvents
  <2>3. CASE EnqueueCreate(t)
    <3>0. PICK j : \/ job' = [job EXCEPT ![j] = "live"] /\ tries' = [tries EXCEPT ![j] = 0]
                   \/ UNCHANGED <<job, tries>>
      BY <2>3 DEF EnqueueCreate
    <3>1. job' \in [Jobs -> {"absent", "live", "succeeded", "failed", "deleted"}]
      BY <1>0, <3>0
    <3>2. tries' \in [Jobs -> 0..2]
      BY <1>0, <3>0
    <3>3. nextRun' \in 1..(MaxRun + 1) /\ autoRetries' \in Nat
      BY <1>0, <2>3 DEF EnqueueCreate, MayMint
    <3>4. UNCHANGED <<gen, st, label, w, artifact, lease, handled, answered, resumeDue,
                      row, gw, approval, budget>>
      BY <2>3 DEF EnqueueCreate, user
    <3>5. QED
      BY <1>0, <3>1, <3>2, <3>3, <3>4
  <2>4. CASE EnqueueCancel(t)
    BY <1>0, <2>4, JobsWithoutTyped DEF EnqueueCancel, user
  <2>5. QED
    BY <1>7, <2>1, <2>2, <2>3, <2>4 DEF EnqueueStep
<1>8. ASSUME NEW r \in Runs, ApprovalPickup(r)
      PROVE  OtherTypes'
  BY <1>0, <1>8, SpendTyped DEF ApprovalPickup, kube, user, RareEvents
<1>9. NotHandled \in [phase : Phases, run : 0..MaxRun, gen : 0..MaxGeneration]
  BY DEF NotHandled, Phases
<1>10. ASSUME NEW t \in Handlers, HandlerFails(t)
       PROVE  OtherTypes'
  BY <1>0, <1>9, <1>10, SpendTyped DEF HandlerFails, kube, user, RareEvents
<1>11. CASE OperatorRestart
  BY <1>0, <1>9, <1>11, SpendTyped DEF OperatorRestart, kube, user, RareEvents
<1>12. QED
  BY <1>1, <1>2, <1>3, <1>4, <1>5, <1>6, <1>7, <1>8, <1>10, <1>11 DEF OperatorStep, HandlerStep

PodStep(j) == PodStart(j) \/ WorkerStep(j) \/ WorkerProgress(j) \/ PodCrash(j)

Workers == [Jobs -> [pc : WorkerPCs, lgen : 0..MaxGeneration,
                     gen : 0..MaxGeneration, failed : {"none", "failed"}]]

LEMMA PodEndsTyped ==
  ASSUME OtherTypes, NEW j \in Jobs, NEW ok \in BOOLEAN, PodEnds(j, ok)
  PROVE  /\ w' \in Workers
         /\ job' \in [Jobs -> {"absent", "live", "succeeded", "failed", "deleted"}]
  BY DEF OtherTypes, PodEnds, NoWorker, WorkerPCs, Workers

LEMMA SaveTyped ==
  ASSUME OtherTypes, NEW j \in Jobs, NEW done \in BOOLEAN, Save(j, done)
  PROVE  artifact' \in [Generations -> [gen : 0..MaxGeneration, run : 0..MaxRun, done : BOOLEAN]]
<1>1. j[1] \in Generations /\ j[2] \in 0..MaxRun /\ w[j].gen \in 0..MaxGeneration
  BY SMTT(40) DEF OtherTypes, Jobs, Runs
<1>2. QED
  BY <1>1 DEF OtherTypes, Save

LEMMA MoveTyped ==
  ASSUME w \in Workers, NEW j \in Jobs, NEW pc \in WorkerPCs, NEW g \in 0..MaxGeneration,
         NEW failed \in {"none", "failed"}
  PROVE  /\ [w EXCEPT ![j].pc = pc] \in Workers
         /\ [w EXCEPT ![j].pc = pc, ![j].lgen = g] \in Workers
         /\ [w EXCEPT ![j].gen = g, ![j].pc = pc] \in Workers
         /\ [w EXCEPT ![j].pc = pc, ![j].failed = failed] \in Workers
  BY DEF Workers

LEMMA PodOthers ==
  ASSUME TypeInv, NEW j \in Jobs, PodStep(j)
  PROVE  OtherTypes'
<1> USE DEF WorkerPCs
<1>0. /\ OtherTypes /\ Counted(st) /\ w \in Workers
      /\ j[2] \in 0..MaxRun /\ gen \in 0..MaxGeneration
  <2>1. OtherTypes /\ Counted(st)
    BY TypeInvParts
  <2>2. j[2] \in 0..MaxRun
    BY DEF Jobs, Runs
  <2>3. w \in Workers /\ gen \in 0..MaxGeneration
    BY <2>1 DEF OtherTypes, Workers, Generations
  <2>4. QED
    BY <2>1, <2>2, <2>3
<1>1. CASE PodStart(j)
  <2>1. w' \in Workers
    BY <1>0, <1>1, MoveTyped DEF PodStart
  <2>2. QED
    BY <1>0, <1>1, <2>1, SMTT(40) DEF PodStart, PodsPerJob, OtherTypes, Workers, oper, user
<1>2. CASE WorkerBoot(j)
  <2>1. /\ w' \in Workers
        /\ job' \in [Jobs -> {"absent", "live", "succeeded", "failed", "deleted"}]
    <3>1. CASE PodEnds(j, FALSE)
      BY <1>0, <3>1, PodEndsTyped
    <3>2. CASE ~PodEnds(j, FALSE)
      <4>1. job' = job /\ w' = [w EXCEPT ![j].pc = "claim", ![j].lgen = gen]
        BY <1>2, <3>2 DEF WorkerBoot
      <4>2. w' \in Workers
        BY <1>0, <4>1, MoveTyped
      <4>3. QED
        BY <1>0, <4>1, <4>2 DEF OtherTypes
    <3>3. QED
      BY <3>1, <3>2
  <2>2. QED
    BY <1>0, <1>2, <2>1 DEF WorkerBoot, OtherTypes, Workers, oper, user
<1>3. CASE WorkerClaim(j)
  <2>1. /\ w' \in Workers
        /\ job' \in [Jobs -> {"absent", "live", "succeeded", "failed", "deleted"}]
    <3>1. CASE PodEnds(j, FALSE)
      BY <1>0, <3>1, PodEndsTyped
    <3>2. CASE ~PodEnds(j, FALSE)
      <4>1. job' = job /\ w' = [w EXCEPT ![j].pc = "load"]
        BY <1>3, <3>2 DEF WorkerClaim
      <4>2. w' \in Workers
        BY <1>0, <4>1, MoveTyped
      <4>3. QED
        BY <1>0, <4>1, <4>2 DEF OtherTypes
    <3>3. QED
      BY <3>1, <3>2
  <2>2. lease' \in [Generations -> [holder : Jobs \cup {NoJob}, fresh : BOOLEAN]]
    <3>1. lease' = lease \/ lease' = [lease EXCEPT ![w[j].lgen] = [holder |-> j, fresh |-> TRUE]]
      BY <1>3 DEF WorkerClaim
    <3>2. lease \in [Generations -> [holder : Jobs \cup {NoJob}, fresh : BOOLEAN]]
      BY <1>0 DEF OtherTypes
    <3>3. [holder |-> j, fresh |-> TRUE] \in [holder : Jobs \cup {NoJob}, fresh : BOOLEAN]
      OBVIOUS
    <3>4. QED
      BY <3>1, <3>2, <3>3
  <2>3. QED
    BY <1>0, <1>3, <2>1, <2>2 DEF WorkerClaim, OtherTypes, Workers, oper, user
<1>4. CASE WorkerLoad(j)
  <2>1. w' \in Workers
    BY <1>0, <1>4, MoveTyped DEF WorkerLoad
  <2>2. label' \in 0..MaxRun
    BY <1>0, <1>4 DEF WorkerLoad, OtherTypes
  <2>3. QED
    BY <1>0, <1>4, <2>1, <2>2, SMTT(40) DEF WorkerLoad, OtherTypes, Workers, oper, user
<1>5. CASE WorkerBegin(j)
  <2>1. w' \in Workers
    BY <1>0, <1>5, MoveTyped DEF WorkerBegin
  <2>2. budget' \in [RareEvents \cup {"runs"} -> Nat] /\ budget'["runs"] <= MaxRun
    BY <1>0, <1>5, SpendTyped DEF WorkerBegin, RareEvents, OtherTypes
  <2>3. QED
    BY <1>0, <1>5, <2>1, <2>2, SMTT(40) DEF WorkerBegin, OtherTypes, Workers, oper, user
<1>6. CASE WorkerProgress(j)
  BY <1>0, <1>6 DEF WorkerProgress, OtherTypes, kube, oper, user
<1>7. CASE \/ WorkerReport(j) \/ WorkerReportPause(j) \/ WorkerReportFailure(j)
           \/ WorkerLabel(j) \/ WorkerAbort(j)
  <2>1. w' \in Workers
    BY <1>0, <1>7, MoveTyped
       DEF WorkerReport, WorkerReportPause, WorkerReportFailure, WorkerLabel, WorkerAbort
  <2>2. label' \in 0..MaxRun
    BY <1>0, <1>7
       DEF WorkerReport, WorkerReportPause, WorkerReportFailure, WorkerLabel, WorkerAbort, OtherTypes
  <2>3. budget' \in [RareEvents \cup {"runs"} -> Nat] /\ budget'["runs"] <= MaxRun
    BY <1>0, <1>7, SpendTyped DEF WorkerReport, WorkerReportPause, WorkerReportFailure,
       WorkerLabel, WorkerAbort, RareEvents, OtherTypes
  <2>4. QED
    BY <1>0, <1>7, <2>1, <2>2, <2>3, SMTT(40) DEF WorkerReport, WorkerReportPause,
       WorkerReportFailure, WorkerLabel, WorkerAbort, OtherTypes, Workers, oper, user
<1>8. CASE WorkerFinish(j) \/ WorkerPause(j) \/ WorkerStepFails(j) \/ WorkerSaveFailure(j)
  <2>1. w' \in Workers
    BY <1>0, <1>8, MoveTyped, ZenonT(60) DEF WorkerFinish, WorkerPause, WorkerStepFails, WorkerSaveFailure
  <2>2. PICK done \in BOOLEAN : Save(j, done)
    BY <1>8 DEF WorkerFinish, WorkerPause, WorkerStepFails, WorkerSaveFailure
  <2>3. artifact' \in [Generations -> [gen : 0..MaxGeneration, run : 0..MaxRun, done : BOOLEAN]]
    BY <1>0, <2>2, SaveTyped
  <2>4. /\ approval' = approval \/ approval' = [approval EXCEPT ![j[2]] = "pending"]
        /\ label' \in {label, 0}
        /\ UNCHANGED <<gen, job, tries, lease, oper, gw, nextRun, budget>>
    BY <1>8 DEF WorkerFinish, WorkerPause, WorkerStepFails, WorkerSaveFailure, user
  <2>5. QED
    BY <1>0, <2>1, <2>3, <2>4, SMTT(40) DEF OtherTypes, Workers, oper
<1>9. CASE WorkerLeave(j)
  <2>1. lease' \in [Generations -> [holder : Jobs \cup {NoJob}, fresh : BOOLEAN]]
    BY <1>0, <1>9 DEF WorkerLeave, NoLease, OtherTypes
  <2>2. w' \in Workers /\ job' \in [Jobs -> {"absent", "live", "succeeded", "failed", "deleted"}]
    BY <1>0, <1>9, PodEndsTyped DEF WorkerLeave
  <2>3. QED
    BY <1>0, <1>9, <2>1, <2>2 DEF WorkerLeave, OtherTypes, Workers, oper, user
<1>10. CASE PodCrash(j)
  <2>1. budget' \in [RareEvents \cup {"runs"} -> Nat] /\ budget'["runs"] <= MaxRun
    BY <1>0, <1>10, SpendTyped DEF PodCrash, RareEvents, OtherTypes
  <2>2. w' \in Workers /\ job' \in [Jobs -> {"absent", "live", "succeeded", "failed", "deleted"}]
    BY <1>0, <1>10, PodEndsTyped DEF PodCrash
  <2>3. QED
    BY <1>0, <1>10, <2>1, <2>2 DEF PodCrash, OtherTypes, Workers, oper, user
<1>11. QED
  BY <1>1, <1>2, <1>3, <1>4, <1>5, <1>6, <1>7, <1>8, <1>9, <1>10 DEF PodStep, WorkerStep

RequestStep ==
  \/ Trigger \/ TriggerReset \/ RetryCheck \/ RetryPatch \/ CancelCheck \/ CancelPatch
  \/ \E r \in Runs : Decide(r)

LEMMA RequestOthers ==
  ASSUME TypeInv, RequestStep
  PROVE  OtherTypes'
<1> USE DEF OtherTypes, RareEvents
<1>0. OtherTypes
  BY TypeInvParts
<1>1. CASE Trigger
  <2>1. NotHandled \in [phase : Phases, run : 0..MaxRun, gen : 0..MaxGeneration]
    BY DEF NotHandled, Phases
  <2>2. QED
    BY <1>0, <1>1, <2>1, SpendTyped DEF Trigger, kube
<1>2. CASE TriggerReset
  BY <1>0, <1>2, SpendTyped DEF TriggerReset, kube, oper
<1>3. CASE RetryCheck \/ CancelCheck
  BY <1>0, <1>3, SpendTyped DEF RetryCheck, CancelCheck, kube, oper
<1>4. CASE RetryPatch \/ CancelPatch
  BY <1>0, <1>4 DEF RetryPatch, CancelPatch, MayMint, kube, oper
<1>5. ASSUME NEW r \in Runs, Decide(r)
      PROVE  OtherTypes'
  BY <1>0, <1>5, SpendTyped DEF Decide, kube, oper
<1>6. QED
  BY <1>1, <1>2, <1>3, <1>4, <1>5 DEF RequestStep

LEMMA PodLeavesOperator ==
  ASSUME NEW j \in Jobs, PodStep(j)
  PROVE  UNCHANGED <<h, autoRetries, nextRun, gen>> /\ (st' = st \/ WorkerWrites(j))
  BY DEF PodStep, PodStart, WorkerStep, WorkerBoot, WorkerClaim, WorkerLoad, WorkerFinish, WorkerBegin,
     WorkerPause, WorkerLabel, WorkerAbort, WorkerSaveFailure, WorkerLeave, PodCrash, WorkerProgress,
     WorkerReport, WorkerReportPause, WorkerStepFails, WorkerReportFailure, WorkerWrites, oper, kube, user

LEMMA RequestLeavesOperator ==
  ASSUME TypeInv, RequestStep
  PROVE  /\ UNCHANGED <<h, autoRetries>> /\ nextRun' \in {nextRun, nextRun + 1}
         /\ st' = st \/ TriggerReset \/ RetryPatch \/ CancelPatch
  BY DEF RequestStep, Trigger, RetryCheck, CancelCheck, Decide, TriggerReset, RetryPatch, CancelPatch,
     oper, kube, user

LEMMA OperatorLeavesStatus ==
  ASSUME OperatorStep
  PROVE  st' = st \/ EventPatch \/ ApprovalDeny \/ \E t \in Handlers : EnqueueQueue(t)
  BY DEF OperatorStep, HandlerStep, EventPickup, ResumePickup, TimerFire, EventKill, EventCheck,
     TimerRequeue, TimerAutoRetry, TimerIgnore, EnqueueStep, EnqueueSkip, EnqueueGo, EnqueueCreate,
     EnqueueCancel, ApprovalPickup, HandlerFails, OperatorRestart

\* A step is one of the operator, of a pod, of the API server or of a user.
LEMMA StepKinds ==
  Step <=> \/ OperatorStep \/ RequestStep
           \/ \E j \in Jobs : PodStep(j)
           \/ \E g \in Generations : LeaseChanges(g)
  BY DEF Step, OperatorStep, RequestStep, PodStep

\* What the time, or a renewal, does to a lease.
LEMMA LeaseAlone ==
  ASSUME NEW g \in Generations, LeaseChanges(g)
  PROVE  /\ \E b \in BOOLEAN : lease' = [lease EXCEPT ![g].fresh = b]
         /\ lease' = [lease EXCEPT ![g].fresh = FALSE] \/ LeaseRenewed(g)
         /\ UNCHANGED <<gen, st, label, job, tries, w, artifact, oper, user, nextRun>>
         /\ UNCHANGED budget \/ Spend("lapse")
<1>1. CASE LeaseExpires(g)
  BY <1>1 DEF LeaseExpires
<1>2. CASE LeaseLapses(g)
  BY <1>2 DEF LeaseLapses
<1>3. CASE LeaseRenewed(g)
  BY <1>3 DEF LeaseRenewed
<1> QED
  BY <1>1, <1>2, <1>3 DEF LeaseChanges

LEMMA TypeInvInit == Init => TypeInv
<1> SUFFICES ASSUME Init PROVE TypeInv
  OBVIOUS
<1>1. Counted(st) /\ disturbed \subseteq Generations
  BY NoStatusCounted DEF Init
<1>2. HandlersTyped /\ RetriesMinted
  BY NoStatusCounted DEF Init, HandlersTyped, HandlerReady, RetriesMinted, Retrying, IdleHandler,
     HandlerPCs, Counted, Copied, Handlers
<1>3. budget \in [RareEvents \cup {"runs"} -> Nat] /\ budget["runs"] <= MaxRun
  BY LifecycleAssumption DEF Init
<1>4. /\ w \in Workers
      /\ artifact \in [Generations -> [gen : 0..MaxGeneration, run : 0..MaxRun, done : BOOLEAN]]
      /\ lease \in [Generations -> [holder : Jobs \cup {NoJob}, fresh : BOOLEAN]]
      /\ handled \in [phase : Phases, run : 0..MaxRun, gen : 0..MaxGeneration]
  BY DEF Init, Workers, NoWorker, WorkerPCs, NoArtifact, NoLease, NotHandled, Phases
<1>5. approval \in [Runs -> {"unneeded", "none", "pending", "approved", "denied"}]
  BY DEF Init
<1>6. OtherTypes
  <2>1. /\ job \in [Jobs -> {"absent", "live", "succeeded", "failed", "deleted"}]
        /\ tries \in [Jobs -> 0..2] /\ row \in [Generations -> 0..MaxRun]
    BY DEF Init
  <2>2. /\ gen \in Generations /\ label \in 0..MaxRun /\ answered \subseteq Runs
        /\ resumeDue \in BOOLEAN /\ gw = "idle" /\ nextRun \in 1..(MaxRun + 1) /\ autoRetries \in Nat
    <3>1. 1 \in Generations /\ 0 \in 0..MaxRun /\ 1 \in 1..(MaxRun + 1)
      BY DEF Generations
    <3>2. QED
      BY <3>1 DEF Init
  <2>3. QED
    BY <1>3, <1>4, <1>5, <2>1, <2>2 DEF OtherTypes, Workers
<1>7. QED
  BY <1>1, <1>2, <1>6, TypeInvParts

LEMMA TypeInvFromParts ==
  ASSUME OtherTypes', Counted(st'), HandlersTyped', RetriesMinted', disturbed' \subseteq Generations
  PROVE  TypeInv'
<1>1. autoRetries' \in 0..MaxRun
  BY DEF OtherTypes, RetriesMinted
<1>2. TypeOK'
  BY <1>1 DEF TypeOK, OtherTypes, Counted, HandlersTyped
<1>3. QED
  BY <1>2 DEF TypeInv, OtherTypes, Counted

LEMMA TypeInvNext ==
  ASSUME TypeInv, [Next]_allVars
  PROVE  TypeInv'
<1>1. CASE Step /\ Disturb
  <2>1. disturbed' \subseteq Generations
    BY <1>1 DEF Disturb
  <2>2. CASE OperatorStep
    <3>1. HandlersTyped' /\ RetriesMinted'
      BY <2>2, EventTyped, TimerTyped, ApprovalTyped, EnqueueTyped, StoppedTyped
         DEF OperatorStep, HandlerStep
    <3>2. Counted(st')
      BY <2>2, OperatorLeavesStatus, OperatorStatus, TypeInvParts
    <3>3. QED
      BY <2>1, <2>2, <3>1, <3>2, OperatorOthers, TypeInvFromParts
  <2>3. CASE RequestStep
    <3>1. HandlersTyped' /\ RetriesMinted'
      BY <2>3, RequestLeavesOperator, TypeFacts
         DEF TypeInv, TypeOK, HandlersTyped, HandlerReady, RetriesMinted, Retrying
    <3>2. Counted(st')
      BY <2>3, RequestLeavesOperator, GatewayStatus, TypeInvParts
    <3>3. QED
      BY <2>1, <2>3, <3>1, <3>2, RequestOthers, TypeInvFromParts
  <2>4. ASSUME NEW j \in Jobs, PodStep(j)
        PROVE  TypeInv'
    <3>1. HandlersTyped' /\ RetriesMinted'
      BY <2>4, PodLeavesOperator DEF TypeInv, HandlersTyped, HandlerReady, RetriesMinted, Retrying
    <3>2. Counted(st')
      BY <2>4, PodLeavesOperator, WorkerStatusTyped, TypeInvParts
    <3>3. QED
      BY <2>1, <2>4, <3>1, <3>2, PodOthers, TypeInvFromParts
  <2>5. ASSUME NEW g \in Generations, LeaseChanges(g)
        PROVE  TypeInv'
    <3>1. lease' \in [Generations -> [holder : Jobs \cup {NoJob}, fresh : BOOLEAN]]
      <4>1. lease \in [Generations -> [holder : Jobs \cup {NoJob}, fresh : BOOLEAN]]
        BY DEF TypeInv, TypeOK
      <4>2. PICK b \in BOOLEAN : lease' = [lease EXCEPT ![g].fresh = b]
        BY <2>5, LeaseAlone
      <4>3. QED
        BY <4>1, <4>2
    <3>2. budget' \in [RareEvents \cup {"runs"} -> Nat] /\ budget'["runs"] <= MaxRun
      BY <2>5, LeaseAlone, SpendTyped, TypeInvParts DEF OtherTypes, RareEvents
    <3>3. OtherTypes'
      BY <2>5, <3>1, <3>2, LeaseAlone, TypeInvParts DEF OtherTypes, oper, user
    <3>4. Counted(st') /\ HandlersTyped' /\ RetriesMinted'
      BY <2>5, LeaseAlone, TypeInvParts DEF Counted, HandlersTyped, HandlerReady,
         RetriesMinted, Retrying, oper, user
    <3>5. QED
      BY <2>1, <3>3, <3>4, TypeInvFromParts
  <2>6. QED
    BY <1>1, <2>2, <2>3, <2>4, <2>5, StepKinds
<1>2. CASE UNCHANGED allVars
  BY <1>2 DEF allVars, vars, kube, oper, user, TypeInv, TypeOK, Counted, HandlersTyped, HandlerReady,
     RetriesMinted, Retrying
<1>3. QED
  BY <1>1, <1>2 DEF Next

\* Every variable of the lifecycle keeps its type; in particular no Job gets more pods than
\* its backoffLimit allows, no run id is used that was not minted, and the watchdog's
\* retries are no more than the runs (run_workflow_watchdog).
THEOREM LifecycleTyped == Spec => []TypeOK
<1>1. TypeInv => TypeOK
  BY DEF TypeInv
<1>2. QED
  BY <1>1, TypeInvInit, TypeInvNext, PTL DEF Spec

-----------------------------------------------------------------------------
(* The workers of a generation are kept apart.                             *)

\* What the history records, whatever the step did.
LEMMA DisturbRecords ==
  ASSUME Disturb
  PROVE  /\ DisturbedWhileAtWork'
         /\ \A g \in Generations : AtWorkOn(g)' # {} /\ g \in disturbed => g \in disturbed'
  BY DEF Disturb, DisturbedWhileAtWork

\* A step after which nobody is at work who was not, and that leaves the lease of an
\* undisturbed generation to the worker that is.
LEMMA NobodyEnters ==
  ASSUME MutexInv, Disturb, PodsHaveJobs',
         \A g \in Generations : AtWorkOn(g)' \subseteq AtWorkOn(g),
         \A g \in Generations : AtWorkOn(g)' # {} /\ g \notin disturbed' => lease'[g] = lease[g]
  PROVE  MutexInv'
<1>1. DisturbedWhileAtWork'
  BY DisturbRecords
<1>2. ASSUME NEW g \in Generations, NEW j \in AtWorkOn(g)', g \notin disturbed'
      PROVE  lease'[g] = [holder |-> j, fresh |-> TRUE]
  <2>1. g \notin disturbed /\ j \in AtWorkOn(g)
    BY <1>2, DisturbRecords
  <2>2. QED
    BY <1>2, <2>1 DEF MutexInv, LeaseNamesWorker
<1>3. ASSUME NEW g \in Generations, NEW i \in AtWorkOn(g)', NEW j \in AtWorkOn(g)', i # j
      PROVE  g \in disturbed'
  <2>1. g \in disturbed
    BY <1>3 DEF MutexInv, OneWorkerPerGeneration
  <2>2. QED
    BY <1>3, <2>1, DisturbRecords
<1>4. QED
  BY <1>1, <1>2, <1>3 DEF MutexInv, LeaseNamesWorker, OneWorkerPerGeneration

LEMMA WorkersStay ==
  ASSUME UNCHANGED w
  PROVE  \A g \in Generations : AtWorkOn(g)' = AtWorkOn(g)
  BY DEF AtWorkOn, AtWork

\* The operator deletes and creates Jobs; it creates none for which there is a pod.
LEMMA OperatorJobs ==
  ASSUME OperatorStep
  PROVE  /\ UNCHANGED <<w, lease, artifact, gen>>
         /\ \/ job' = job
            \/ \E j : job' = JobsWithout(j)
            \/ \E j : job' = [job EXCEPT ![j] = "live"] /\ (job[j] = "deleted" => w[j].pc = "none")
<1>1. CASE \E t \in Handlers : EnqueueCreate(t)
  BY <1>1 DEF EnqueueCreate
<1>2. CASE EventKill \/ \E t \in Handlers : EnqueueCancel(t)
  BY <1>2 DEF EventKill, EnqueueCancel
<1>3. CASE ~(\E t \in Handlers : EnqueueCreate(t) \/ EnqueueCancel(t)) /\ ~EventKill
  BY <1>3 DEF OperatorStep, HandlerStep, EventPickup, ResumePickup, TimerFire, EventCheck, EventPatch,
     ApprovalDeny, TimerRequeue, TimerAutoRetry, TimerIgnore, EnqueueStep, EnqueueSkip, EnqueueGo,
     EnqueueQueue, ApprovalPickup, HandlerFails, OperatorRestart, kube
<1>4. QED
  BY <1>1, <1>2, <1>3

LEMMA OperatorMutex ==
  ASSUME TypeInv, MutexInv, OperatorStep, Disturb
  PROVE  MutexInv'
<1>1. job \in [Jobs -> {"absent", "live", "succeeded", "failed", "deleted"}]
  BY DEF TypeInv, TypeOK
<1>2. PodsHaveJobs'
  BY <1>1, OperatorJobs DEF MutexInv, PodsHaveJobs, JobsWithout
<1>3. QED
  BY <1>2, OperatorJobs, WorkersStay, NobodyEnters

\* A step of a worker at work that goes on working.
Continues(j) ==
  /\ j \in AtWork
  /\ \E pc \in WorkerPCs \ {"none", "boot", "claim"} : w'[j].pc = pc
  /\ w'[j].lgen = w[j].lgen
  /\ \A k \in Jobs \ {j} : w'[k] = w[k]
  /\ UNCHANGED <<job, lease>>

LEMMA WorkersContinue ==
  ASSUME TypeInv, NEW j \in Jobs, PodStep(j)
  PROVE  \/ PodStart(j) \/ WorkerBoot(j) \/ WorkerClaim(j) \/ WorkerLeave(j) \/ PodCrash(j)
         \/ UNCHANGED <<w, job, lease>>
         \/ Continues(j)
<1>0. w \in Workers
  BY DEF TypeInv, TypeOK, Workers
<1> USE DEF Continues, AtWork, WorkerPCs, Workers
<1>1. CASE WorkerLoad(j)
  BY <1>0, <1>1 DEF WorkerLoad
<1>2. CASE WorkerBegin(j)
  BY <1>0, <1>2 DEF WorkerBegin
<1>3. CASE WorkerProgress(j)
  BY <1>3 DEF WorkerProgress, kube
<1>4. CASE WorkerFinish(j) \/ WorkerReport(j) \/ WorkerPause(j)
  BY <1>0, <1>4, ZenonT(60) DEF WorkerFinish, WorkerReport, WorkerPause
<1>5. CASE WorkerReportPause(j) \/ WorkerLabel(j)
  BY <1>0, <1>5 DEF WorkerReportPause, WorkerLabel
<1>6. CASE WorkerStepFails(j) \/ WorkerAbort(j)
  <2>1. PICK failed : w' = [w EXCEPT ![j].pc = "fail", ![j].failed = failed]
    BY <1>6 DEF WorkerStepFails, WorkerAbort
  <2>2. w'[j].pc = "fail" /\ w'[j].lgen = w[j].lgen /\ \A k \in Jobs \ {j} : w'[k] = w[k]
    BY <1>0, <2>1
  <2>3. w[j].pc = "exec" /\ UNCHANGED <<job, lease>>
    BY <1>6 DEF WorkerStepFails, WorkerAbort
  <2>4. QED
    BY <2>2, <2>3
<1>7. CASE WorkerSaveFailure(j) \/ WorkerReportFailure(j)
  BY <1>0, <1>7, ZenonT(60) DEF WorkerSaveFailure, WorkerReportFailure
<1> HIDE DEF Continues, AtWork, WorkerPCs, Workers
<1>8. QED
  BY <1>1, <1>2, <1>3, <1>4, <1>5, <1>6, <1>7 DEF PodStep, WorkerStep

LEMMA PodEndsEffect ==
  ASSUME TypeInv, MutexInv, NEW j \in Jobs, NEW ok \in BOOLEAN, PodEnds(j, ok)
  PROVE  /\ PodsHaveJobs'
         /\ \A g \in Generations : AtWorkOn(g)' = AtWorkOn(g) \ {j}
<1>1. /\ w \in Workers
      /\ job \in [Jobs -> {"absent", "live", "succeeded", "failed", "deleted"}]
  BY DEF TypeInv, TypeOK, Workers
<1>2. w'[j] = NoWorker /\ \A k \in Jobs \ {j} : w'[k] = w[k] /\ job'[k] = job[k]
  BY <1>1 DEF PodEnds, Workers
<1>3. w'[j].pc = "none"
  BY <1>2 DEF NoWorker
<1>4. PodsHaveJobs'
  BY <1>2, <1>3 DEF MutexInv, PodsHaveJobs
<1>5. QED
  BY <1>2, <1>3, <1>4 DEF AtWorkOn, AtWork

LEMMA PodMutex ==
  ASSUME TypeInv, MutexInv, NEW j \in Jobs, PodStep(j), Disturb, ~WorkerClaim(j)
  PROVE  MutexInv'
<1>0. /\ w \in Workers /\ gen \in Generations
      /\ job \in [Jobs -> {"absent", "live", "succeeded", "failed", "deleted"}]
      /\ lease \in [Generations -> [holder : Jobs \cup {NoJob}, fresh : BOOLEAN]]
  BY DEF TypeInv, TypeOK, Workers
<1>1. CASE PodStart(j)
  <2>1. /\ w'[j].pc = "boot" /\ w[j].pc = "none" /\ job[j] = "live"
        /\ \A k \in Jobs \ {j} : w'[k] = w[k]
        /\ UNCHANGED <<job, lease>>
    BY <1>0, <1>1 DEF PodStart, Workers
  <2>2. PodsHaveJobs'
    BY <2>1 DEF MutexInv, PodsHaveJobs
  <2>3. \A g \in Generations : AtWorkOn(g)' = AtWorkOn(g)
    BY <2>1 DEF AtWorkOn, AtWork
  <2>4. QED
    BY <2>1, <2>2, <2>3, NobodyEnters
<1>2. CASE WorkerBoot(j) /\ PodEnds(j, FALSE)
  <2>1. lease' = lease
    BY <1>2 DEF WorkerBoot
  <2>2. QED
    BY <1>2, <2>1, PodEndsEffect, NobodyEnters
<1>3. CASE WorkerBoot(j) /\ ~PodEnds(j, FALSE)
  <2>1. w' = [w EXCEPT ![j].pc = "claim", ![j].lgen = gen] /\ UNCHANGED <<job, lease>> /\ w[j].pc = "boot"
    BY <1>3 DEF WorkerBoot
  <2>2. w'[j].pc = "claim" /\ w'[j].lgen = gen /\ \A k \in Jobs \ {j} : w'[k] = w[k]
    BY <1>0, <2>1 DEF Workers
  <2>3. PodsHaveJobs'
    BY <1>0, <2>1, <2>2 DEF MutexInv, PodsHaveJobs
  <2>4. \A g \in Generations : AtWorkOn(g)' = AtWorkOn(g)
    BY <2>1, <2>2 DEF AtWorkOn, AtWork
  <2>5. QED
    BY <2>1, <2>3, <2>4, NobodyEnters
<1>4. CASE Continues(j)
  <2>1. PodsHaveJobs'
    BY <1>4 DEF Continues, AtWork, MutexInv, PodsHaveJobs
  <2>2. \A g \in Generations : AtWorkOn(g)' = AtWorkOn(g)
    BY <1>4 DEF Continues, AtWorkOn, AtWork
  <2>3. QED
    BY <1>4, <2>1, <2>2, NobodyEnters DEF Continues
<1>5. CASE WorkerLeave(j)
  <2>1. PodEnds(j, w[j].pc = "leave0") /\ lease' = [lease EXCEPT ![w[j].lgen] = NoLease]
    BY <1>5 DEF WorkerLeave
  <2>2. PodsHaveJobs' /\ \A g \in Generations : AtWorkOn(g)' = AtWorkOn(g) \ {j}
    BY <2>1, PodEndsEffect
  <2>3. ASSUME NEW g \in Generations, AtWorkOn(g)' # {}, g \notin disturbed'
        PROVE  lease'[g] = lease[g]
    <3>0. g \notin disturbed
      BY <2>3, DisturbRecords
    <3>1. PICK i : i \in AtWorkOn(g) /\ i # j
      BY <2>2, <2>3
    <3>2. j \notin AtWorkOn(g)
      BY <3>0, <3>1 DEF MutexInv, OneWorkerPerGeneration
    <3>3. w[j].lgen # g
      BY <1>5, <3>2 DEF WorkerLeave, AtWorkOn, AtWork
    <3>4. QED
      BY <1>0, <2>1, <3>3
  <2>4. QED
    BY <2>2, <2>3, NobodyEnters
<1>6. CASE PodCrash(j)
  <2>1. PodEnds(j, FALSE) /\ lease' = lease
    BY <1>6 DEF PodCrash
  <2>2. QED
    BY <2>1, PodEndsEffect, NobodyEnters
<1>7. CASE UNCHANGED <<w, job, lease>>
  BY <1>7, WorkersStay, NobodyEnters DEF MutexInv, PodsHaveJobs
<1>8. QED
  BY <1>1, <1>2, <1>3, <1>4, <1>5, <1>6, <1>7, WorkersContinue

\* Only a worker of a generation at which nobody is at work takes its lease, unless the
\* generation is disturbed.
LEMMA ClaimsAlone ==
  ASSUME TypeInv, MutexInv, NEW j \in Jobs, w[j].pc = "claim",
         NEW g \in Generations, w[j].lgen = g, g \notin disturbed, MayClaim(j, g)
  PROVE  AtWorkOn(g) = {}
<1> SUFFICES ASSUME NEW i \in AtWorkOn(g) PROVE FALSE
  OBVIOUS
<1>1. lease[g] = [holder |-> i, fresh |-> TRUE]
  BY DEF MutexInv, LeaseNamesWorker
<1>2. i \in Jobs /\ w[i].pc \notin {"none", "boot", "claim"} /\ i # j
  BY DEF AtWorkOn, AtWork
<1>3. job[i] = "live"
  BY <1>2 DEF MutexInv, PodsHaveJobs, DisturbedWhileAtWork
<1>4. i # NoJob
  BY <1>2 DEF Jobs, NoJob, Generations
<1>5. JobState(i) = "active"
  BY <1>2, <1>3, <1>4 DEF JobState
<1>6. QED
  BY <1>1, <1>2, <1>4, <1>5 DEF MayClaim

LEMMA ClaimMutex ==
  ASSUME TypeInv, MutexInv, NEW j \in Jobs, WorkerClaim(j), Disturb
  PROVE  MutexInv'
<1>0. /\ w \in Workers
      /\ lease \in [Generations -> [holder : Jobs \cup {NoJob}, fresh : BOOLEAN]]
  BY DEF TypeInv, TypeOK, Workers
<1>1. PICK g \in Generations : g = w[j].lgen /\ w[j].pc = "claim"
  BY DEF WorkerClaim, MutexInv, PodsHaveJobs
<1>2. CASE MayClaim(j, g)
  <2>1. /\ lease' = [lease EXCEPT ![g] = [holder |-> j, fresh |-> TRUE]]
        /\ w' = [w EXCEPT ![j].pc = "load"] /\ job' = job
    BY <1>1, <1>2 DEF WorkerClaim
  <2>2. w'[j].pc = "load" /\ w'[j].lgen = g /\ \A k \in Jobs \ {j} : w'[k] = w[k]
    BY <1>0, <1>1, <2>1 DEF Workers
  <2>3. PodsHaveJobs'
    BY <1>1, <2>1, <2>2 DEF MutexInv, PodsHaveJobs
  <2>4. /\ AtWorkOn(g)' = AtWorkOn(g) \cup {j}
        /\ \A f \in Generations \ {g} : AtWorkOn(f)' = AtWorkOn(f)
    BY <1>1, <2>2 DEF AtWorkOn, AtWork
  <2>5. DisturbedWhileAtWork'
    BY DisturbRecords
  <2>6. g \notin disturbed' => AtWorkOn(g) = {}
    BY <1>1, <1>2, <2>4, DisturbRecords, ClaimsAlone
  <2>7. ASSUME NEW f \in Generations, NEW i \in AtWorkOn(f)', f \notin disturbed'
        PROVE  lease'[f] = [holder |-> i, fresh |-> TRUE]
    <3>1. CASE f = g
      BY <1>0, <1>1, <2>1, <2>4, <2>6, <2>7, <3>1
    <3>2. CASE f # g
      <4>1. lease'[f] = lease[f] /\ i \in AtWorkOn(f) /\ f \notin disturbed
        BY <1>0, <2>1, <2>4, <2>7, <3>2, DisturbRecords
      <4>2. QED
        BY <4>1 DEF MutexInv, LeaseNamesWorker
    <3>3. QED
      BY <3>1, <3>2
  <2>8. ASSUME NEW f \in Generations, NEW i \in AtWorkOn(f)', NEW k \in AtWorkOn(f)', i # k
        PROVE  f \in disturbed'
    <3>1. CASE f = g
      BY <2>4, <2>6, <2>8, <3>1
    <3>2. CASE f # g
      <4>1. f \in disturbed
        BY <2>4, <2>8, <3>2 DEF MutexInv, OneWorkerPerGeneration
      <4>2. QED
        BY <2>8, <4>1, DisturbRecords
    <3>3. QED
      BY <3>1, <3>2
  <2>9. QED
    BY <2>3, <2>5, <2>7, <2>8 DEF MutexInv, LeaseNamesWorker, OneWorkerPerGeneration
<1>3. CASE ~MayClaim(j, g)
  <2>1. PodEnds(j, FALSE) /\ lease' = lease
    BY <1>1, <1>3 DEF WorkerClaim
  <2>2. QED
    BY <2>1, PodEndsEffect, NobodyEnters
<1>4. QED
  BY <1>2, <1>3

\* A lease that lapses disturbs its generation; one that is renewed was not fresh, so
\* that it has lapsed.
LEMMA LeaseMutex ==
  ASSUME TypeInv, MutexInv, NEW g \in Generations, LeaseChanges(g), Disturb
  PROVE  MutexInv'
<1>1. PICK b \in BOOLEAN : lease' = [lease EXCEPT ![g].fresh = b]
  BY LeaseAlone
<1>2. UNCHANGED <<w, job>>
  BY LeaseAlone
<1>3. lease \in [Generations -> [holder : Jobs \cup {NoJob}, fresh : BOOLEAN]]
  BY DEF TypeInv, TypeOK
<1>4. PodsHaveJobs'
  BY <1>2 DEF MutexInv, PodsHaveJobs
<1>5. ASSUME NEW j \in AtWorkOn(g), g \notin disturbed
      PROVE  g \in disturbed'
  <2>1. lease[g] = [holder |-> j, fresh |-> TRUE]
    BY <1>5 DEF MutexInv, LeaseNamesWorker
  <2>2. lease' = [lease EXCEPT ![g].fresh = FALSE]
    <3>1. lease[g].fresh = TRUE
      BY <2>1
    <3>2. ~LeaseRenewed(g)
      BY <3>1, Zenon DEF LeaseRenewed
    <3> QED
      BY <3>2, LeaseAlone
  <2>3. lease'[g].holder = j /\ lease'[g].fresh = FALSE
    <3>1. lease'[g].holder = lease[g].holder /\ lease'[g].fresh = FALSE
      BY <1>3, <2>2
    <3>2. lease[g].holder = j
      BY <2>1
    <3> QED
      BY <3>1, <3>2
  <2>4. j \in AtWorkOn(g)'
    BY <1>2, <1>5 DEF AtWorkOn, AtWork
  <2> QED
    BY <2>3, <2>4 DEF Disturb
<1>6. \A f \in Generations : AtWorkOn(f)' # {} /\ f \notin disturbed' => lease'[f] = lease[f]
  <2> SUFFICES ASSUME NEW f \in Generations, AtWorkOn(f)' # {}, f \notin disturbed'
               PROVE  f # g
    BY <1>1, <1>3
  <2>1. f \notin disturbed
    BY DisturbRecords
  <2>2. AtWorkOn(f) # {}
    BY <1>2, WorkersStay
  <2> QED
    BY <1>5, <2>1, <2>2
<1> QED
  BY <1>2, <1>4, <1>6, WorkersStay, NobodyEnters

LEMMA RequestLeavesPods ==
  ASSUME RequestStep
  PROVE  UNCHANGED kube
  BY DEF RequestStep, Trigger, RetryCheck, CancelCheck, Decide, TriggerReset, RetryPatch, CancelPatch

LEMMA MutexInvInit == Init => MutexInv
  BY DEF Init, MutexInv, PodsHaveJobs, DisturbedWhileAtWork, LeaseNamesWorker, OneWorkerPerGeneration,
     AtWorkOn, AtWork, NoWorker

LEMMA MutexInvNext ==
  ASSUME TypeInv, MutexInv, [Next]_allVars
  PROVE  MutexInv'
<1>1. CASE Step /\ Disturb
  <2>1. CASE RequestStep
    <3>1. UNCHANGED <<w, job, lease>>
      BY <2>1, RequestLeavesPods DEF kube
    <3>2. QED
      BY <1>1, <3>1, WorkersStay, NobodyEnters DEF MutexInv, PodsHaveJobs
  <2>2. QED
    BY <1>1, <2>1, OperatorMutex, PodMutex, ClaimMutex, LeaseMutex, StepKinds
<1>2. CASE UNCHANGED allVars
  BY <1>2 DEF allVars, vars, kube, MutexInv, PodsHaveJobs, DisturbedWhileAtWork, LeaseNamesWorker,
     OneWorkerPerGeneration, AtWorkOn, AtWork
<1>3. QED
  BY <1>1, <1>2 DEF Next

\* The worker lease keeps the workers of a generation apart, whatever the operator, the
\* gateway, the pods and the cluster do, unless a Job was deleted under one at work.
THEOREM LifecycleExcludes == Spec => []OneWorkerPerGeneration
<1>1. TypeInv /\ MutexInv => OneWorkerPerGeneration
  BY DEF MutexInv
<1>2. QED
  BY <1>1, TypeInvInit, TypeInvNext, MutexInvInit, MutexInvNext, PTL DEF Spec

-----------------------------------------------------------------------------
(* Refinement of the mutual exclusion that the worker lease promises.      *)

\* A step lets at most one worker of a generation in, and only if that is allowed, or one out.
LEMMA WorkersEnterAndLeave ==
  ASSUME TypeInv, MutexInv, Step, NEW g \in Generations
  PROVE  \/ AtWorkOn(g)' = AtWorkOn(g)
         \/ \E j \in AtWorkOn(g) : AtWorkOn(g)' = AtWorkOn(g) \ {j}
         \/ \E j \in Jobs \ AtWorkOn(g) :
              AtWorkOn(g)' = AtWorkOn(g) \cup {j} /\ (AtWorkOn(g) = {} \/ g \in disturbed)
<1>0. w \in Workers
  BY DEF TypeInv, TypeOK, Workers
<1>1. CASE UNCHANGED w
  BY <1>1, WorkersStay
<1>2. ASSUME NEW j \in Jobs, NEW ok \in BOOLEAN, PodEnds(j, ok)
      PROVE  \/ AtWorkOn(g)' = AtWorkOn(g)
             \/ \E i \in AtWorkOn(g) : AtWorkOn(g)' = AtWorkOn(g) \ {i}
  <2>1. AtWorkOn(g)' = AtWorkOn(g) \ {j}
    BY <1>2, PodEndsEffect
  <2>2. QED
    BY <2>1
<1>3. ASSUME NEW j \in Jobs, PodStart(j) \/ (WorkerBoot(j) /\ ~PodEnds(j, FALSE))
      PROVE  AtWorkOn(g)' = AtWorkOn(g)
  <2>1. /\ w[j].pc \in {"none", "boot"} /\ w'[j].pc \in {"boot", "claim"}
        /\ \A k \in Jobs \ {j} : w'[k] = w[k]
    <3>1. CASE PodStart(j)
      <4>1. w[j].pc = "none" /\ w' = [w EXCEPT ![j].pc = "boot"]
        BY <3>1 DEF PodStart
      <4>2. QED
        BY <1>0, <4>1 DEF Workers
    <3>2. CASE WorkerBoot(j) /\ ~PodEnds(j, FALSE)
      <4>1. w[j].pc = "boot" /\ w' = [w EXCEPT ![j].pc = "claim", ![j].lgen = gen]
        BY <3>2 DEF WorkerBoot
      <4>2. QED
        BY <1>0, <4>1 DEF Workers
    <3>3. QED
      BY <1>3, <3>1, <3>2
  <2>2. QED
    BY <2>1 DEF AtWorkOn, AtWork
<1>4. ASSUME NEW j \in Jobs, Continues(j)
      PROVE  AtWorkOn(g)' = AtWorkOn(g)
  BY <1>4 DEF Continues, AtWorkOn, AtWork
<1>5. ASSUME NEW j \in Jobs, WorkerClaim(j), ~PodEnds(j, FALSE)
      PROVE  \/ AtWorkOn(g)' = AtWorkOn(g)
             \/ /\ j \in Jobs \ AtWorkOn(g) /\ AtWorkOn(g)' = AtWorkOn(g) \cup {j}
                /\ AtWorkOn(g) = {} \/ g \in disturbed
  <2>1. w[j].pc = "claim" /\ MayClaim(j, w[j].lgen) /\ w' = [w EXCEPT ![j].pc = "load"]
    BY <1>5 DEF WorkerClaim
  <2>2. w'[j].pc = "load" /\ w'[j].lgen = w[j].lgen /\ \A k \in Jobs \ {j} : w'[k] = w[k]
    BY <1>0, <2>1 DEF Workers
  <2>3. CASE w[j].lgen = g
    <3>1. j \in Jobs \ AtWorkOn(g) /\ AtWorkOn(g)' = AtWorkOn(g) \cup {j}
      BY <2>1, <2>2, <2>3 DEF AtWorkOn, AtWork
    <3>2. AtWorkOn(g) = {} \/ g \in disturbed
      BY <2>1, <2>3, ClaimsAlone
    <3>3. QED
      BY <3>1, <3>2
  <2>4. CASE w[j].lgen # g
    BY <2>1, <2>2, <2>4 DEF AtWorkOn, AtWork
  <2>5. QED
    BY <2>3, <2>4
<1>6. ASSUME NEW j \in Jobs, PodStep(j)
      PROVE  \/ UNCHANGED w \/ Continues(j)
             \/ \E ok \in BOOLEAN : PodEnds(j, ok)
             \/ PodStart(j) \/ (WorkerBoot(j) /\ ~PodEnds(j, FALSE))
             \/ (WorkerClaim(j) /\ ~PodEnds(j, FALSE))
  <2>1. WorkerLeave(j) \/ PodCrash(j) => \E ok \in BOOLEAN : PodEnds(j, ok)
    BY DEF WorkerLeave, PodCrash
  <2>2. QED
    BY <1>6, <2>1, WorkersContinue
<1>7. CASE OperatorStep
  BY <1>1, <1>7, OperatorJobs
<1>8. CASE RequestStep
  BY <1>1, <1>8, RequestLeavesPods DEF kube
<1>9. ASSUME NEW f \in Generations, LeaseChanges(f)
      PROVE  UNCHANGED w
  BY <1>9, LeaseAlone
<1>10. QED
  BY <1>1, <1>2, <1>3, <1>4, <1>5, <1>6, <1>7, <1>8, <1>9, StepKinds

\* Every step is a step of the mutual exclusion of a generation, or changes nothing that it
\* speaks of.
LEMMA StepRefines ==
  ASSUME TypeInv, MutexInv, Step, Disturb, NEW g \in Generations
  PROVE  UNCHANGED <<AtWorkOn(g), g \in disturbed>> \/ Exclusion(g)!Next
<1>1. /\ g \in disturbed' => AtWorkOn(g)' # {}
      /\ g \in disturbed => AtWorkOn(g) # {}
      /\ AtWorkOn(g)' # {} /\ g \in disturbed => g \in disturbed'
  BY DisturbRecords DEF MutexInv, DisturbedWhileAtWork
<1>2. CASE AtWorkOn(g)' = AtWorkOn(g)
  <2>1. CASE g \in disturbed <=> g \in disturbed'
    BY <1>2, <2>1
  <2>2. CASE ~(g \in disturbed <=> g \in disturbed')
    <3>1. AtWorkOn(g) # {} /\ (g \in disturbed)' = TRUE
      BY <1>1, <1>2, <2>2
    <3>2. Exclusion(g)!Disturb
      BY <1>2, <3>1 DEF Exclusion!Disturb
    <3>3. QED
      BY <3>2 DEF Exclusion!Next
  <2>3. QED
    BY <2>1, <2>2
<1>3. ASSUME NEW j \in AtWorkOn(g), AtWorkOn(g)' = AtWorkOn(g) \ {j}
      PROVE  Exclusion(g)!Next
  <2>1. j \in Jobs
    BY DEF AtWorkOn, AtWork
  <2>2. AtWorkOn(g)' # {} => g \in disturbed
    BY <1>3 DEF MutexInv, OneWorkerPerGeneration
  <2>3. (g \in disturbed)' = (g \in disturbed /\ AtWorkOn(g)' # {})
    BY <1>1, <2>2
  <2>4. Exclusion(g)!Leave(j)
    BY <1>3, <2>3 DEF Exclusion!Leave
  <2>5. QED
    BY <2>1, <2>4 DEF Exclusion!Next
<1>4. ASSUME NEW j \in Jobs \ AtWorkOn(g), AtWorkOn(g)' = AtWorkOn(g) \cup {j},
             AtWorkOn(g) = {} \/ g \in disturbed
      PROVE  Exclusion(g)!Next
  <2>1. (g \in disturbed)' = (g \in disturbed) \/ (g \in disturbed)' = TRUE
    <3>1. g \in disturbed => g \in disturbed'
      BY <1>1, <1>4
    <3>2. CASE g \in disturbed
      BY <3>1, <3>2
    <3>3. CASE g \notin disturbed
      BY <3>3
    <3>4. QED
      BY <3>2, <3>3
  <2>2. Exclusion(g)!Enter(j)
    BY <1>4, <2>1 DEF Exclusion!Enter
  <2>3. QED
    BY <2>2 DEF Exclusion!Next
<1>5. QED
  BY <1>2, <1>3, <1>4, WorkersEnterAndLeave

LEMMA InitRefines ==
  ASSUME Init, NEW g \in Generations
  PROVE  Exclusion(g)!Init
<1>1. AtWorkOn(g) = {} /\ (g \in disturbed) = FALSE
  BY DEF Init, AtWorkOn, AtWork, NoWorker
<1>2. QED
  BY <1>1 DEF Exclusion!Init

\* What the operator relies on when it creates one Job before it cancels another
\* (enqueue_workflow_job): the workers of each generation enter and leave as the mutual
\* exclusion says that the lease implements, in the form that TLC checks,
THEOREM LifecycleUsesMutex == Spec => GenerationMutex
<1>1. Init => \A g \in Generations : Exclusion(g)!Init
  BY InitRefines
<1>2. TypeInv /\ MutexInv /\ [Next]_allVars =>
        [\A g \in Generations :
           UNCHANGED <<AtWorkOn(g), g \in disturbed>> \/ Exclusion(g)!Next]_<<AtWork, disturbed>>
  <2>1. CASE UNCHANGED allVars
    BY <2>1 DEF allVars, vars, kube, AtWork
  <2>2. QED
    BY <2>1, StepRefines DEF Next
<1>3. QED
  BY <1>1, <1>2, TypeInvInit, TypeInvNext, MutexInvInit, MutexInvNext, PTL DEF Spec, GenerationMutex

\* and as a refinement.
THEOREM LifecycleImplementsMutex ==
  ASSUME NEW g \in Generations
  PROVE  Spec => Exclusion(g)!Spec
<1>1. Init => Exclusion(g)!Init
  BY InitRefines
<1>2. TypeInv /\ MutexInv /\ [Next]_allVars => [Exclusion(g)!Next]_<<AtWorkOn(g), g \in disturbed>>
  <2>1. CASE UNCHANGED allVars
    BY <2>1 DEF allVars, vars, kube, AtWork, AtWorkOn
  <2>2. QED
    BY <2>1, StepRefines DEF Next
<1>3. QED
  BY <1>1, <1>2, TypeInvInit, TypeInvNext, MutexInvInit, MutexInvNext, PTL DEF Spec, Exclusion!Spec

-----------------------------------------------------------------------------
(* Completion is reported of what is on disk.                              *)

\* What a step of the operator makes of what a handler knows.
HandlerMoves(t) ==
  \/ h'[t] = IdleHandler
  \/ h'[t].copy = st /\ h'[t].gen = gen /\ h'[t].pc # "patch"
  \/ /\ h'[t].copy = h[t].copy /\ h'[t].gen = h[t].gen
     /\ t = "event" /\ h'[t].pc = "patch" /\ h[t].pc # "patch" => ~NothingToRun("event")
  \/ /\ h'[t].copy = AutoRetryStatus(h[t].copy, nextRun) /\ h'[t].gen = h[t].gen
     /\ h'[t].pc # "patch"

LEMMA HandlersMove ==
  ASSUME TypeInv, OperatorStep, NEW t \in Handlers
  PROVE  HandlerMoves(t)
<1>0. h \in [Handlers -> [pc : HandlerPCs, copy : Statuses, gen : 0..MaxGeneration, run : 0..MaxRun]]
  BY DEF TypeInv, TypeOK
<1> USE DEF HandlerMoves
<1>1. CASE EventPickup \/ ResumePickup \/ TimerFire \/ \E r \in Runs : ApprovalPickup(r)
  BY <1>0, <1>1 DEF EventPickup, ResumePickup, TimerFire, ApprovalPickup, ActOnApproval, Start, Handlers
<1>2. CASE EventKill \/ EventPatch \/ TimerRequeue
  BY <1>0, <1>2 DEF EventKill, EventPatch, TimerRequeue, Goto, Handlers
<1>3. CASE EventCheck
  BY <1>0, <1>3 DEF EventCheck, Goto, Stop, Handlers
<1>4. CASE TimerAutoRetry
  BY <1>0, <1>4 DEF TimerAutoRetry, Handlers
<1>5. CASE ApprovalDeny \/ TimerIgnore \/ OperatorRestart
  BY <1>0, <1>5 DEF ApprovalDeny, TimerIgnore, OperatorRestart, Stop, Handlers
<1>6. ASSUME NEW u \in Handlers, HandlerFails(u) \/ EnqueueSkip(u) \/ EnqueueQueue(u)
      PROVE  HandlerMoves(t)
  BY <1>0, <1>6 DEF HandlerFails, EnqueueSkip, EnqueueQueue, Stop
<1>7. ASSUME NEW u \in Handlers, EnqueueGo(u) \/ EnqueueCancel(u)
      PROVE  HandlerMoves(t)
  BY <1>0, <1>7 DEF EnqueueGo, EnqueueCancel, Goto
<1>8. ASSUME NEW u \in Handlers, EnqueueCreate(u)
      PROVE  HandlerMoves(t)
  <2>1. PICK run : h' = [h EXCEPT ![u].pc = "cancel", ![u].run = run]
    BY <1>8 DEF EnqueueCreate
  <2>2. QED
    BY <1>0, <2>1
<1> HIDE DEF HandlerMoves
<1>9. QED
  BY <1>1, <1>2, <1>3, <1>4, <1>5, <1>6, <1>7, <1>8 DEF OperatorStep, HandlerStep, EnqueueStep

\* A handler knows of no generation to come, and of completed runs their Job.
LEMMA HandlersPast ==
  ASSUME TypeInv, PastInv, OperatorStep
  PROVE  /\ \A t \in Handlers : /\ h'[t].copy.obs <= h'[t].gen /\ h'[t].gen <= gen
                                /\ Reported(h'[t].copy)
         /\ StaleIfCompleted'
<1>0. gen \in Generations /\ st \in Statuses /\ h \in [Handlers -> [pc : HandlerPCs, copy : Statuses,
                                                gen : 0..MaxGeneration, run : 0..MaxRun]]
  BY DEF TypeInv, TypeOK
<1>1. ASSUME NEW t \in Handlers
      PROVE  h'[t].copy.obs <= h'[t].gen /\ h'[t].gen <= gen /\ Reported(h'[t].copy)
  <2>0. /\ h[t].copy.obs <= h[t].gen /\ h[t].gen <= gen /\ Reported(h[t].copy)
        /\ st.obs <= gen /\ Reported(st)
    BY DEF PastInv, GenerationsPast
  <2>1. CASE h'[t] = IdleHandler
    BY <1>0, <2>1 DEF IdleHandler, NoStatus, Reported, Generations
  <2>2. CASE h'[t].copy = st /\ h'[t].gen = gen
    BY <1>0, <2>0, <2>2 DEF Generations
  <2>3. CASE h'[t].copy = h[t].copy /\ h'[t].gen = h[t].gen
    BY <2>0, <2>3
  <2>4. CASE h'[t].copy = AutoRetryStatus(h[t].copy, nextRun) /\ h'[t].gen = h[t].gen
    BY <1>0, <2>0, <2>4 DEF AutoRetryStatus, Reported
  <2>5. QED
    BY <2>1, <2>2, <2>3, <2>4, HandlersMove DEF HandlerMoves
<1>2. ASSUME h'["event"].pc = "patch", h'["event"].copy.phase = "completed"
      PROVE  h'["event"].copy.obs # h'["event"].gen
  <2>1. /\ h'["event"].copy = h["event"].copy /\ h'["event"].gen = h["event"].gen
        /\ h["event"].pc # "patch" => ~NothingToRun("event")
    BY <1>2, HandlersMove DEF HandlerMoves, IdleHandler, Handlers
  <2>2. CASE h["event"].pc = "patch"
    BY <1>2, <2>1, <2>2 DEF PastInv, StaleIfCompleted
  <2>3. CASE h["event"].pc # "patch"
    BY <1>2, <2>1, <2>3 DEF NothingToRun, Reconciled, MatchesGeneration, Terminal
  <2>4. QED
    BY <2>2, <2>3
<1>3. QED
  BY <1>1, <1>2 DEF StaleIfCompleted

\* What the operator makes of a status: it says completed only of a run of a generation
\* before the present one, unless it said so before.
LEMMA OperatorReports ==
  ASSUME TypeInv, PastInv, OperatorStep
  PROVE  /\ st'.obs <= gen /\ Reported(st')
         /\ st' # st /\ st'.phase = "completed" => st'.job[1] < gen
<1>0. gen \in Generations /\ st \in Statuses /\ h \in [Handlers -> [pc : HandlerPCs, copy : Statuses,
                                                gen : 0..MaxGeneration, run : 0..MaxRun]]
  BY DEF TypeInv, TypeOK
<1>1. st.obs <= gen /\ Reported(st)
  BY DEF PastInv, GenerationsPast
<1>2. \A t \in Handlers : h[t].copy.obs <= h[t].gen /\ h[t].gen <= gen /\ Reported(h[t].copy)
  BY DEF PastInv, GenerationsPast
<1>3. CASE EventPatch
  <2> DEFINE copy == h["event"].copy
  <2>1. st' = Merge(st, copy) /\ h["event"].pc = "patch"
    BY <1>3 DEF EventPatch
  <2>2. copy \in Statuses /\ h["event"].gen \in Nat
    BY <1>0 DEF Handlers
  <2>3. copy.obs <= h["event"].gen /\ h["event"].gen <= gen /\ Reported(copy)
    BY <1>2 DEF Handlers
  <2>4. st'.obs <= gen
    BY <1>0, <1>1, <2>1, <2>2, <2>3 DEF Merge, Statuses, Generations
  <2>5. CASE copy.phase = "none"
    <3>1. st' = st
      BY <1>0, <2>1, <2>3, <2>5 DEF Reported, NoStatus, Merge, Statuses
    <3>2. QED
      BY <1>1, <2>4, <3>1
  <2>6. CASE copy.phase = "completed"
    <3>1. copy.job \in Jobs /\ copy.job[1] <= copy.obs /\ copy.obs # h["event"].gen
      BY <2>1, <2>3, <2>6 DEF Reported, PastInv, StaleIfCompleted
    <3>2. copy.job # NoJob /\ copy.job[1] \in Nat \ {0} /\ copy.obs \in Nat
      BY <2>2, <3>1 DEF Jobs, NoJob, Generations, Statuses
    <3>3. st'.phase = "completed" /\ st'.job = copy.job /\ st'.obs = copy.obs
      BY <2>1, <2>6, <3>1, <3>2 DEF Merge
    <3>4. QED
      BY <1>0, <2>2, <2>3, <2>4, <3>1, <3>2, <3>3 DEF Reported, Generations
  <2>7. CASE copy.phase \notin {"none", "completed"}
    <3>1. st'.phase = copy.phase
      BY <2>1, <2>7 DEF Merge
    <3>2. QED
      BY <2>4, <2>7, <3>1 DEF Reported
  <2>8. QED
    BY <2>5, <2>6, <2>7
<1>4. CASE ApprovalDeny
  <2>1. st'.phase = "failed" /\ st'.obs = h["approval"].copy.obs
    BY <1>0, <1>4 DEF ApprovalDeny, Statuses
  <2>2. h["approval"].copy.obs \in Nat /\ h["approval"].gen \in Nat
    BY <1>0 DEF Handlers, Statuses
  <2>3. QED
    BY <1>0, <1>2, <2>1, <2>2 DEF Handlers, Reported, Generations
<1>5. ASSUME NEW t \in Handlers, EnqueueQueue(t)
      PROVE  st'.phase = "queued" /\ st'.obs <= gen
  BY <1>2, <1>5 DEF EnqueueQueue, QueuedStatus
<1>6. QED
  BY <1>1, <1>3, <1>4, <1>5, OperatorLeavesStatus DEF Reported

\* What the gateway makes of a status never says completed.
LEMMA RequestReports ==
  ASSUME TypeInv, PastInv, RequestStep
  PROVE  /\ st'.obs <= gen /\ Reported(st')
         /\ st' # st => st'.phase # "completed"
         /\ gen' \in Generations /\ gen <= gen' /\ UNCHANGED <<h, kube>>
<1>0. gen \in Generations /\ st \in Statuses /\ st.obs <= gen /\ Reported(st)
  BY DEF TypeInv, TypeOK, PastInv, GenerationsPast
<1>1. UNCHANGED <<h, kube>>
  BY RequestLeavesPods, RequestLeavesOperator
<1>2. gen' \in Generations /\ gen <= gen'
  BY <1>0 DEF RequestStep, Trigger, TriggerReset, RetryCheck, RetryPatch, CancelCheck, CancelPatch,
     Decide, Generations
<1>3. CASE TriggerReset
  BY <1>0, <1>1, <1>2, <1>3 DEF TriggerReset, TriggeredStatus, NoStatus, Reported, Generations
<1>4. CASE RetryPatch
  BY <1>0, <1>1, <1>2, <1>4 DEF RetryPatch, RetriedStatus, Reported, Generations
<1>5. CASE CancelPatch
  <2>1. st'.phase = "cancelled" /\ st'.obs = st.obs
    BY <1>0, <1>5 DEF CancelPatch, Statuses
  <2>2. QED
    BY <1>0, <1>1, <1>2, <2>1 DEF Reported
<1>6. QED
  BY <1>0, <1>1, <1>2, <1>3, <1>4, <1>5, RequestLeavesOperator

\* What a step of the pod of j makes of its worker.
WorkerMoves(j) ==
  \/ w'[j].pc = "none"
  \/ w[j].pc = "none" /\ w'[j].pc = "boot"
  \/ w[j].pc = "boot" /\ w'[j].pc = "claim" /\ w'[j].lgen = gen
  \/ w[j].pc = "claim" /\ w'[j].pc = "load" /\ w'[j].lgen = w[j].lgen
  \/ /\ w[j].pc = "load" /\ w'[j].pc \in {"ghost", "begin"}
     /\ w'[j].lgen = w[j].lgen /\ w'[j].gen = gen
  \/ /\ w[j].pc \notin {"none", "boot", "claim", "load"}
     /\ w'[j].pc \notin {"none", "boot", "claim", "load"}
     /\ w'[j].lgen = w[j].lgen /\ w'[j].gen = w[j].gen
     /\ Begun(j)' => Begun(j) \/ WorkerBegin(j)
     /\ w'[j].pc = "report" => WorkerFinish(j)

LEMMA WorkersMove ==
  ASSUME TypeInv, NEW j \in Jobs, PodStep(j)
  PROVE  WorkerMoves(j) /\ \A k \in Jobs \ {j} : w'[k] = w[k]
<1>0. w \in Workers
  BY DEF TypeInv, TypeOK, Workers
<1> USE DEF WorkerMoves, Workers, Begun
<1>1. ASSUME NEW ok \in BOOLEAN, PodEnds(j, ok)
      PROVE  w'[j].pc = "none" /\ \A k \in Jobs \ {j} : w'[k] = w[k]
  BY <1>0, <1>1 DEF PodEnds, NoWorker
<1>2. CASE WorkerBoot(j) /\ ~PodEnds(j, FALSE)
  <2>1. w[j].pc = "boot" /\ w' = [w EXCEPT ![j].pc = "claim", ![j].lgen = gen]
    BY <1>2 DEF WorkerBoot
  <2>2. QED
    BY <1>0, <2>1
<1>3. CASE PodStart(j)
  BY <1>0, <1>3 DEF PodStart
<1>4. CASE WorkerClaim(j) /\ ~PodEnds(j, FALSE)
  <2>1. w[j].pc = "claim" /\ w' = [w EXCEPT ![j].pc = "load"]
    BY <1>4 DEF WorkerClaim
  <2>2. QED
    BY <1>0, <2>1
<1>5. CASE WorkerLoad(j)
  <2>1. PICK pc \in {"ghost", "begin"} : w[j].pc = "load" /\ w' = [w EXCEPT ![j].gen = gen, ![j].pc = pc]
    BY <1>5 DEF WorkerLoad
  <2>2. QED
    BY <1>0, <2>1
<1>6. CASE WorkerBegin(j)
  <2>1. PICK pc \in {"leave0", "exec"} : w[j].pc \in {"begin", "ghost"} /\ w' = [w EXCEPT ![j].pc = pc]
    BY <1>6 DEF WorkerBegin
  <2>2. QED
    BY <1>0, <1>6, <2>1
<1>7. CASE WorkerProgress(j)
  BY <1>7 DEF WorkerProgress, kube
<1>8. CASE WorkerFinish(j)
  <2>1. w[j].pc = "exec" /\ w' = [w EXCEPT ![j].pc = "report"]
    BY <1>8 DEF WorkerFinish
  <2>2. QED
    BY <1>0, <1>8, <2>1
<1>9. CASE WorkerReport(j) \/ WorkerPause(j) \/ WorkerReportPause(j) \/ WorkerLabel(j)
           \/ WorkerSaveFailure(j) \/ WorkerReportFailure(j)
  <2>1. PICK pc \in {"leave0", "pause", "label", "failed", "leave1"} :
          /\ w[j].pc \in {"report", "exec", "pause", "label", "fail", "failed"}
          /\ w' = [w EXCEPT ![j].pc = pc]
    BY <1>9 DEF WorkerReport, WorkerPause, WorkerReportPause, WorkerLabel, WorkerSaveFailure,
       WorkerReportFailure
  <2>2. QED
    BY <1>0, <2>1
<1>10. CASE WorkerStepFails(j) \/ WorkerAbort(j)
  <2>1. PICK failed : w' = [w EXCEPT ![j].pc = "fail", ![j].failed = failed]
    BY <1>10 DEF WorkerStepFails, WorkerAbort
  <2>2. w[j].pc = "exec"
    BY <1>10 DEF WorkerStepFails, WorkerAbort
  <2>3. QED
    BY <1>0, <2>1, <2>2
<1>11. CASE WorkerLeave(j)
  <2>1. PICK ok \in BOOLEAN : PodEnds(j, ok)
    BY <1>11 DEF WorkerLeave
  <2>2. QED
    BY <1>1, <2>1
<1>12. CASE PodCrash(j)
  BY <1>1, <1>12 DEF PodCrash
<1> HIDE DEF WorkerMoves, Workers, Begun
<1>13. CASE PodEnds(j, FALSE)
  BY <1>1, <1>13 DEF WorkerMoves
<1>14. QED
  BY <1>2, <1>3, <1>4, <1>5, <1>6, <1>7, <1>8, <1>9, <1>10, <1>11, <1>12, <1>13 DEF PodStep, WorkerStep

\* A worker knows of no generation to come, and none before that of its Job.
LEMMA PodPast ==
  ASSUME TypeInv, MutexInv, PastInv, NEW j \in Jobs, PodStep(j)
  PROVE  WorkerPast(j)'
<1>0. w \in Workers /\ gen \in Generations /\ gen' = gen
  BY PodLeavesOperator DEF TypeInv, TypeOK, Workers
<1>1. WorkerPast(j) /\ (w[j].pc # "none" => j[1] <= gen)
  BY DEF PastInv, GenerationsPast, MutexInv, PodsHaveJobs
<1>2. j[1] \in Nat /\ w[j].lgen \in Nat /\ w[j].gen \in Nat /\ gen \in Nat
  BY <1>0 DEF Jobs, Generations, Workers
<1>3. QED
  BY <1>0, <1>1, <1>2, WorkersMove DEF WorkerMoves, WorkerPast

\* What a worker writes: only one that has begun touches the artifact, and only a report of
\* completion says completed.
LEMMA PodWrites ==
  ASSUME TypeInv, MutexInv, PastInv, NEW j \in Jobs, PodStep(j)
  PROVE  /\ st'.obs <= gen /\ Reported(st')
         /\ st' # st /\ st'.phase = "completed" => WorkerReport(j)
         /\ WorkerBegin(j) => st'.phase = "running"
         /\ artifact' # artifact => Begun(j) /\ Begun(j)' /\ \E done \in BOOLEAN : Save(j, done)
         /\ \A k \in Jobs : job'[k] # "absent" => job[k] # "absent"
<1>0. w \in Workers /\ gen \in Generations /\ WorkerPast(j) /\ st.obs <= gen /\ Reported(st)
  BY DEF TypeInv, TypeOK, Workers, PastInv, GenerationsPast
<1>1. ASSUME st' # st
      PROVE  \E phase, pend, failed : st' = WorkerStatus(st, phase, j, w[j].gen, pend, failed)
                                      /\ phase # "none" /\ (phase = "completed" => WorkerReport(j))
                                      /\ w[j].pc \notin {"none", "boot", "claim", "load"}
  <2>1. CASE WorkerBegin(j) \/ WorkerProgress(j)
    <3>1. w[j].pc \in {"begin", "ghost", "exec"}
      BY <2>1 DEF WorkerBegin, WorkerProgress
    <3>2. \E failed : st' = WorkerStatus(st, "running", j, w[j].gen, 0, failed)
      BY <2>1 DEF WorkerBegin, WorkerProgress
    <3>3. QED
      BY <3>1, <3>2
  <2>2. CASE WorkerReport(j)
    BY <2>2 DEF WorkerReport
  <2>3. CASE WorkerReportPause(j)
    BY <2>3 DEF WorkerReportPause
  <2>4. CASE WorkerStepFails(j)
    BY <2>4 DEF WorkerStepFails
  <2>5. CASE WorkerReportFailure(j)
    <3>1. w[j].pc = "failed" /\ \E failed : st' = WorkerStatus(st, "failed", j, w[j].gen, 0, failed)
      BY <2>5 DEF WorkerReportFailure
    <3>2. QED
      BY <3>1
  <2>6. QED
    BY <1>1, <2>1, <2>2, <2>3, <2>4, <2>5, PodLeavesOperator DEF WorkerWrites
<1>2. st' # st => st'.obs <= gen /\ Reported(st') /\ (st'.phase = "completed" => WorkerReport(j))
  <2> SUFFICES ASSUME st' # st
               PROVE  st'.obs <= gen /\ Reported(st') /\ (st'.phase = "completed" => WorkerReport(j))
    OBVIOUS
  <2>1. PICK phase, pend, failed : /\ st' = WorkerStatus(st, phase, j, w[j].gen, pend, failed)
                                   /\ phase # "none" /\ (phase = "completed" => WorkerReport(j))
                                   /\ w[j].pc \notin {"none", "boot", "claim", "load"}
    BY <1>1
  <2>2. st'.phase = phase /\ st'.obs = w[j].gen /\ st'.job = j
    BY <2>1 DEF WorkerStatus
  <2>3. j[1] <= w[j].lgen /\ w[j].lgen <= w[j].gen /\ w[j].gen <= gen
    BY <1>0, <2>1 DEF WorkerPast
  <2>4. j[1] \in Nat /\ w[j].lgen \in Nat /\ w[j].gen \in Nat /\ gen \in Nat
    BY <1>0 DEF Jobs, Generations, Workers
  <2>5. QED
    BY <2>1, <2>2, <2>3, <2>4 DEF Reported
<1>3. WorkerBegin(j) => st'.phase = "running"
  BY DEF WorkerBegin, WorkerStatus
<1>4. ASSUME artifact' # artifact
      PROVE  WorkerFinish(j) \/ WorkerPause(j) \/ WorkerStepFails(j) \/ WorkerSaveFailure(j)
  BY <1>4 DEF PodStep, PodStart, WorkerStep, WorkerBoot, WorkerClaim, WorkerLoad, WorkerBegin, WorkerLabel,
     WorkerAbort, WorkerLeave, PodCrash, WorkerProgress, WorkerReport, WorkerReportPause,
     WorkerReportFailure, kube
<1>5. ASSUME WorkerFinish(j) \/ WorkerPause(j) \/ WorkerStepFails(j) \/ WorkerSaveFailure(j)
      PROVE  Begun(j) /\ Begun(j)' /\ \E done \in BOOLEAN : Save(j, done)
  <2>1. \E done \in BOOLEAN : Save(j, done)
    BY <1>5 DEF WorkerFinish, WorkerPause, WorkerStepFails, WorkerSaveFailure
  <2>2. w[j].pc \in {"exec", "fail"}
    BY <1>5 DEF WorkerFinish, WorkerPause, WorkerStepFails, WorkerSaveFailure
  <2>3. w'[j].pc \in {"report", "pause", "fail", "failed"}
    <3>1. CASE WorkerStepFails(j)
      BY <1>0, <3>1 DEF WorkerStepFails, Workers
    <3>2. CASE ~WorkerStepFails(j)
      <4>1. PICK pc \in {"report", "pause", "failed"} : w' = [w EXCEPT ![j].pc = pc]
        BY <1>5, <3>2 DEF WorkerFinish, WorkerPause, WorkerSaveFailure
      <4>2. QED
        BY <1>0, <4>1 DEF Workers
    <3>3. QED
      BY <3>1, <3>2
  <2>4. QED
    BY <2>1, <2>2, <2>3 DEF Begun
<1>6. \A k \in Jobs : job'[k] # "absent" => job[k] # "absent"
  <2>1. job \in [Jobs -> {"absent", "live", "succeeded", "failed", "deleted"}]
    BY DEF TypeInv, TypeOK
  <2>2. job' = job \/ \E ok \in BOOLEAN : PodEnds(j, ok)
    BY WorkersContinue DEF PodStart, WorkerBoot, WorkerClaim, WorkerLeave, PodCrash, Continues
  <2>3. ASSUME NEW ok \in BOOLEAN, PodEnds(j, ok)
        PROVE  \A k \in Jobs : job'[k] # "absent" => job[k] # "absent"
    BY <2>1, <2>3 DEF PodEnds
  <2>4. QED
    BY <2>2, <2>3
<1>7. QED
  BY <1>0, <1>2, <1>3, <1>4, <1>5, <1>6

\* The Jobs the operator creates are of the generations that its handlers know of.
LEMMA OperatorCreates ==
  ASSUME TypeInv, PastInv, OperatorStep
  PROVE  \A j \in Jobs : job'[j] # "absent" => j[1] <= gen
<1>0. /\ job \in [Jobs -> {"absent", "live", "succeeded", "failed", "deleted"}]
      /\ \A j \in Jobs : job[j] # "absent" => j[1] <= gen
  BY DEF TypeInv, TypeOK, PastInv, GenerationsPast
<1>1. CASE job' = job
  BY <1>0, <1>1
<1>2. ASSUME NEW j, job' = JobsWithout(j)
      PROVE  \A k \in Jobs : job'[k] # "absent" => k[1] <= gen
  BY <1>0, <1>2 DEF JobsWithout
<1>3. ASSUME NEW t \in Handlers, EnqueueCreate(t)
      PROVE  \A k \in Jobs : job'[k] # "absent" => k[1] <= gen
  <2>1. PICK run : job' \in {job, [job EXCEPT ![<<h[t].gen, run>>] = "live"]}
    BY <1>3 DEF EnqueueCreate
  <2>2. h[t].gen <= gen
    BY DEF PastInv, GenerationsPast
  <2>3. QED
    BY <1>0, <2>1, <2>2
<1>4. job' = job \/ (\E j : job' = JobsWithout(j)) \/ \E t \in Handlers : EnqueueCreate(t)
  <2>1. CASE EventKill \/ \E t \in Handlers : EnqueueCancel(t)
    BY <2>1 DEF EventKill, EnqueueCancel
  <2>2. CASE ~(\E t \in Handlers : EnqueueCreate(t) \/ EnqueueCancel(t)) /\ ~EventKill
    BY <2>2 DEF OperatorStep, HandlerStep, EventPickup, ResumePickup, TimerFire, EventCheck, EventPatch,
       ApprovalDeny, TimerRequeue, TimerAutoRetry, TimerIgnore, EnqueueStep, EnqueueSkip, EnqueueGo,
       EnqueueQueue, ApprovalPickup, HandlerFails, OperatorRestart, kube
  <2>3. QED
    BY <2>1, <2>2
<1>5. QED
  BY <1>1, <1>2, <1>3, <1>4

LEMMA PastInvInit == Init => PastInv
  BY DEF Init, PastInv, GenerationsPast, WorkerPast, Reported, StaleIfCompleted, NoStatus, NoWorker,
     IdleHandler, Handlers

LEMMA PastInvNext ==
  ASSUME TypeInv, MutexInv, PastInv, Step
  PROVE  PastInv'
<1>0. /\ gen \in Generations /\ w \in Workers
      /\ h \in [Handlers -> [pc : HandlerPCs, copy : Statuses, gen : 0..MaxGeneration, run : 0..MaxRun]]
  BY DEF TypeInv, TypeOK, Workers
<1>1. CASE OperatorStep
  <2>1. UNCHANGED <<w, gen>>
    BY <1>1, OperatorJobs
  <2>2. \A j \in Jobs : WorkerPast(j)'
    BY <2>1 DEF PastInv, GenerationsPast, WorkerPast
  <2>3. QED
    BY <1>1, <2>1, <2>2, OperatorReports, OperatorCreates, HandlersPast DEF PastInv, GenerationsPast
<1>2. CASE RequestStep
  <2>1. UNCHANGED <<h, w, job>> /\ gen <= gen' /\ gen' \in Nat /\ gen \in Nat
    BY <1>0, <1>2, RequestReports DEF kube, Generations
  <2>2. ASSUME NEW t \in Handlers
        PROVE  h'[t].copy.obs <= h'[t].gen /\ h'[t].gen <= gen' /\ Reported(h'[t].copy)
    <3>1. h[t].copy.obs <= h[t].gen /\ h[t].gen <= gen /\ Reported(h[t].copy) /\ h[t].gen \in Nat
      BY <1>0 DEF PastInv, GenerationsPast
    <3>2. QED
      BY <2>1, <3>1
  <2>3. ASSUME NEW j \in Jobs
        PROVE  (job'[j] # "absent" => j[1] <= gen') /\ WorkerPast(j)'
    <3>1. (job[j] # "absent" => j[1] <= gen) /\ WorkerPast(j)
      BY DEF PastInv, GenerationsPast
    <3>2. j[1] \in Nat /\ w[j].lgen \in Nat /\ w[j].gen \in Nat
      BY <1>0 DEF Jobs, Generations, Workers
    <3>3. QED
      BY <2>1, <3>1, <3>2 DEF WorkerPast
  <2>4. st'.obs <= gen' /\ Reported(st')
    <3>1. st'.obs <= gen /\ Reported(st')
      BY <1>2, RequestReports
    <3>2. st'.obs \in Nat
      BY <1>2, GatewayStatus, RequestLeavesOperator, TypeFacts DEF Counted, Statuses
    <3>3. QED
      BY <2>1, <3>1, <3>2
  <2>5. StaleIfCompleted'
    BY <2>1 DEF PastInv, StaleIfCompleted
  <2>6. QED
    BY <2>2, <2>3, <2>4, <2>5 DEF PastInv, GenerationsPast
<1>3. ASSUME NEW j \in Jobs, PodStep(j)
      PROVE  PastInv'
  <2>1. UNCHANGED <<h, gen>>
    BY <1>3, PodLeavesOperator
  <2>2. \A k \in Jobs : WorkerPast(k)'
    BY <1>3, <2>1, PodPast, WorkersMove DEF PastInv, GenerationsPast, WorkerPast
  <2>3. StaleIfCompleted'
    BY <2>1 DEF PastInv, StaleIfCompleted
  <2>4. QED
    BY <1>3, <2>1, <2>2, <2>3, PodWrites DEF PastInv, GenerationsPast
<1>4. ASSUME NEW g \in Generations, LeaseChanges(g)
      PROVE  PastInv'
  BY <1>4, LeaseAlone DEF oper, PastInv, GenerationsPast, WorkerPast, StaleIfCompleted
<1>5. QED
  BY <1>1, <1>2, <1>3, <1>4, StepKinds

\* A worker that has begun on the present generation is at work on it, and reads it as it is.
LEMMA BegunAtWork ==
  ASSUME TypeInv, PastInv, NEW j \in Jobs, Begun(j), j[1] = gen
  PROVE  j \in AtWorkOn(gen) /\ w[j].gen = gen
<1>1. w \in Workers /\ gen \in Nat
  BY DEF TypeInv, TypeOK, Workers, Generations
<1>2. w[j].pc \notin {"none", "boot", "claim", "load"} /\ w[j].lgen \in Nat /\ w[j].gen \in Nat
  BY <1>1 DEF Begun, Workers
<1>3. WorkerPast(j)
  BY DEF PastInv, GenerationsPast
<1>4. QED
  BY <1>1, <1>2, <1>3 DEF WorkerPast, AtWorkOn, AtWork

\* Two of them disturb each other.
LEMMA BegunAlone ==
  ASSUME TypeInv, MutexInv, PastInv, NEW i \in Jobs, NEW j \in Jobs, i # j,
         Begun(i), Begun(j), i[1] = gen, j[1] = gen
  PROVE  gen \in disturbed
  BY BegunAtWork, TypeFacts DEF MutexInv, OneWorkerPerGeneration

\* A step that leaves the generation, its artifact and its workers alone, and reports
\* nothing completed of it, keeps what is said of the reports.
LEMMA NothingReported ==
  ASSUME TypeInv, MutexInv, DiskInv, PastInv', Disturb, UNCHANGED <<w, artifact>>,
         gen' \in Generations, gen <= gen',
         st' # st /\ st'.phase = "completed" => st'.job[1] < gen'
  PROVE  DiskInv'
<1>0. gen \in Nat /\ gen' \in Nat /\ PastInv
  BY DEF TypeInv, TypeOK, Generations, DiskInv
<1>1. \A j \in Jobs : Begun(j)' <=> Begun(j)
  BY DEF Begun
<1>2. ASSUME NEW j \in Jobs, Begun(j), j[1] = gen'
      PROVE  gen = gen' /\ (gen \in disturbed => gen' \in disturbed')
  <2>1. gen = gen'
    <3>1. w \in Workers /\ WorkerPast(j) /\ w[j].pc \notin {"none", "boot", "claim", "load"}
      BY <1>0, <1>2 DEF TypeInv, TypeOK, Workers, PastInv, GenerationsPast, Begun
    <3>2. w[j].lgen \in Nat
      BY <3>1 DEF Workers
    <3>3. QED
      BY <1>0, <1>2, <3>1, <3>2 DEF WorkerPast
  <2>2. j \in AtWorkOn(gen)'
    BY <1>0, <1>2, <2>1, BegunAtWork, WorkersStay
  <2>3. QED
    BY <2>1, <2>2, DisturbRecords
<1>3. ASSUME NEW j \in Jobs, w'[j].pc = "report", gen' = j[1]
      PROVE  artifact'[gen'] = [gen |-> gen', run |-> j[2], done |-> TRUE] \/ gen' \in disturbed'
  <2>1. Begun(j) /\ w[j].pc = "report"
    BY <1>3 DEF Begun
  <2>2. gen = gen' /\ (gen \in disturbed => gen' \in disturbed')
    BY <1>2, <1>3, <2>1
  <2>3. QED
    BY <1>3, <2>1, <2>2 DEF DiskInv, ReportsWhatIsSaved
<1>4. ASSUME NEW j \in Jobs, Begun(j), j[1] = gen', st'.phase = "completed", gen' = st'.job[1]
      PROVE  gen' \in disturbed'
  <2>1. st' = st
    BY <1>0, <1>4
  <2>2. gen = gen' /\ (gen \in disturbed => gen' \in disturbed')
    BY <1>2, <1>4
  <2>3. QED
    BY <1>4, <2>1, <2>2 DEF DiskInv, NoneBegunAfterCompletion
<1>5. QED
  BY <1>1, <1>3, <1>4 DEF DiskInv, ReportsWhatIsSaved, NoneBegunAfterCompletion

\* A step of a worker.
LEMMA PodReports ==
  ASSUME TypeInv, MutexInv, DiskInv, PastInv', Disturb, NEW j \in Jobs, PodStep(j)
  PROVE  /\ DiskInv'
         /\ st' # st \/ artifact'[gen] # artifact[gen] => OnDisk' \/ gen' \in disturbed'
<1>0. /\ gen \in Nat /\ gen \in Generations /\ gen' = gen /\ PastInv /\ w \in Workers
      /\ artifact \in [Generations -> [gen : 0..MaxGeneration, run : 0..MaxRun, done : BOOLEAN]]
  BY PodLeavesOperator, SMTT(40) DEF TypeInv, TypeOK, Generations, DiskInv, Workers
<1>1. \A k \in Jobs \ {j} : (Begun(k)' <=> Begun(k)) /\ (w'[k].pc = "report" <=> w[k].pc = "report")
  BY WorkersMove DEF Begun
\* Another worker that has begun on a disturbed generation leaves it disturbed; so do two.
<1>2. ASSUME NEW k \in Jobs \ {j}, Begun(k), k[1] = gen, gen \in disturbed \/ (Begun(j) /\ j[1] = gen)
      PROVE  gen \in disturbed'
  <2>1. gen \in disturbed
    BY <1>0, <1>2, BegunAlone
  <2>2. k \in AtWorkOn(gen)
    BY <1>0, <1>2, BegunAtWork
  <2>3. k \in AtWorkOn(gen)'
    BY <1>0, <1>2, <2>2, WorkersMove DEF AtWorkOn, AtWork
  <2>4. QED
    BY <1>0, <2>1, <2>3, DisturbRecords
\* And so does this one, if it goes on.
<1>3. ASSUME Begun(j), j[1] = gen, w'[j].pc \notin {"none", "boot", "claim"}, gen \in disturbed
      PROVE  gen \in disturbed'
  <2>1. w[j].lgen = gen /\ w[j].pc \notin {"none", "boot", "claim", "load"}
    BY <1>0, <1>3, BegunAtWork DEF AtWorkOn, Begun
  <2>2. w'[j].lgen = gen
    BY <1>3, <2>1, WorkersMove DEF WorkerMoves
  <2>3. j \in AtWorkOn(gen)'
    BY <1>0, <1>3, <2>2 DEF AtWorkOn, AtWork
  <2>4. QED
    BY <1>0, <1>3, <2>3, DisturbRecords
<1>4. ASSUME artifact' # artifact
      PROVE  /\ Begun(j) /\ Begun(j)' /\ \E done \in BOOLEAN : Save(j, done)
             /\ \A g \in Generations \ {j[1]} : artifact'[g] = artifact[g]
  BY <1>0, <1>4, PodWrites DEF Save
<1>5. ASSUME NEW k \in Jobs, w'[k].pc = "report", gen = k[1]
      PROVE  artifact'[gen] = [gen |-> gen, run |-> k[2], done |-> TRUE] \/ gen \in disturbed'
  <2>1. CASE k # j
    <3>1. w[k].pc = "report" /\ Begun(k)
      BY <1>1, <1>5, <2>1 DEF Begun
    <3>2. artifact[gen] = [gen |-> gen, run |-> k[2], done |-> TRUE] \/ gen \in disturbed
      BY <1>5, <3>1 DEF DiskInv, ReportsWhatIsSaved
    <3>3. CASE artifact'[gen] = artifact[gen]
      BY <1>2, <1>5, <2>1, <3>1, <3>2, <3>3
    <3>4. CASE artifact'[gen] # artifact[gen]
      BY <1>0, <1>2, <1>4, <1>5, <2>1, <3>1, <3>4
    <3>5. QED
      BY <3>3, <3>4
  <2>2. CASE k = j
    <3>1. WorkerFinish(j)
      BY <1>5, <2>2, WorkersMove DEF WorkerMoves
    <3>2. Begun(j) /\ Save(j, TRUE)
      BY <3>1 DEF WorkerFinish, Begun
    <3>3. w[j].gen = gen
      BY <1>0, <1>5, <2>2, <3>2, BegunAtWork
    <3>4. QED
      BY <1>0, <1>5, <2>2, <3>2, <3>3 DEF Save
  <2>3. QED
    BY <2>1, <2>2
\* Who reports completion.
<1>6. ASSUME st' # st, st'.phase = "completed"
      PROVE  /\ w[j].pc = "report" /\ w'[j].pc = "leave0" /\ artifact' = artifact
             /\ st'.job = j /\ st'.run = j[2]
  <2>1. WorkerReport(j)
    BY <1>0, <1>6, PodWrites
  <2>2. w[j].pc = "report" /\ w' = [w EXCEPT ![j].pc = "leave0"] /\ artifact' = artifact
    BY <2>1 DEF WorkerReport
  <2>3. QED
    BY <1>0, <2>1, <2>2 DEF WorkerReport, WorkerStatus, Workers
<1>7. ASSUME NEW k \in Jobs, Begun(k)', k[1] = gen, st'.phase = "completed", gen = st'.job[1]
      PROVE  gen \in disturbed'
  <2>1. CASE st' = st
    <3>1. Begun(k)
      <4>1. ~WorkerBegin(j)
        BY <1>0, <1>7, PodWrites
      <4>2. Begun(j)' => Begun(j)
        BY <4>1, WorkersMove DEF WorkerMoves, Begun
      <4>3. QED
        BY <1>1, <1>7, <4>2
    <3>2. gen \in disturbed
      BY <1>7, <2>1, <3>1 DEF DiskInv, NoneBegunAfterCompletion
    <3>3. CASE k # j
      BY <1>2, <1>7, <3>1, <3>2, <3>3
    <3>4. CASE k = j
      BY <1>3, <1>7, <3>1, <3>2, <3>4 DEF Begun
    <3>5. QED
      BY <3>3, <3>4
  <2>2. CASE st' # st
    <3>1. Begun(j) /\ j[1] = gen /\ k # j
      BY <1>6, <1>7, <2>2 DEF Begun
    <3>2. Begun(k)
      BY <1>1, <1>7, <3>1
    <3>3. QED
      BY <1>2, <1>7, <3>1, <3>2
  <2>3. QED
    BY <2>1, <2>2
<1>8. ASSUME st' # st \/ artifact'[gen] # artifact[gen]
      PROVE  OnDisk' \/ gen \in disturbed'
  <2> SUFFICES ASSUME st'.phase = "completed", gen = st'.job[1], gen \notin disturbed'
               PROVE  artifact'[gen] = [gen |-> gen, run |-> st'.run, done |-> TRUE]
    BY <1>0 DEF OnDisk
  <2>1. CASE st' # st
    <3>1. w[j].pc = "report" /\ Begun(j) /\ j[1] = gen
      BY <1>6, <2>1 DEF Begun
    <3>2. artifact[gen] = [gen |-> gen, run |-> j[2], done |-> TRUE] \/ gen \in disturbed
      BY <3>1 DEF DiskInv, ReportsWhatIsSaved
    <3>3. gen \notin disturbed
      BY <1>3, <1>6, <2>1, <3>1
    <3>4. QED
      BY <1>6, <2>1, <3>2, <3>3
  <2>2. CASE st' = st
    <3>1. Begun(j) /\ Begun(j)' /\ j[1] = gen
      BY <1>0, <1>4, <1>8, <2>2
    <3>2. gen \in disturbed
      BY <2>2, <3>1 DEF DiskInv, NoneBegunAfterCompletion
    <3>3. QED
      BY <1>3, <3>1, <3>2 DEF Begun
  <2>3. QED
    BY <2>1, <2>2
<1>9. QED
  BY <1>0, <1>5, <1>7, <1>8 DEF DiskInv, ReportsWhatIsSaved, NoneBegunAfterCompletion

LEMMA DiskInvInit == Init => DiskInv
  BY PastInvInit DEF Init, DiskInv, ReportsWhatIsSaved, NoneBegunAfterCompletion, NoStatus, NoWorker

LEMMA DiskInvNext ==
  ASSUME TypeInv, MutexInv, DiskInv, [Next]_allVars
  PROVE  /\ DiskInv'
         /\ st' # st \/ artifact'[gen] # artifact[gen] => OnDisk' \/ gen' \in disturbed'
<1>0. gen \in Generations /\ PastInv
  BY DEF TypeInv, TypeOK, DiskInv
<1>1. CASE Step /\ Disturb
  <2>0. PastInv'
    BY <1>0, <1>1, PastInvNext
  <2>1. CASE OperatorStep
    <3>1. /\ UNCHANGED <<w, artifact, gen>>
          /\ st' # st /\ st'.phase = "completed" => st'.job[1] < gen
      BY <1>0, <2>1, OperatorJobs, OperatorReports
    <3>2. DiskInv'
      BY <1>0, <1>1, <2>0, <3>1, NothingReported DEF Generations
    <3>3. st' # st => OnDisk'
      BY <1>0, <3>1 DEF OnDisk, Generations
    <3>4. QED
      BY <3>1, <3>2, <3>3
  <2>2. CASE RequestStep
    <3>1. /\ UNCHANGED <<w, artifact>> /\ gen' \in Generations /\ gen <= gen'
          /\ st' # st => st'.phase # "completed"
      BY <1>0, <2>2, RequestReports DEF kube
    <3>2. DiskInv'
      BY <1>1, <2>0, <3>1, NothingReported
    <3>3. st' # st => OnDisk'
      BY <3>1 DEF OnDisk
    <3>4. QED
      BY <3>1, <3>2, <3>3
  <2>3. CASE \E j \in Jobs : PodStep(j)
    BY <1>1, <2>0, <2>3, PodReports
  <2>4. ASSUME NEW g \in Generations, LeaseChanges(g)
        PROVE  DiskInv' /\ UNCHANGED <<st, artifact>>
    <3>1. UNCHANGED <<w, artifact, gen, st>>
      BY <2>4, LeaseAlone
    <3>2. QED
      BY <1>0, <1>1, <2>0, <3>1, NothingReported DEF Generations
  <2>5. QED
    BY <1>1, <2>1, <2>2, <2>3, <2>4, StepKinds
<1>2. CASE UNCHANGED allVars
  BY <1>2 DEF allVars, vars, kube, oper, DiskInv, PastInv, GenerationsPast, WorkerPast, StaleIfCompleted,
     ReportsWhatIsSaved, NoneBegunAfterCompletion, Begun
<1>3. QED
  BY <1>1, <1>2 DEF Next

\* Only a run whose results are all in the artifact is reported completed, and nobody writes
\* over them while it is the one reported, whatever the operator, the gateway, the pods and
\* the cluster do, unless a Job was deleted under a worker of the generation, or the lease of
\* one at work expired.
THEOREM LifecycleSavesResults == Spec => CompletedIsOnDisk
<1>1. TypeInv /\ MutexInv /\ DiskInv /\ [Next]_allVars =>
        [st' # st \/ artifact'[gen] # artifact[gen] => OnDisk' \/ gen' \in disturbed']_<<st, artifact>>
  BY DiskInvNext
<1>2. TypeInv /\ MutexInv /\ DiskInv /\ [Next]_allVars => DiskInv'
  BY DiskInvNext
<1>3. QED
  BY <1>1, <1>2, TypeInvInit, TypeInvNext, MutexInvInit, MutexInvNext, DiskInvInit, PTL
     DEF Spec, CompletedIsOnDisk

-----------------------------------------------------------------------------
(* Waiting workflows, in an environment without other rare events.         *)

LEMMA OnlyIsJob == Only \in Jobs /\ 1 \in Generations /\ 1 \in Runs /\ Only # NoJob
  BY DEF Only, Jobs, Generations, Runs, NoJob

LEMMA NothingIsSpent ==
  ASSUME NothingHappens, NEW e \in {"trigger", "update", "retry", "cancel", "tick", "crash",
                                    "fault", "restart"}
  PROVE  ~Spend(e)
  BY DEF NothingHappens, Unasked, RareEvents, Spend

\* The budget of the other events only shrinks.
LEMMA StillNothing ==
  ASSUME TypeInv, NothingHappens,
         budget' = budget \/ Spend("decide") \/ Spend("overtake") \/ Spend("lapse"),
         UNCHANGED <<gen, resumeDue, gw>>, Idle("timer")', Idle("resume")'
  PROVE  NothingHappens'
  BY DEF NothingHappens, Unasked, RareEvents, Spend, TypeInv, TypeOK

LEMMA CalmInvInit == Calm /\ Init => CalmInv
  BY OnlyIsJob DEF Init, Calm, CalmInv, NothingHappens, Unasked, OneRun, StatusOfOnly, EnqueuesOnce,
     Labels, Idle, Event, IdleHandler, Handlers, NoWorker, NoStatus, Jobs

LEMMA PodOfOnly ==
  ASSUME TypeInv, CalmInv, NEW j \in Jobs, PodStep(j)
  PROVE  j = Only
  BY DEF CalmInv, OneRun, PodStep, PodStart, WorkerStep, WorkerProgress, PodCrash, WorkerBoot,
     WorkerClaim, WorkerLoad, WorkerBegin, WorkerFinish, WorkerReport, WorkerPause, WorkerReportPause,
     WorkerLabel, WorkerStepFails, WorkerAbort, WorkerSaveFailure, WorkerReportFailure, WorkerLeave

LEMMA PodsStayCalm ==
  ASSUME TypeInv, CalmInv, NEW j \in Jobs, PodStep(j)
  PROVE  CalmInv'
<1> USE DEF CalmInv, OneRun, Labels
<1>0. /\ j = Only /\ Only \in Jobs /\ job[Only] = "live" /\ nextRun # 1
      /\ w \in [Jobs -> [pc : WorkerPCs, lgen : 0..MaxGeneration,
                         gen : 0..MaxGeneration, failed : {"none", "failed"}]]
      /\ job \in [Jobs -> {"absent", "live", "succeeded", "failed", "deleted"}]
      /\ budget \in [RareEvents \cup {"runs"} -> Nat]
      /\ gen = 1
  <2>1. j = Only
    BY PodOfOnly
  <2>2. job[Only] = "live"
    BY <2>1 DEF PodStep, PodStart, WorkerStep, WorkerProgress, PodCrash, WorkerBoot,
       WorkerClaim, WorkerLoad, WorkerBegin, WorkerFinish, WorkerReport, WorkerPause, WorkerReportPause,
       WorkerLabel, WorkerStepFails, WorkerAbort, WorkerSaveFailure, WorkerReportFailure, WorkerLeave
  <2>3. QED
    BY <2>1, <2>2, OnlyIsJob DEF TypeInv, TypeOK, NothingHappens
<1>1. UNCHANGED <<gen, h, nextRun, resumeDue, gw>> /\ (budget' = budget \/ Spend("overtake"))
  BY <1>0, NothingIsSpent DEF PodStep, PodStart, WorkerStep, WorkerProgress, PodCrash, WorkerBoot,
     WorkerClaim, WorkerLoad, WorkerBegin, WorkerFinish, WorkerReport, WorkerPause, WorkerReportPause,
     WorkerLabel, WorkerStepFails, WorkerAbort, WorkerSaveFailure, WorkerReportFailure, WorkerLeave,
     oper, kube, user
<1>2. NothingHappens'
  BY <1>1, StillNothing DEF NothingHappens, Idle
<1>3. EnqueuesOnce'
  BY <1>1 DEF EnqueuesOnce, Event
<1>4. CASE PodStart(j)
  <2>1. /\ w' = [w EXCEPT ![Only].pc = "boot"] /\ UNCHANGED <<st, label, job>>
        /\ w[Only].pc = "none"
    BY <1>0, <1>4 DEF PodStart
  <2>2. label = 0 /\ st.phase # "waiting-approval" /\ Idle("approval")
    BY <1>0, <2>1 DEF HasPaused
  <2>3. QED
    BY <1>0, <1>1, <1>2, <1>3, <2>1, <2>2 DEF StatusOfOnly, Event, Idle
<1>5. ASSUME w[Only].pc \in {"boot", "claim"}, UNCHANGED <<st, label>>,
             \/ UNCHANGED job /\ \E pc \in {"claim", "load"}, g \in 0..MaxGeneration :
                                    w' = [w EXCEPT ![Only].pc = pc, ![Only].lgen = g]
             \/ PodEnds(Only, FALSE)
      PROVE  CalmInv'
  <2>1. label = 0 /\ st.phase # "waiting-approval" /\ Idle("approval")
    BY <1>5 DEF HasPaused
  <2>2. job'[Only] # "deleted" /\ (w'[Only].pc # "none" => job'[Only] = "live") /\ job'[Only] # "absent"
    BY <1>0, <1>5 DEF PodEnds, NoWorker
  <2>3. w'[Only].pc \in {"none", "claim", "load"}
    BY <1>0, <1>5 DEF PodEnds, NoWorker
  <2>4. \A i \in Jobs : i # Only => job'[i] = job[i] /\ w'[i] = w[i]
    BY <1>0, <1>5 DEF PodEnds
  <2>5. QED
    BY <1>0, <1>1, <1>2, <1>3, <1>5, <2>1, <2>2, <2>3, <2>4 DEF StatusOfOnly, Event, Idle
<1>6. CASE WorkerBoot(j)
  <2>1. PICK g \in 0..MaxGeneration : g = gen
    BY <1>0 DEF TypeInv, TypeOK, Generations
  <2>2. w[Only].pc = "boot" /\ UNCHANGED <<st, label>>
    BY <1>0, <1>6 DEF WorkerBoot
  <2>3. \/ PodEnds(Only, FALSE)
        \/ UNCHANGED job /\ w' = [w EXCEPT ![Only].pc = "claim", ![Only].lgen = g]
    BY <1>0, <1>6, <2>1 DEF WorkerBoot
  <2>4. QED
    BY <1>5, <2>2, <2>3
<1>7. CASE WorkerClaim(j)
  <2>1. PICK g \in 0..MaxGeneration : g = w[Only].lgen
    BY <1>0
  <2>2. w[Only].pc = "claim" /\ UNCHANGED <<st, label>>
    BY <1>0, <1>7 DEF WorkerClaim
  <2>3. \/ PodEnds(Only, FALSE)
        \/ UNCHANGED job /\ w' = [w EXCEPT ![Only].pc = "load", ![Only].lgen = g]
    <3>1. [w EXCEPT ![Only].pc = "load"] = [w EXCEPT ![Only].pc = "load", ![Only].lgen = g]
      BY <1>0, <2>1
    <3>2. QED
      BY <1>0, <1>7, <3>1 DEF WorkerClaim
  <2>4. QED
    BY <1>5, <2>2, <2>3
<1>8. ASSUME NEW to \in WorkerPCs \ {"none", "leave0"}, NEW f \in {"none", "failed"},
             w[Only].pc \notin {"none", "boot", "claim", "leave0", "label"},
             \/ w' = [w EXCEPT ![Only].pc = to, ![Only].failed = f] /\ w[Only].pc # "load"
             \/ w' = [w EXCEPT ![Only].gen = gen, ![Only].pc = to],
             UNCHANGED job, label' \in {label, 0},
             \/ st' = st
             \/ /\ st'.phase \in {"running", "failed", "waiting-approval"}
                /\ st'.obs = 1 /\ st'.run = 1 /\ st'.job = Only
                /\ st'.phase = "waiting-approval" => st'.pend = 1 /\ to = "label"
      PROVE  CalmInv'
  <2>1. label = 0 /\ st.phase # "waiting-approval" /\ Idle("approval")
    BY <1>8 DEF HasPaused
  <2>2. /\ w'[Only].pc = to /\ (\A i \in Jobs : i # Only => w'[i] = w[i])
        /\ (w'[Only].pc \notin {"none", "boot", "claim", "load"} => w'[Only].gen = 1)
    BY <1>0, <1>8
  <2>3. StatusOfOnly' /\ (st' # NoStatus \/ st' = st)
    BY <1>8, <2>1 DEF StatusOfOnly, NoStatus
  <2>4. QED
    BY <1>0, <1>1, <1>2, <1>3, <1>8, <2>1, <2>2, <2>3 DEF Event, Idle
<1>9. ASSUME w[Only].pc \notin {"none", "boot", "claim", "load"},
             w' = [w EXCEPT ![Only].pc = "leave0"], UNCHANGED job,
             \/ /\ UNCHANGED label /\ w[Only].pc \notin {"label", "leave0"}
                /\ st'.phase \in {"running", "completed"} /\ st'.obs = 1 /\ st'.run = 1 /\ st'.job = Only
             \/ UNCHANGED st /\ label' = 1 /\ w[Only].pc = "label"
      PROVE  CalmInv'
  <2>1. label = 0 \/ w[Only].pc = "leave0"
    BY <1>9 DEF HasPaused
  <2>2. /\ w'[Only].pc = "leave0" /\ (\A i \in Jobs : i # Only => w'[i] = w[i])
        /\ w'[Only].gen = 1
    BY <1>0, <1>9
  <2>3. StatusOfOnly' /\ (st' # NoStatus \/ st' = st)
    BY <1>9 DEF StatusOfOnly, NoStatus
  <2>4. Idle("approval")
    BY <1>9 DEF HasPaused
  <2>5. QED
    BY <1>0, <1>1, <1>2, <1>3, <1>9, <2>1, <2>2, <2>3, <2>4 DEF Event, Idle, HasPaused
<1> DEFINE Written(p) == /\ st'.phase = p /\ st'.obs = 1 /\ st'.run = 1 /\ st'.job = Only
<1>10. ASSUME NEW p, NEW pend, NEW f, st' = WorkerStatus(st, p, j, w[j].gen, pend, f),
              w[Only].pc \notin {"none", "boot", "claim", "load"}
       PROVE  Written(p) /\ st'.pend = pend
  <2>1. w[j].gen = 1 /\ j[2] = 1 /\ j = Only
    BY <1>0, <1>10 DEF Only
  <2>2. QED
    BY <1>10, <2>1 DEF WorkerStatus
<1>11. CASE WorkerLoad(j)
  BY <1>0, <1>8, <1>11 DEF WorkerLoad, WorkerPCs
<1>12. CASE WorkerBegin(j)
  <2>1. Written("running") /\ UNCHANGED <<label, job>>
    BY <1>0, <1>10, <1>12 DEF WorkerBegin
  <2>2. CASE w[Only].pc = "ghost"
    <3>1. w' = [w EXCEPT ![Only].pc = "leave0"]
      BY <1>0, <1>12, <2>2 DEF WorkerBegin
    <3>2. QED
      BY <1>9, <2>1, <2>2, <3>1
  <2>3. CASE w[Only].pc = "begin"
    <3>1. w' = [w EXCEPT ![Only].pc = "exec", ![Only].failed = w[Only].failed]
      BY <1>0, <1>12, <2>3 DEF WorkerBegin
    <3>2. QED
      BY <1>0, <1>8, <2>1, <2>3, <3>1 DEF WorkerPCs
  <2>4. QED
    BY <1>0, <1>12, <2>2, <2>3 DEF WorkerBegin
<1>13. CASE WorkerProgress(j)
  <2>1. w[Only].pc = "exec" /\ UNCHANGED <<label, job, w>> /\ Written("running")
    BY <1>0, <1>10, <1>13 DEF WorkerProgress, kube
  <2>2. /\ w' = [w EXCEPT ![Only].pc = "exec", ![Only].failed = w[Only].failed]
        /\ w[Only].failed \in {"none", "failed"}
    <3>1. w[Only] \in [pc : WorkerPCs, lgen : 0..MaxGeneration, gen : 0..MaxGeneration,
                       failed : {"none", "failed"}]
      BY <1>0
    <3>2. w[Only] = [w[Only] EXCEPT !.pc = "exec", !.failed = w[Only].failed]
      BY <2>1, <3>1, ZenonT(60)
    <3>3. w = [w EXCEPT ![Only] = [w[Only] EXCEPT !.pc = "exec", !.failed = w[Only].failed]]
      BY <1>0, <3>2
    <3>4. QED
      BY <1>0, <2>1, <3>1, <3>3
  <2>3. label' = label /\ job' = job
    BY <2>1
  <2>4. "exec" \in WorkerPCs \ {"none", "leave0"}
    BY DEF WorkerPCs
  <2>5. QED
    BY <1>8, <2>1, <2>2, <2>3, <2>4, ZenonT(60)
<1>14. CASE WorkerFinish(j) \/ WorkerPause(j) \/ WorkerSaveFailure(j)
  <2>1. PICK to \in {"report", "pause", "failed"} : w' = [w EXCEPT ![Only].pc = to]
    BY <1>0, <1>14 DEF WorkerFinish, WorkerPause, WorkerSaveFailure
  <2>2. w' = [w EXCEPT ![Only].pc = to, ![Only].failed = w[Only].failed]
    BY <1>0, <2>1
  <2>3. w[Only].pc \in {"exec", "fail"} /\ UNCHANGED <<st, job>> /\ label' \in {label, 0}
    BY <1>0, <1>14 DEF WorkerFinish, WorkerPause, WorkerSaveFailure
  <2>4. QED
    BY <1>0, <1>8, <2>2, <2>3 DEF WorkerPCs
<1>15. CASE WorkerAbort(j)
  BY <1>0, <1>15, NothingIsSpent DEF WorkerAbort
<1>16. CASE WorkerStepFails(j)
  <2>1. w[Only].pc = "exec" /\ Written("running") /\ UNCHANGED <<label, job>>
    BY <1>0, <1>10, <1>16 DEF WorkerStepFails
  <2>2. w' = [w EXCEPT ![Only].pc = "fail", ![Only].failed = "failed"]
    BY <1>0, <1>16 DEF WorkerStepFails
  <2>3. QED
    BY <1>8, <2>1, <2>2 DEF WorkerPCs
<1>17. CASE WorkerReportPause(j)
  <2>1. j[2] = 1
    BY <1>0 DEF Only
  <2>2. w[Only].pc = "pause" /\ Written("waiting-approval") /\ st'.pend = 1 /\ UNCHANGED <<label, job>>
    BY <1>0, <1>10, <1>17, <2>1 DEF WorkerReportPause
  <2>3. w' = [w EXCEPT ![Only].pc = "label", ![Only].failed = w[Only].failed]
    BY <1>0, <1>17 DEF WorkerReportPause
  <2>4. QED
    BY <1>0, <1>8, <2>2, <2>3 DEF WorkerPCs
<1>18. CASE WorkerReportFailure(j)
  <2>1. w[Only].pc = "failed" /\ Written("failed") /\ UNCHANGED <<label, job>>
    BY <1>0, <1>10, <1>18 DEF WorkerReportFailure
  <2>2. w' = [w EXCEPT ![Only].pc = "leave1", ![Only].failed = w[Only].failed]
    BY <1>0, <1>18 DEF WorkerReportFailure
  <2>3. QED
    BY <1>0, <1>8, <2>1, <2>2 DEF WorkerPCs
<1>19. CASE WorkerReport(j)
  <2>1. w[Only].pc = "report" /\ Written("completed") /\ UNCHANGED <<label, job>>
    BY <1>0, <1>10, <1>19 DEF WorkerReport
  <2>2. w' = [w EXCEPT ![Only].pc = "leave0"]
    BY <1>0, <1>19 DEF WorkerReport
  <2>3. QED
    BY <1>9, <2>1, <2>2
<1>20. CASE WorkerLabel(j)
  <2>1. label' = 1
    BY <1>0, <1>20 DEF WorkerLabel, Only
  <2>2. w[Only].pc = "label" /\ UNCHANGED <<st, job>> /\ w' = [w EXCEPT ![Only].pc = "leave0"]
    BY <1>0, <1>20 DEF WorkerLabel
  <2>3. QED
    BY <1>9, <2>1, <2>2
<1>21. CASE WorkerLeave(j)
  <2>1. /\ w[Only].pc \in {"leave0", "leave1"} /\ UNCHANGED <<st, label>>
        /\ w'[Only].pc = "none" /\ \A i \in Jobs : i # Only => w'[i] = w[i] /\ job'[i] = job[i]
    BY <1>0, <1>21 DEF WorkerLeave, PodEnds, NoWorker
  <2>2. /\ job'[Only] \in {"live", "succeeded", "failed"}
        /\ w[Only].pc = "leave0" => job'[Only] = "succeeded"
    BY <1>0, <1>21 DEF WorkerLeave, PodEnds
  <2>3. HasPaused => HasPaused'
    BY <2>1, <2>2 DEF HasPaused
  <2>4. QED
    BY <1>0, <1>1, <1>2, <1>3, <2>1, <2>2, <2>3 DEF StatusOfOnly, Event, Idle, RunUnderWay
<1>22. CASE PodCrash(j)
  BY <1>0, <1>22, NothingIsSpent DEF PodCrash
<1>23. QED
  BY <1>4, <1>6, <1>7, <1>11, <1>12, <1>13, <1>14, <1>15, <1>16, <1>17, <1>18, <1>19, <1>20, <1>21, <1>22
     DEF PodStep, WorkerStep

LEMMA ApprovalsStayCalm ==
  ASSUME TypeInv, CalmInv,
         ApprovalDeny \/ EnqueueSkip("approval") \/ \E r \in Runs : ApprovalPickup(r)
  PROVE  CalmInv'
<1> USE DEF CalmInv, OneRun, Labels, Idle, Event
<1>0. /\ h \in [Handlers -> [pc : HandlerPCs, copy : Statuses, gen : 0..MaxGeneration, run : 0..MaxRun]]
      /\ Handlers = {"event", "resume", "timer", "approval"}
      /\ job[Only] # "absent" => nextRun # 1
  BY OnlyIsJob DEF TypeInv, TypeOK, Handlers
<1>1. ASSUME NEW r \in Runs, ApprovalPickup(r)
      PROVE  CalmInv'
  <2>1. /\ UNCHANGED <<gen, st, label, job, w, resumeDue, gw, nextRun, budget>>
        /\ h["approval"].pc = "idle"
        /\ \/ UNCHANGED h
           \/ /\ label = r /\ st.pend = r /\ st.phase = "waiting-approval"
              /\ \E pc \in {"guard", "deny"} : Start("approval", pc, st.run)
    BY <1>1, NothingIsSpent DEF ApprovalPickup, ActOnApproval, kube, user
  <2>2. NothingHappens'
    BY <1>0, <2>1, StillNothing DEF NothingHappens, Start
  <2>3. EnqueuesOnce'
    BY <1>0, <2>1 DEF EnqueuesOnce, Start
  <2>4. CASE UNCHANGED h
    BY <2>1, <2>2, <2>3, <2>4 DEF StatusOfOnly, HasPaused, RunUnderWay
  <2>5. ASSUME label = r, st.phase = "waiting-approval",
               NEW pc \in {"guard", "deny"}, Start("approval", pc, st.run)
        PROVE  CalmInv'
    <3>1. HasPaused /\ st # NoStatus /\ st.obs = 1 /\ st.run = 1
      BY <2>5 DEF StatusOfOnly, NoStatus, Runs
    <3>2. h'["approval"].pc = pc /\ h'["approval"].copy = st /\ h'["event"] = h["event"]
      BY <1>0, <2>5 DEF Start
    <3>3. RunUnderWay
      BY <2>5, <3>1 DEF RunUnderWay, Active
    <3>4. QED
      BY <2>1, <2>2, <2>3, <2>5, <3>1, <3>2, <3>3 DEF StatusOfOnly, HasPaused, RunUnderWay
  <2>6. QED
    BY <2>1, <2>4, <2>5
<1>2. CASE ApprovalDeny
  <2>1. /\ UNCHANGED <<gen, label, job, w, resumeDue, gw, nextRun, budget>>
        /\ h["approval"].pc = "deny" /\ h' = [h EXCEPT !["approval"] = IdleHandler]
    BY <1>2 DEF ApprovalDeny, Stop, kube, user
  <2>2. st'.phase = "failed" /\ st'.run = 1 /\ st'.obs = 1 /\ st'.job = st.job
    BY <1>2, <2>1 DEF ApprovalDeny, TypeInv, TypeOK, Statuses
  <2>3. h'["approval"].pc = "idle" /\ \A t \in Handlers \ {"approval"} : h'[t] = h[t]
    BY <1>0, <2>1 DEF IdleHandler
  <2>4. st.job = Only /\ HasPaused /\ nextRun # 1
    BY <1>0, <2>1 DEF StatusOfOnly, HasPaused
  <2>5. NothingHappens'
    BY <1>0, <2>1, <2>3, StillNothing DEF NothingHappens
  <2>6. EnqueuesOnce'
    BY <1>0, <2>1, <2>3 DEF EnqueuesOnce
  <2>7. QED
    BY <2>1, <2>2, <2>3, <2>4, <2>5, <2>6 DEF StatusOfOnly, HasPaused, NoStatus
<1>3. CASE EnqueueSkip("approval")
  <2>1. /\ UNCHANGED <<gen, st, label, job, w, resumeDue, gw, nextRun, budget>>
        /\ h' = [h EXCEPT !["approval"] = IdleHandler]
    BY <1>3 DEF EnqueueSkip, Stop, kube, user
  <2>2. h'["approval"].pc = "idle" /\ \A t \in Handlers \ {"approval"} : h'[t] = h[t]
    BY <1>0, <2>1 DEF IdleHandler
  <2>3. NothingHappens' /\ EnqueuesOnce'
    BY <1>0, <2>1, <2>2, StillNothing DEF NothingHappens, EnqueuesOnce
  <2>4. QED
    BY <2>1, <2>2, <2>3 DEF StatusOfOnly, HasPaused
<1>4. QED
  BY <1>1, <1>2, <1>3

\* The handler of changes creates the one Job, queues its run, and finds nothing to do afterwards.
LEMMA EventsStayCalm ==
  ASSUME TypeInv, CalmInv,
         EventPickup \/ EventCheck \/ EventPatch \/ EnqueueStep("event")
  PROVE  CalmInv'
<1> USE DEF CalmInv, OneRun, Labels, Idle, Event
<1>0. /\ h \in [Handlers -> [pc : HandlerPCs, copy : Statuses, gen : 0..MaxGeneration, run : 0..MaxRun]]
      /\ Handlers = {"event", "resume", "timer", "approval"}
      /\ job \in [Jobs -> {"absent", "live", "succeeded", "failed", "deleted"}]
      /\ Only \in Jobs /\ Only # NoJob /\ nextRun \in Nat
      /\ (nextRun = 1 => ~HasPaused /\ label = 0 /\ h["approval"].pc = "idle")
      /\ gen = 1 /\ st \in Statuses
  BY OnlyIsJob DEF TypeInv, TypeOK, Handlers, HasPaused, NothingHappens
<1>1. UNCHANGED <<gen, label, w, resumeDue, gw, budget>>
      /\ \A t \in Handlers \ {"event"} : h'[t] = h[t]
  BY <1>0, NothingIsSpent DEF EventPickup, EventCheck, EventPatch, EnqueueStep, EnqueueSkip, EnqueueGo, EnqueueCreate,
     EnqueueCancel, EnqueueQueue, Start, Stop, Goto, kube, user
<1>2. NothingHappens'
  BY <1>0, <1>1, StillNothing DEF NothingHappens
<1>3. ASSUME UNCHANGED <<st, job, nextRun>>, EnqueuesOnce',
             h'["event"].pc \in {"cancel", "queue"} \/ h["event"].pc \notin {"cancel", "queue"}
      PROVE  CalmInv'
  BY <1>0, <1>1, <1>2, <1>3 DEF StatusOfOnly, HasPaused, RunUnderWay
<1>4. CASE EventPickup
  <2>1. /\ h["event"].pc = "idle" /\ UNCHANGED <<st, job, nextRun>>
        /\ Start("event", "check", 0)
    BY <1>4 DEF EventPickup, kube, StatusOfOnly, NoStatus
  <2>2. h'["event"] = [pc |-> "check", copy |-> st, gen |-> 1, run |-> 0]
    BY <1>0, <2>1 DEF Start
  <2>3. st # NoStatus => Reconciled(st, 1)
    BY DEF StatusOfOnly, Reconciled, MatchesGeneration, Active, Terminal
  <2>4. st = NoStatus => nextRun = 1
    BY <2>1
  <2>5. EnqueuesOnce'
    <3>1. st = NoStatus => EnqueuesOnce'
      BY <2>1, <2>2, <2>4 DEF EnqueuesOnce
    <3>2. st # NoStatus => EnqueuesOnce'
      BY <2>2, <2>3 DEF EnqueuesOnce, Reconciled, MatchesGeneration
    <3>3. QED
      BY <3>1, <3>2
  <2>6. QED
    BY <1>3, <2>1, <2>2, <2>5
<1>5. CASE EventCheck
  <2>1. h["event"].pc = "check" /\ UNCHANGED <<st, job, nextRun>>
    BY <1>5 DEF EventCheck, kube
  <2>2. CASE NothingToRun("event")
    <3>1. h'["event"] = IdleHandler
      BY <1>0, <1>5, <2>2 DEF EventCheck, Stop
    <3>2. QED
      BY <1>3, <2>1, <3>1 DEF EnqueuesOnce, IdleHandler
  <2>3. CASE ~NothingToRun("event")
    <3>1. h'["event"] = [h["event"] EXCEPT !.pc = "patch"]
      BY <1>0, <1>5, <2>3 DEF EventCheck, Goto
    <3>2. ~Reconciled(h["event"].copy, 1)
      BY <2>1, <2>3 DEF NothingToRun, EnqueuesOnce
    <3>3. EnqueuesOnce'
      BY <1>0, <2>1, <3>1, <3>2 DEF EnqueuesOnce
    <3>4. QED
      BY <1>3, <2>1, <3>3
  <2>4. QED
    BY <2>2, <2>3
<1>6. CASE EventPatch
  <2>1. /\ h["event"].pc = "patch" /\ UNCHANGED <<job, nextRun>>
        /\ st' = Merge(st, NoStatus) /\ nextRun = 1 /\ st = NoStatus
    BY <1>6 DEF EventPatch, kube, EnqueuesOnce
  <2>2. st' = st
    BY <2>1 DEF Merge, NoStatus
  <2>3. h'["event"] = [h["event"] EXCEPT !.pc = "guard"]
    BY <1>0, <1>6 DEF EventPatch, Goto
  <2>4. EnqueuesOnce'
    BY <1>0, <2>1, <2>3 DEF EnqueuesOnce
  <2>5. QED
    BY <1>3, <2>1, <2>2, <2>4
<1>7. CASE EnqueueSkip("event") \/ EnqueueGo("event")
  <2>1. h["event"].pc = "guard" /\ UNCHANGED <<st, job, nextRun>>
    BY <1>7 DEF EnqueueSkip, EnqueueGo, kube
  <2>2. h'["event"] = IdleHandler \/ h'["event"] = [h["event"] EXCEPT !.pc = "create"]
    BY <1>0, <1>7 DEF EnqueueSkip, EnqueueGo, Stop, Goto
  <2>3. EnqueuesOnce'
    BY <1>0, <2>1, <2>2 DEF EnqueuesOnce, IdleHandler
  <2>4. QED
    BY <1>3, <2>1, <2>3
<1>8. CASE EnqueueCreate("event")
  <2>1. h["event"].pc = "create" /\ h["event"].run = 0 /\ h["event"].copy = NoStatus
        /\ h["event"].gen = 1 /\ nextRun = 1 /\ st = NoStatus /\ job[Only] = "absent"
    BY <1>8 DEF EnqueueCreate, EnqueuesOnce
  <2>2. ResolvedRun("event") = 0
    BY <2>1 DEF ResolvedRun, MatchesGeneration, NoStatus
  <2>3. /\ job' = [job EXCEPT ![Only] = "live"] /\ nextRun' = 2 /\ st' = st
        /\ h' = [h EXCEPT !["event"].pc = "cancel", !["event"].run = 1]
    BY <1>8, <2>1, <2>2 DEF EnqueueCreate, Only
  <2>4. h'["event"] = [h["event"] EXCEPT !.pc = "cancel", !.run = 1]
    BY <1>0, <2>3
  <2>5. EnqueuesOnce'
    BY <1>0, <2>1, <2>3, <2>4 DEF EnqueuesOnce
  <2>6. w[Only].pc \in {"none"}
    BY <2>1
  <2>7. QED
    BY <1>0, <1>1, <1>2, <2>1, <2>3, <2>4, <2>5, <2>6 DEF StatusOfOnly, HasPaused, NoStatus
<1>9. CASE EnqueueCancel("event")
  <2>1. h["event"].pc = "cancel" /\ UNCHANGED <<st, nextRun>>
    BY <1>9 DEF EnqueueCancel
  <2>2. job' = job
    BY <1>9, <2>1 DEF EnqueueCancel, EnqueuesOnce, JobsWithout, NoStatus, Reconciled
  <2>3. h'["event"] = [h["event"] EXCEPT !.pc = "queue"]
    BY <1>0, <1>9 DEF EnqueueCancel, Goto
  <2>4. EnqueuesOnce'
    BY <1>0, <2>1, <2>3 DEF EnqueuesOnce
  <2>5. QED
    BY <1>0, <1>3, <2>1, <2>2, <2>3, <2>4
<1>10. CASE EnqueueQueue("event")
  <2>1. /\ h["event"].pc = "queue" /\ h["event"].copy = NoStatus /\ h["event"].gen = 1
        /\ h["event"].run = 1 /\ nextRun # 1 /\ UNCHANGED <<job, nextRun>>
    BY <1>10 DEF EnqueueQueue, EnqueuesOnce, kube
  <2>2. st' = QueuedStatus(st, NoStatus, 1, 1)
    BY <1>10, <2>1 DEF EnqueueQueue
  <2>3. st'.phase = "queued" /\ st'.run = 1 /\ st'.obs = 1 /\ st'.job = Only
    BY <2>2 DEF QueuedStatus, Only
  <2>4. h'["event"] = IdleHandler
    BY <1>0, <1>10 DEF EnqueueQueue, Stop
  <2>5. EnqueuesOnce'
    BY <2>4 DEF EnqueuesOnce, IdleHandler
  <2>6. RunUnderWay'
    BY <2>3 DEF RunUnderWay, Active
  <2>7. QED
    BY <1>0, <1>1, <1>2, <2>1, <2>3, <2>4, <2>5, <2>6 DEF StatusOfOnly, HasPaused, NoStatus
<1>11. QED
  BY <1>4, <1>5, <1>6, <1>7, <1>8, <1>9, <1>10 DEF EnqueueStep

\* In a calm environment the operator does nothing else.
LEMMA CalmSteps ==
  ASSUME TypeInv, CalmInv, Step
  PROVE  \/ EventPickup \/ EventCheck \/ EventPatch \/ EnqueueStep("event")
         \/ ApprovalDeny \/ EnqueueSkip("approval") \/ \E r \in Runs : ApprovalPickup(r)
         \/ \E r \in Runs : Decide(r)
         \/ \E j \in Jobs : PodStep(j)
         \/ \E g \in Generations : LeaseChanges(g)
<1> USE DEF CalmInv, NothingHappens, Idle
<1>1. ~OperatorRestart /\ ~TimerFire /\ \A t \in Handlers : ~HandlerFails(t)
  BY NothingIsSpent DEF OperatorRestart, TimerFire, HandlerFails
<1>2. ~ResumePickup /\ ~TimerRequeue /\ ~TimerAutoRetry /\ ~TimerIgnore
  BY DEF ResumePickup, TimerRequeue, TimerAutoRetry, TimerIgnore
<1>3. ~EventKill
  BY DEF EventKill, OneRun, EnqueuesOnce, Event
<1>4. \A t \in {"timer", "resume"} : ~EnqueueStep(t)
  BY DEF EnqueueStep, EnqueueSkip, EnqueueGo, EnqueueCreate, EnqueueCancel, EnqueueQueue
<1>5. EnqueueStep("approval") => EnqueueSkip("approval")
  <2>1. ~EnqueueGo("approval")
    BY NothingIsSpent DEF EnqueueGo, Labels
  <2>2. QED
    BY <2>1 DEF EnqueueStep, EnqueueCreate, EnqueueCancel, EnqueueQueue, Labels
<1>6. ~Trigger /\ ~TriggerReset /\ ~RetryCheck /\ ~RetryPatch /\ ~CancelCheck /\ ~CancelPatch
  BY NothingIsSpent DEF Trigger, TriggerReset, RetryCheck, RetryPatch, CancelCheck, CancelPatch
<1>7. QED
  BY <1>1, <1>2, <1>3, <1>4, <1>5, <1>6, StepKinds DEF OperatorStep, HandlerStep, RequestStep, Handlers

LEMMA CalmInvNext ==
  ASSUME TypeInv, CalmInv, [Next]_allVars
  PROVE  CalmInv'
<1>1. ASSUME NEW r \in Runs, Decide(r)
      PROVE  CalmInv'
  <2>1. UNCHANGED <<gen, st, label, job, w, h, resumeDue, gw, nextRun>> /\ Spend("decide")
    BY <1>1 DEF Decide, kube, oper
  <2>2. NothingHappens'
    BY <2>1, StillNothing DEF CalmInv, NothingHappens, Idle
  <2>3. QED
    BY <2>1, <2>2 DEF CalmInv, OneRun, Labels, StatusOfOnly, EnqueuesOnce, Event, HasPaused, Idle,
       RunUnderWay
<1>2. CASE UNCHANGED allVars \/ \E g \in Generations : LeaseChanges(g)
  <2>1. /\ UNCHANGED <<gen, st, label, job, w, h, resumeDue, gw, nextRun>>
        /\ UNCHANGED budget \/ Spend("lapse")
    BY <1>2, LeaseAlone DEF allVars, vars, kube, oper, user
  <2>2. NothingHappens'
    BY <2>1, StillNothing DEF CalmInv, NothingHappens, Idle
  <2>3. QED
    BY <2>1, <2>2 DEF CalmInv, OneRun, Labels, StatusOfOnly, EnqueuesOnce, Event, HasPaused,
       Idle, RunUnderWay
<1>3. CASE Step
  BY <1>1, <1>2, <1>3, CalmSteps, EventsStayCalm, ApprovalsStayCalm, PodsStayCalm
<1>4. QED
  BY <1>2, <1>3 DEF Next

\* However many approvals are needed, decided and changed, and whichever way the handlers, the
\* pods and the decisions interleave: a workflow that waits, and is not being labelled, has the
\* label by which on_approval_decision finds it, as long as no pod dies, no call but the renewals
\* of the lease fails, and nobody asks the gateway for something else meanwhile.
THEOREM LifecycleLabelsWaiting ==
  ASSUME Calm
  PROVE  Spec => []WaitingIsLabelled
<1>1. Init => CalmInv
  BY CalmInvInit
<1>2. CalmInv => WaitingIsLabelled
  BY DEF CalmInv, OneRun, StatusOfOnly, Labels, WaitingIsLabelled, NoStatus
<1>3. QED
  BY <1>1, <1>2, CalmInvNext, TypeInvInit, TypeInvNext, PTL DEF Spec

=============================================================================
