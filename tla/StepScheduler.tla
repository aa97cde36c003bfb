--------------------------- MODULE StepScheduler ---------------------------
(***************************************************************************)
(* One run of a workflow's steps (operator/worker.py, run_workflow_worker, *)
(* and operator/utils.py): which steps are executed together, how their    *)
(* outcomes are taken over, what is on disk, and how a later pod of the    *)
(* run resumes from it.                                                    *)
(*                                                                         *)
(* A worker goes from frontier to frontier: it takes the steps that are    *)
(* ready, executes them in parallel threads, waits for all of them, and    *)
(* writes the artifact.  It may die, or be told to terminate, anywhere.    *)
(* WorkflowLifecycle models how the workers of a run come to be.           *)
(***************************************************************************)
EXTENDS Integers, FiniteSets

CONSTANTS
  N,            \* the number of steps
  Graphs,       \* the workflows that are considered
  MaxParallel,  \* MAX_PARALLEL_STEPS
  MaxPods       \* bound of the model: pods that execute the run

\* The steps in the order of spec.steps.
Steps == 1..N

ASSUME SizesAssumption ==
  N \in Nat \ {0} /\ MaxParallel \in Nat \ {0} /\ MaxPods \in Nat
Workflows ==
  [deps : [Steps -> SUBSET Steps],    \* dependsOn
   gated : SUBSET Steps,              \* requireApproval
   conditional : SUBSET Steps,        \* type: conditional
   then : [Steps -> SUBSET Steps],    \* thenSteps
   else : [Steps -> SUBSET Steps]]    \* elseSteps

VARIABLES
  graph,        \* the workflow
  pc,           \* the worker
  completed,    \* steps it takes for completed
  skipped,      \* steps it skips
  frontier,     \* steps it executes together
  running,      \* those under way in a thread
  outcome,      \* how those that have ended have ended
  disk,         \* steps with a completed result in the artifact
  pods,         \* pods that have executed the run
  barred        \* history: steps of branches that have not been taken

memory == <<completed, skipped, frontier, running, outcome>>
vars == <<graph, pc, memory, disk, pods, barred>>

Outcomes == {"done", "then", "else", "failed", "pending", "raised"}

TypeOK ==
  /\ graph \in Workflows
  /\ pc \in {"idle", "loop", "run", "completed", "failed", "waiting", "ghost"}
  /\ completed \subseteq Steps
  /\ skipped \subseteq Steps
  /\ frontier \subseteq Steps
  /\ running \subseteq frontier
  /\ outcome \in [Steps -> Outcomes \cup {"none"}]
  /\ disk \subseteq Steps
  /\ pods \in 0..MaxPods
  /\ barred \subseteq Steps

NoOutcomes == [s \in Steps |-> "none"]

Init ==
  /\ graph \in Graphs
  /\ pc = "idle"
  /\ completed = {} /\ skipped = {} /\ frontier = {} /\ running = {}
  /\ outcome = NoOutcomes
  /\ disk = {}
  /\ pods = 0
  /\ barred = {}

-----------------------------------------------------------------------------
(* validate_workflow_graph.                                                *)

\* What is left of the steps is taken away from the roots on.
Sorted(g) ==
  LET taken[n \in 0..N] ==
        IF n = 0 THEN {}
        ELSE LET before == taken[n - 1]
             IN  before \cup {s \in Steps : g.deps[s] \subseteq before}
  IN  taken[N]

Neighbours(g, s) ==
  {t \in Steps : \/ s \in g.deps[t] \/ t \in g.deps[s]
                 \/ s \in g.conditional /\ t \in g.then[s] \cup g.else[s]
                 \/ t \in g.conditional /\ s \in g.then[t] \cup g.else[t]}

Reached(g) ==
  LET visited[n \in 0..N] ==
        IF n = 0 THEN {1}
        ELSE LET before == visited[n - 1]
             IN  before \cup UNION {Neighbours(g, s) : s \in before}
  IN  visited[N]

ValidGraph(g) == Sorted(g) = Steps /\ Reached(g) = Steps

\* The worker validates the graph before it does anything else.
ASSUME GraphsAssumption == Graphs \subseteq {g \in Workflows : ValidGraph(g)}

-----------------------------------------------------------------------------
(* The worker.                                                             *)

\* Mutant: the results in the artifact of a run that failed are not resumed from.
ResumedFresh == IF pc = "failed" THEN {} ELSE disk

\* resume_workflow_state_from_artifact, for the artifact of the run.
Resumed == disk

\* Another pod: of the same Job after a failure or a crash, of another one for the same
\* run after an approval.  Which steps were skipped is not in the artifact.
StartPod ==
  /\ pc \in {"idle", "failed", "waiting"}
  /\ pods < MaxPods
  /\ pods' = pods + 1
  /\ completed' = Resumed /\ skipped' = {}
  /\ pc' = IF Cardinality(completed') >= N THEN "ghost" ELSE "loop"
  /\ UNCHANGED <<graph, frontier, running, outcome, disk, barred>>

\* Mutant: a step with requireApproval is executed together with the others.
FrontierUngated(ready) == ready

\* Mutant: skipped steps are ready as well.
ReadyUnlessCompleted ==
  {s \in Steps \ completed : graph.deps[s] \subseteq completed \cup skipped}

\* ready_workflow_steps
Ready ==
  {s \in Steps \ (completed \cup skipped) : graph.deps[s] \subseteq completed \cup skipped}

\* Steps that need an approval wait until no other step is ready, and go one by one.
Frontier(ready) ==
  IF ready \subseteq graph.gated THEN {s \in ready : \A t \in ready : s <= t}
  ELSE ready \ graph.gated

\* Mutant: a step that is counted twice keeps the loop going.
AllDoneExactly == Cardinality(completed) + Cardinality(skipped) = N

\* Mutant: skipped steps do not count.
AllDoneCompleted == Cardinality(completed) >= N

\* A step that is both completed and skipped counts twice.
AllDone == Cardinality(completed) + Cardinality(skipped) >= N

StartFrontier ==
  /\ pc = "loop"
  /\ ~AllDone
  /\ Ready # {}
  /\ frontier' = Frontier(Ready)
  /\ pc' = "run"
  /\ UNCHANGED <<graph, completed, skipped, running, outcome, disk, pods, barred>>

\* The pool starts the steps in their order, MaxParallel at a time.
StartStep(s) ==
  /\ pc = "run"
  /\ s \in frontier \ running
  /\ outcome[s] = "none"
  /\ \A t \in frontier : t < s => t \in running \/ outcome[t] # "none"
  /\ Cardinality(running) < MaxParallel
  /\ running' = running \cup {s}
  /\ UNCHANGED <<graph, pc, completed, skipped, frontier, outcome, disk, pods, barred>>

\* "done" is completed, or continued after a failure; a step that raises, or whose
\* frontier times out, has "raised".
EndsOf(s) ==
  IF s \in graph.conditional THEN {"then", "else", "failed"}
  ELSE {"done", "failed", "raised"} \cup (IF s \in graph.gated THEN {"pending"} ELSE {})

EndStep(s) ==
  /\ s \in running
  /\ \E o \in EndsOf(s) : outcome' = [outcome EXCEPT ![s] = o]
  /\ running' = running \ {s}
  /\ UNCHANGED <<graph, pc, completed, skipped, frontier, disk, pods, barred>>

With(o) == {s \in frontier : outcome[s] = o}

\* The worker lets its frontier go.
Forget == frontier' = {} /\ running' = {} /\ outcome' = NoOutcomes

\* Outcomes are taken over in the order of the steps, up to one that waits.
Taken == {s \in frontier : outcome[s] # "pending" /\ \A t \in With("pending") : s < t}
Succeeded == {s \in Taken : outcome[s] \in {"done", "then", "else"}}

SkippedBy(s) ==
  CASE outcome[s] = "then" -> graph.else[s]
    [] outcome[s] = "else" -> graph.then[s]
    [] OTHER               -> {}

\* Mutant: the artifact is only written when the frontier has no failure.
SettleUnsaved ==
  /\ pc = "run"
  /\ \A s \in frontier : outcome[s] \notin {"none", "raised"}
  /\ completed' = completed \cup Succeeded
  /\ skipped' = skipped \cup UNION {SkippedBy(s) : s \in Succeeded}
  /\ disk' = IF With("failed") = {} /\ With("pending") = {} THEN disk ELSE completed'
  /\ pc' = IF With("pending") # {} THEN "waiting"
           ELSE IF With("failed") # {} THEN "failed" ELSE "loop"
  /\ barred' = barred \cup skipped'
  /\ Forget
  /\ UNCHANGED <<graph, pods>>

\* Every step of the frontier has returned: what they have done is taken over and the
\* artifact is written; an approval suspends the run, and a failure ends it.
Settle ==
  /\ pc = "run"
  /\ \A s \in frontier : outcome[s] \notin {"none", "raised"}
  /\ completed' = completed \cup Succeeded
  /\ skipped' = skipped \cup UNION {SkippedBy(s) : s \in Succeeded}
  /\ disk' = completed'
  /\ pc' = IF With("pending") # {} THEN "waiting"
           ELSE IF With("failed") # {} THEN "failed" ELSE "loop"
  /\ barred' = barred \cup skipped'
  /\ Forget
  /\ UNCHANGED <<graph, pods>>

\* Mutant: the threads of a frontier that has raised are not waited for.
FrontierRaisesAtOnce ==
  /\ pc = "run"
  /\ With("raised") # {}
  /\ disk' = completed
  /\ pc' = "failed"
  /\ frontier' = {} /\ outcome' = NoOutcomes
  /\ UNCHANGED <<graph, completed, skipped, running, pods, barred>>

\* A step has raised: steps not started are cancelled, those under way are waited for,
\* and all their outcomes are lost.
FrontierRaises ==
  /\ pc = "run"
  /\ With("raised") # {}
  /\ running = {}
  /\ disk' = completed
  /\ pc' = "failed"
  /\ Forget
  /\ UNCHANGED <<graph, completed, skipped, pods, barred>>

\* The pod has been told to terminate, or no step is ready.
Abort ==
  /\ pc = "loop"
  /\ ~AllDone
  /\ disk' = completed
  /\ pc' = "failed"
  /\ UNCHANGED <<graph, memory, pods, barred>>

Complete ==
  /\ pc = "loop"
  /\ AllDone
  /\ disk' = completed
  /\ pc' = "completed"
  /\ UNCHANGED <<graph, memory, pods, barred>>

\* The pod dies, and its memory with it.
Crash ==
  /\ pc \in {"loop", "run"}
  /\ pc' = "idle"
  /\ completed' = {} /\ skipped' = {}
  /\ Forget
  /\ UNCHANGED <<graph, disk, pods, barred>>

WorkerStep ==
  \/ StartFrontier \/ Settle \/ FrontierRaises \/ Complete
  \/ \E s \in Steps : StartStep(s) \/ EndStep(s)

Next == StartPod \/ WorkerStep \/ Abort \/ Crash

Spec == Init /\ [][Next]_vars

\* The threads of a worker go on, and every step ends (it has a timeout).
FairSpec == Spec /\ WF_vars(WorkerStep)

-----------------------------------------------------------------------------
(* Properties.                                                             *)

\* A step is executed only when the results of the steps it depends on are in the
\* artifact, or those steps were skipped: a crash cannot lose what it was given.
ResultsBeforeUse ==
  \A s \in running : graph.deps[s] \subseteq disk \cup skipped

\* A step whose result is in the artifact is not executed again in this run, by whichever
\* pod (resume_workflow_state_from_artifact).
NotExecutedAgain == running \cap disk = {}

\* No pod of the run takes a result out of the artifact that another one has put there.
ProgressIsKept == [][disk \subseteq disk']_vars

\* When the run is suspended for an approval, no sibling's result is lost.
PauseLosesNothing ==
  [][pc = "run" /\ pc' = "waiting" => With("done") \cup With("then") \cup With("else") \subseteq disk']_vars

\* The targets of every branch depend on the step that chooses it, and choose nothing
\* themselves.
FlatBranches(g) ==
  \A c \in g.conditional : \A s \in g.then[c] \cup g.else[c] :
    c \in g.deps[s] /\ s \notin g.conditional

\* A run that is reported completed has executed every step that was not skipped; the
\* loop counts completed and skipped steps, and a step is never both.  (It is not so of
\* other workflows: a pod that resumes may execute a condition that was skipped, skip
\* what has been completed, and count it twice.)
CompletedRanAll ==
  pc = "completed" /\ FlatBranches(graph) => completed \cup skipped = Steps

\* "Workflow contains a dependency cycle or unresolved dependency" is never raised for a
\* graph that validate_workflow_graph accepts.
NeverStuck == pc = "loop" => AllDone \/ Ready # {}

\* Every pod comes to an end.
WorkerEnds == pc \in {"loop", "run"} ~> pc \notin {"loop", "run"}

\* "activate or skip downstream steps accordingly" (web-ui, sections.tsx:857): a step of
\* a branch that was not taken is not executed in this run.
BranchNotTakenStaysOff == running \cap barred = {}

=============================================================================
