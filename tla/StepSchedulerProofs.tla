------------------------ MODULE StepSchedulerProofs ------------------------
(* Proofs about StepScheduler, for every workflow, any number of steps and *)
(* of pods.                                                                *)
EXTENDS StepScheduler, Recursion

\* Only a worker that runs a frontier has one.
FrontierOnlyInRun == pc # "run" => frontier = {} /\ outcome = NoOutcomes

\* What the loop takes for completed is what is in the artifact.
MemoryIsOnDisk == pc \in {"loop", "run", "completed"} => disk = completed

\* The steps of a frontier are neither completed nor skipped, and all they depend on is.
FrontierIsReady ==
  \A s \in frontier : s \notin completed \cup skipped
                        /\ graph.deps[s] \subseteq completed \cup skipped

\* A step that needs an approval is executed alone.
GatedAlone == \A s, t \in frontier : s \in graph.gated => s = t

\* Only such a step waits for an approval, and only a condition chooses a branch.
OutcomesFit ==
  \A s \in frontier : /\ outcome[s] = "pending" => s \in graph.gated
                      /\ outcome[s] \in {"then", "else"} => s \in graph.conditional

\* The inductive invariant of the worker and its artifact.
SchedInv ==
  TypeOK /\ FrontierOnlyInRun /\ MemoryIsOnDisk /\ FrontierIsReady /\ GatedAlone
         /\ OutcomesFit

\* Only steps of the frontier are taken over.
LEMMA SucceededInFrontier == Succeeded \subseteq frontier
BY DEF Succeeded, Taken

\* The steps that are ready are neither completed nor skipped, and a frontier is made
\* of them; a gated one is the only one.
LEMMA FrontierOfReady ==
  ASSUME TypeOK
  PROVE  /\ Frontier(Ready) \subseteq Ready
         /\ \A s, t \in Frontier(Ready) : s \in graph.gated => s = t
<1>1. Frontier(Ready) \subseteq Ready
  BY DEF Frontier
<1>2. ASSUME NEW s \in Frontier(Ready), NEW t \in Frontier(Ready), s \in graph.gated
      PROVE  s = t
  <2>1. Ready \subseteq graph.gated
    BY <1>2 DEF Frontier
  <2>2. s \in Ready /\ t \in Ready /\ s <= t /\ t <= s
    BY <1>2, <2>1 DEF Frontier
  <2>3. s \in Int /\ t \in Int
    BY <2>2, SizesAssumption DEF Ready, Steps
  <2>4. QED
    BY <2>2, <2>3
<1>3. QED
  BY <1>1, <1>2

\* A branch that is taken skips steps only.
LEMMA SkipsSteps ==
  ASSUME TypeOK, NEW s \in Steps
  PROVE  SkippedBy(s) \subseteq Steps
BY DEF TypeOK, Workflows, SkippedBy

LEMMA SettleTyped ==
  ASSUME TypeOK, Settle
  PROVE  TypeOK'
<1>1. Succeeded \subseteq Steps
  BY SucceededInFrontier DEF TypeOK
<1>2. UNION {SkippedBy(s) : s \in Succeeded} \subseteq Steps
  BY <1>1, SkipsSteps
<1>3. completed' \subseteq Steps /\ skipped' \subseteq Steps /\ disk' \subseteq Steps
  BY <1>1, <1>2 DEF TypeOK, Settle
<1>4. frontier' = {} /\ running' = {} /\ outcome' = NoOutcomes
  BY DEF Settle, Forget
<1>5. outcome' \in [Steps -> Outcomes \cup {"none"}]
  BY <1>4 DEF NoOutcomes
<1>6. pc' \in {"waiting", "failed", "loop"} /\ graph' = graph /\ pods' = pods
  BY DEF Settle
<1>7. barred' \subseteq Steps
  BY <1>3 DEF TypeOK, Settle
<1>8. QED
  BY <1>3, <1>4, <1>5, <1>6, <1>7 DEF TypeOK

LEMMA SchedInductive == SchedInv /\ [Next]_vars => SchedInv'
<1> SUFFICES ASSUME SchedInv, [Next]_vars PROVE SchedInv'
  OBVIOUS
<1> USE DEF SchedInv, FrontierOnlyInRun, MemoryIsOnDisk, FrontierIsReady, GatedAlone,
            OutcomesFit
<1>1. CASE StartPod
  BY <1>1, SizesAssumption DEF StartPod, Resumed, TypeOK
<1>2. CASE StartFrontier
  <2>1. frontier' = Frontier(Ready) /\ frontier' \subseteq Ready
    BY <1>2, FrontierOfReady DEF StartFrontier
  <2>2. \A s, t \in frontier' : s \in graph.gated => s = t
    BY <2>1, FrontierOfReady
  <2>3. TypeOK'
    BY <1>2, <2>1 DEF StartFrontier, Ready, TypeOK
  <2>4. \A s \in frontier' : outcome'[s] = "none"
    BY <1>2, <2>1 DEF StartFrontier, NoOutcomes, Ready
  <2>5. QED
    BY <1>2, <2>1, <2>2, <2>3, <2>4 DEF StartFrontier, Ready
<1>3. CASE Settle
  <2>1. TypeOK'
    BY <1>3, SettleTyped
  <2>2. QED
    BY <1>3, <2>1 DEF Settle, Forget
<1>4. CASE FrontierRaises
  BY <1>4 DEF FrontierRaises, Forget, TypeOK, NoOutcomes
<1>5. CASE Complete
  BY <1>5 DEF Complete, memory, TypeOK
<1>6. ASSUME NEW s \in Steps, StartStep(s) PROVE SchedInv'
  BY <1>6 DEF StartStep, TypeOK
<1>7. ASSUME NEW s \in Steps, EndStep(s) PROVE SchedInv'
  <2> PICK o \in EndsOf(s) : outcome' = [outcome EXCEPT ![s] = o]
    BY <1>7 DEF EndStep
  <2>1. /\ o \in Outcomes
        /\ o = "pending" => s \in graph.gated
        /\ o \in {"then", "else"} => s \in graph.conditional
    BY DEF EndsOf, Outcomes
  <2>2. s \in frontier
    BY <1>7 DEF EndStep, TypeOK
  <2>3. TypeOK'
    BY <1>7, <2>1 DEF EndStep, TypeOK
  <2>4. QED
    BY <1>7, <2>1, <2>2, <2>3 DEF EndStep, TypeOK
<1>8. CASE Abort
  BY <1>8 DEF Abort, memory, TypeOK
<1>9. CASE Crash
  BY <1>9 DEF Crash, Forget, TypeOK, NoOutcomes
<1>10. CASE UNCHANGED vars
  BY <1>10 DEF vars, memory, TypeOK
<1>11. QED
  BY <1>1, <1>2, <1>3, <1>4, <1>5, <1>6, <1>7, <1>8, <1>9, <1>10
  DEF Next, WorkerStep

LEMMA SchedInvariant == Spec => []SchedInv
<1>1. Init => SchedInv
  BY SizesAssumption, GraphsAssumption
  DEF Init, SchedInv, TypeOK, FrontierOnlyInRun, MemoryIsOnDisk, FrontierIsReady,
      GatedAlone, OutcomesFit, NoOutcomes
<1>2. QED
  BY <1>1, SchedInductive, PTL DEF Spec

\* The variables keep their types: no step is under way that is not of the frontier.
THEOREM SchedulerTyped == Spec => []TypeOK
BY SchedInvariant, PTL DEF SchedInv

\* No step is executed whose result is in the artifact, by whichever pod.
THEOREM SchedulerDoesNotRepeat == Spec => []NotExecutedAgain
<1>1. SchedInv => NotExecutedAgain
  BY DEF SchedInv, TypeOK, FrontierOnlyInRun, MemoryIsOnDisk, FrontierIsReady,
         NotExecutedAgain
<1>2. QED
  BY <1>1, SchedInvariant, PTL

\* A step is executed only on results that are in the artifact, or of steps skipped.
THEOREM SchedulerRespectsDependencies == Spec => []ResultsBeforeUse
<1>1. SchedInv => ResultsBeforeUse
  BY DEF SchedInv, TypeOK, FrontierOnlyInRun, MemoryIsOnDisk, FrontierIsReady,
         ResultsBeforeUse
<1>2. QED
  BY <1>1, SchedInvariant, PTL

\* No pod takes a result out of the artifact.
THEOREM SchedulerKeepsProgress == Spec => ProgressIsKept
<1>1. SchedInv /\ [Next]_vars => [disk \subseteq disk']_vars
  BY DEF SchedInv, MemoryIsOnDisk, Next, WorkerStep, StartPod, StartFrontier,
         StartStep, EndStep, Settle, FrontierRaises, Complete, Abort, Crash, vars
<1>2. QED
  BY <1>1, SchedInvariant, PTL DEF Spec, ProgressIsKept

\* A run that is suspended for an approval has lost no sibling's result.
THEOREM SchedulerPausesSafely == Spec => PauseLosesNothing
<1>1. ASSUME SchedInv, Next, pc = "run", pc' = "waiting"
      PROVE  With("done") \cup With("then") \cup With("else") \subseteq disk'
  <2>1. Settle
    BY <1>1 DEF Next, WorkerStep, StartPod, StartFrontier, StartStep, EndStep, Settle,
                FrontierRaises, Complete, Abort, Crash
  <2>2. PICK s \in frontier : outcome[s] = "pending"
    BY <1>1, <2>1 DEF Settle, With
  <2>3. frontier = {s}
    BY <1>1, <2>2 DEF SchedInv, GatedAlone, OutcomesFit
  <2>4. QED
    BY <2>2, <2>3 DEF With
<1>2. SchedInv /\ [Next]_vars
        => [pc = "run" /\ pc' = "waiting"
              => With("done") \cup With("then") \cup With("else") \subseteq disk']_vars
  BY <1>1
<1>3. QED
  BY <1>2, SchedInvariant, PTL DEF Spec, PauseLosesNothing

-----------------------------------------------------------------------------
(* What a completed run has executed.                                      *)

\* Every condition that a step of the set depends on is in the set.
ConditionsAreDone(done) ==
  \A s \in done : graph.deps[s] \cap graph.conditional \subseteq done

\* Where branches are flat, a completed step has only completed conditions among those
\* it depends on, also in the artifact; what is skipped is no condition; so a step that is
\* being skipped cannot have been completed before, by whichever pod.
CountInv ==
  FlatBranches(graph) =>
    /\ ConditionsAreDone(disk)
    /\ skipped \cap graph.conditional = {}
    /\ pc \in {"loop", "run", "completed"} => completed \cap skipped = {}
    /\ pc = "completed" => AllDone

\* What a frontier settles keeps the sets of completed and skipped steps apart.
LEMMA SettleCounts ==
  ASSUME SchedInv, CountInv, FlatBranches(graph), Settle
  PROVE  /\ ConditionsAreDone(completed')
         /\ skipped' \cap graph.conditional = {}
         /\ pc' = "loop" => completed' \cap skipped' = {}
<1> USE DEF SchedInv, CountInv
<1>1. Succeeded \subseteq frontier /\ frontier \subseteq Steps /\ disk = completed
      /\ completed' = completed \cup Succeeded
      /\ skipped' = skipped \cup UNION {SkippedBy(s) : s \in Succeeded}
      /\ completed \cap skipped = {} /\ skipped \cap graph.conditional = {}
  BY SucceededInFrontier DEF Settle, MemoryIsOnDisk, TypeOK
<1>2. ConditionsAreDone(completed')
  <2> SUFFICES ASSUME NEW s \in completed', NEW c \in graph.deps[s] \cap graph.conditional
               PROVE  c \in completed'
    BY DEF ConditionsAreDone
  <2>1. CASE s \in completed
    BY <1>1, <2>1 DEF ConditionsAreDone
  <2>2. CASE s \in frontier
    BY <1>1, <2>2 DEF FrontierIsReady
  <2>3. QED
    BY <1>1, <2>1, <2>2
<1>3. ASSUME NEW c \in Succeeded, NEW s \in SkippedBy(c)
      PROVE  s \notin graph.conditional /\ s \notin completed'
  <2>1. c \in graph.conditional
    BY <1>1, <1>3 DEF SkippedBy, OutcomesFit
  <2>2. s \in graph.then[c] \cup graph.else[c]
    BY <1>3 DEF SkippedBy
  <2>3. c \in graph.deps[s] /\ s \notin graph.conditional
    BY <2>1, <2>2 DEF FlatBranches
  <2>4. c \in frontier /\ c \notin completed \cup skipped
    BY <1>1, <1>3 DEF FrontierIsReady
  <2>5. s \notin completed
    BY <1>1, <2>1, <2>3, <2>4 DEF ConditionsAreDone
  <2>6. s \notin frontier
    BY <2>3, <2>4 DEF FrontierIsReady
  <2>7. QED
    BY <1>1, <2>3, <2>5, <2>6
<1>4. ASSUME NEW s \in skipped
      PROVE  s \notin graph.conditional /\ s \notin completed'
  BY <1>1, <1>4 DEF FrontierIsReady
<1>5. QED
  <2>1. ASSUME NEW s \in skipped' PROVE s \notin graph.conditional /\ s \notin completed'
    BY <1>1, <1>3, <1>4, <2>1
  <2>2. QED
    BY <1>2, <2>1

LEMMA CountInductive == SchedInv /\ CountInv /\ [Next]_vars => CountInv'
<1> SUFFICES ASSUME SchedInv, CountInv, [Next]_vars, FlatBranches(graph)'
             PROVE  CountInv'
  BY DEF CountInv
<1>1. graph' = graph /\ FlatBranches(graph)
  BY DEF Next, WorkerStep, StartPod, StartFrontier, StartStep, EndStep, Settle,
         FrontierRaises, Complete, Abort, Crash, vars, FlatBranches
<1>2. CASE Settle
  <2>1. completed' = disk' /\ pc' # "completed"
    BY <1>2 DEF Settle
  <2>2. pc' \in {"loop", "run", "completed"} => pc' = "loop"
    BY <1>2 DEF Settle
  <2>3. ConditionsAreDone(disk)'
    BY <1>1, <1>2, <2>1, SettleCounts DEF ConditionsAreDone
  <2>4. QED
    BY <1>1, <1>2, <2>1, <2>2, <2>3, SettleCounts DEF CountInv
<1> USE <1>1 DEF CountInv, ConditionsAreDone
<1>3. CASE StartPod
  BY <1>3 DEF StartPod, Resumed
<1>4. CASE StartFrontier
  BY <1>4 DEF StartFrontier
<1>5. CASE FrontierRaises
  BY <1>5 DEF FrontierRaises, SchedInv, MemoryIsOnDisk
<1>6. CASE Complete
  BY <1>6 DEF Complete, memory, SchedInv, MemoryIsOnDisk, AllDone
<1>7. ASSUME NEW s \in Steps, StartStep(s) PROVE CountInv'
  BY <1>7 DEF StartStep
<1>8. ASSUME NEW s \in Steps, EndStep(s) PROVE CountInv'
  BY <1>8 DEF EndStep, SchedInv, TypeOK, FrontierOnlyInRun
<1>9. CASE Abort
  BY <1>9 DEF Abort, memory, SchedInv, MemoryIsOnDisk
<1>10. CASE Crash
  BY <1>10 DEF Crash
<1>11. CASE UNCHANGED vars
  BY <1>11 DEF vars, memory, AllDone
<1>12. QED
  BY <1>2, <1>3, <1>4, <1>5, <1>6, <1>7, <1>8, <1>9, <1>10, <1>11 DEF Next, WorkerStep

LEMMA CountInvariant == Spec => [](SchedInv /\ CountInv)
<1>1. Init => CountInv
  BY DEF Init, CountInv, ConditionsAreDone
<1>2. QED
  BY <1>1, CountInductive, SchedInvariant, PTL DEF Spec

\* Disjoint sets of steps that count N steps together are all of them.
LEMMA CountedAll ==
  ASSUME NEW A \in SUBSET Steps, NEW B \in SUBSET Steps, A \cap B = {},
         Cardinality(A) + Cardinality(B) >= N
  PROVE  A \cup B = Steps
<1>1. IsFiniteSet(Steps) /\ Cardinality(Steps) = N
  BY FS_Interval, SizesAssumption DEF Steps
<1>2. IsFiniteSet(A) /\ IsFiniteSet(B) /\ IsFiniteSet(A \cup B)
  BY <1>1, FS_Subset, A \cup B \in SUBSET Steps
<1>3. Cardinality(A \cup B) = Cardinality(A) + Cardinality(B)
  <2>1. Cardinality(A \cup B) = Cardinality(A) + Cardinality(B) - Cardinality(A \cap B)
    BY <1>2, FS_Union
  <2>2. Cardinality(A \cap B) = 0
    BY FS_EmptySet
  <2>3. Cardinality(A) \in Nat /\ Cardinality(B) \in Nat
    BY <1>2, FS_CardinalityType
  <2>4. QED
    BY <2>1, <2>2, <2>3
<1>4. Cardinality(A \cup B) <= N
  BY <1>1, FS_Subset, A \cup B \in SUBSET Steps
<1>5. Cardinality(A \cup B) = Cardinality(Steps)
  BY <1>1, <1>2, <1>3, <1>4, FS_CardinalityType, SizesAssumption
<1>6. QED
  BY <1>1, <1>5, FS_Subset, A \cup B \in SUBSET Steps

\* A run that is reported completed has executed all that was not skipped.
THEOREM SchedulerCompletesAll == Spec => []CompletedRanAll
<1>1. SchedInv /\ CountInv => CompletedRanAll
  BY CountedAll DEF SchedInv, CountInv, TypeOK, AllDone, CompletedRanAll
<1>2. QED
  BY <1>1, CountInvariant, PTL

-----------------------------------------------------------------------------
(* validate_workflow_graph: what it accepts.                                *)

\* The steps can be put in layers that depend on lower ones only.
Layered(g) ==
  \E layer \in [Steps -> Nat] :
    \A s \in Steps : \A t \in g.deps[s] : layer[t] < layer[s]

\* No set of steps in which each depends on another of the set.
Acyclic(g) == \A S \in SUBSET Steps : S # {} => \E s \in S : g.deps[s] \cap S = {}

\* No set of steps but that of all has the first step and all its own neighbours.
Connected(g) ==
  \A S \in SUBSET Steps : 1 \in S /\ (\A s \in S : Neighbours(g, s) \subseteq S) => S = Steps

\* A round of the sort takes the steps whose dependencies have been taken.
Round(g) == [A \in SUBSET Steps |-> A \cup {s \in Steps : g.deps[s] \subseteq A}]

LEMMA RoundTakes ==
  ASSUME NEW g
  PROVE  /\ Round(g) \in [SUBSET Steps -> SUBSET Steps]
         /\ \A A \in SUBSET Steps : Round(g)[A] = A \cup {s \in Steps : g.deps[s] \subseteq A}
BY DEF Round

\* What Sorted takes away, round by round.
Rounds(g, taken) == Repeats(taken, N, SUBSET Steps, {}, Round(g))

\* The recursion of Sorted has a solution, and Sorted takes one of them.
LEMMA SortedByRounds ==
  ASSUME NEW g \in Workflows
  PROVE  \E taken : Rounds(g, taken) /\ Sorted(g) = taken[N]
<1> DEFINE Body(taken, n) ==
             IF n = 0 THEN {}
             ELSE taken[n - 1] \cup {s \in Steps : g.deps[s] \subseteq taken[n - 1]}
           Solves(taken) == taken = [n \in 0 .. N |-> Body(taken, n)]
<1>1. N \in Nat /\ {} \in SUBSET Steps /\ Round(g) \in [SUBSET Steps -> SUBSET Steps]
  BY SizesAssumption, RoundTakes
<1>2. \A n \in 1 .. N : n \in 0 .. N /\ n - 1 \in 0 .. N /\ n # 0
  BY <1>1
<1>3. PICK f : Repeats(f, N, SUBSET Steps, {}, Round(g))
  BY <1>1, RepeatsExists
<1>4. \A n \in 0 .. N : f[n] = Body(f, n)
  <2> SUFFICES ASSUME NEW n \in 0 .. N PROVE f[n] = Body(f, n)
    OBVIOUS
  <2>1. CASE n = 0
    BY <1>3, <2>1 DEF Repeats
  <2>2. CASE n # 0
    <3>1. n \in 1 .. N /\ n - 1 \in 0 .. N
      BY <1>1, <2>2
    <3>2. f[n] = Round(g)[f[n - 1]] /\ f[n - 1] \in SUBSET Steps
      BY <1>3, <3>1 DEF Repeats
    <3> QED
      BY <2>2, <3>2, RoundTakes
  <2> QED
    BY <2>1, <2>2
<1>5. Solves(f)
  <2> HIDE DEF Body
  <2> QED
    BY <1>3, <1>4, Zenon DEF Repeats
<1> DEFINE taken == CHOOSE taken : Solves(taken)
<1>6. Solves(taken)
  <2> HIDE DEF Solves
  <2> QED
    BY <1>5, Zenon
<1>7. Sorted(g) = taken[N]
  BY Zenon DEF Sorted
<1> HIDE DEF taken
<1>8. /\ taken = [n \in 0 .. N |-> taken[n]]
      /\ \A n \in 0 .. N : taken[n] = Body(taken, n)
  <2> HIDE DEF Body
  <2> QED
    BY <1>6, Zenon
<1>9. /\ taken[0] = {}
      /\ \A n \in 1 .. N : taken[n - 1] \in SUBSET Steps => taken[n] = Round(g)[taken[n - 1]]
  <2>1. taken[0] = {}
    BY <1>1, <1>8
  <2>2. \A n \in 1 .. N :
          taken[n] = taken[n - 1] \cup {s \in Steps : g.deps[s] \subseteq taken[n - 1]}
    BY <1>2, <1>8
  <2>3. ASSUME NEW n \in 1 .. N, taken[n - 1] \in SUBSET Steps
        PROVE  taken[n] = Round(g)[taken[n - 1]]
    <3>1. taken[n] = taken[n - 1] \cup {s \in Steps : g.deps[s] \subseteq taken[n - 1]}
      BY <2>2
    <3>2. Round(g)[taken[n - 1]]
            = taken[n - 1] \cup {s \in Steps : g.deps[s] \subseteq taken[n - 1]}
      BY <2>3, RoundTakes
    <3> QED
      BY <3>1, <3>2
  <2> QED
    BY <2>1, <2>3
<1> HIDE DEF Solves
<1>10. Rounds(g, taken)
  BY <1>1, <1>8, <1>9, RecursionRepeats DEF Rounds
<1> QED
  BY <1>7, <1>10

\* In one round, and so in all, nothing is lost; after the last one nothing is left to take.
LEMMA RoundsSettle ==
  ASSUME NEW g \in Workflows, NEW taken, Rounds(g, taken)
  PROVE  /\ taken[N] \subseteq Steps
         /\ \A s \in Steps : g.deps[s] \subseteq taken[N] => s \in taken[N]
<1>1. N \in Nat /\ IsFiniteSet(Steps) /\ Cardinality(Steps) = N
  BY FS_Interval, SizesAssumption DEF Steps
<1> DEFINE W == SUBSET Steps
<1>2. {} \in W /\ Round(g) \in [W -> W] /\ Repeats(taken, N, W, {}, Round(g))
  BY RoundTakes DEF Rounds
<1>3. Adds(Round(g), W, Steps)
  <2> SUFFICES ASSUME NEW A \in SUBSET Steps PROVE A \subseteq Round(g)[A]
    BY DEF Adds
  <2>1. Round(g)[A] = A \cup {s \in Steps : g.deps[s] \subseteq A}
    BY RoundTakes
  <2> QED
    BY <2>1
<1> HIDE DEF W
<1>4. taken[N] \in W /\ Round(g)[taken[N]] = taken[N]
  BY <1>1, <1>2, <1>3, AddingSettles
<1> DEFINE last == taken[N]
<1>5. last \in SUBSET Steps
  BY <1>4 DEF W
<1> HIDE DEF last
<1>6. Round(g)[last] = last \cup {s \in Steps : g.deps[s] \subseteq last}
  BY <1>5, RoundTakes
<1> QED
  BY <1>4, <1>5, <1>6 DEF last

\* A graph that is sorted is in layers: that of a step is the round it is taken in.
LEMMA SortedIsLayered ==
  ASSUME NEW g \in Workflows, Sorted(g) = Steps
  PROVE  Layered(g)
<1> N \in Nat
  BY SizesAssumption
<1>1. PICK taken : Rounds(g, taken) /\ Steps = taken[N]
  BY SortedByRounds
<1> DEFINE In(s) == {n \in 0 .. N : s \in taken[n]}
           Least(s) == CHOOSE n \in In(s) : \A m \in In(s) : n <= m
<1>2. ASSUME NEW s \in Steps PROVE Least(s) \in In(s) /\ \A m \in In(s) : Least(s) <= m
  <2>1. In(s) \in SUBSET Nat /\ In(s) # {}
    BY <1>1
  <2> HIDE DEF In
  <2> QED
    BY <2>1, LeastNumber
<1>3. ASSUME NEW s \in Steps, NEW t \in g.deps[s] PROVE Least(t) < Least(s)
  <2>1. t \in Steps
    BY DEF Workflows
  <2>2. Least(s) \in 1 .. N /\ s \in taken[Least(s)]
    BY <1>1, <1>2 DEF Rounds, Repeats
  <2>3. s \notin taken[Least(s) - 1]
    BY <1>2, <2>2
  <2>4. t \in taken[Least(s) - 1]
    <3> DEFINE n == Least(s)
    <3>1. n - 1 \in 0 .. N /\ n \in 1 .. N
      BY <2>2
    <3> HIDE DEF n
    <3>2. taken[n] = Round(g)[taken[n - 1]] /\ taken[n - 1] \in SUBSET Steps
      BY <1>1, <3>1 DEF Rounds, Repeats
    <3>3. s \in taken[n] /\ s \notin taken[n - 1]
      BY <2>2, <2>3 DEF n
    <3>4. t \in taken[n - 1]
      BY <3>2, <3>3, RoundTakes
    <3> QED
      BY <3>4 DEF n
  <2>5. Least(s) - 1 \in In(t)
    <3>1. Least(s) - 1 \in 0 .. N
      BY <2>2
    <3> HIDE DEF Least
    <3> QED
      BY <2>4, <3>1
  <2>6. Least(t) <= Least(s) - 1 /\ Least(t) \in Nat
    BY <1>2, <2>1, <2>5
  <2> QED
    BY <2>2, <2>6
<1> DEFINE layer == [s \in Steps |-> Least(s)]
<1>4. layer \in [Steps -> Nat]
  BY <1>2
<1>5. \A s \in Steps : \A t \in g.deps[s] : layer[t] < layer[s]
  <2> HIDE DEF Least
  <2>1. \A s \in Steps : g.deps[s] \subseteq Steps
    BY DEF Workflows
  <2> QED
    BY <1>3, <2>1
<1> QED
  BY <1>4, <1>5 DEF Layered

\* Of a set of steps, one in the lowest layer depends on none of the set.
LEMMA LowestIsFree ==
  ASSUME NEW g \in Workflows, Layered(g), NEW S \in SUBSET Steps, S # {}
  PROVE  \E s \in S : g.deps[s] \cap S = {}
<1>1. PICK layer \in [Steps -> Nat] :
        \A s \in Steps : \A t \in g.deps[s] : layer[t] < layer[s]
  BY DEF Layered
<1> DEFINE Layers == {layer[s] : s \in S}
<1>2. Layers \in SUBSET Nat /\ Layers # {}
  OBVIOUS
<1> HIDE DEF Layers
<1>3. PICK n \in Layers : \A m \in Layers : n <= m
  BY <1>2, LeastNumber
<1> USE DEF Layers
<1>4. PICK s \in S : layer[s] = n
  OBVIOUS
<1>5. \A t \in S : ~(layer[t] < layer[s])
  BY <1>3, <1>4
<1> QED
  BY <1>1, <1>4, <1>5

\* The topological sort takes all the steps of exactly the graphs without a cycle.
LEMMA SortedIsAcyclic == ASSUME NEW g \in Workflows PROVE Sorted(g) = Steps <=> Acyclic(g)
<1>1. ASSUME Sorted(g) = Steps PROVE Acyclic(g)
  BY <1>1, SortedIsLayered, LowestIsFree DEF Acyclic
<1>2. ASSUME Acyclic(g) PROVE Sorted(g) = Steps
  <2>1. PICK taken : Rounds(g, taken) /\ Sorted(g) = taken[N]
    BY SortedByRounds
  <2>2. taken[N] \subseteq Steps
    BY <2>1, RoundsSettle
  <2> SUFFICES ASSUME Steps \ taken[N] # {} PROVE FALSE
    BY <2>1, <2>2
  <2>3. PICK s \in Steps \ taken[N] : g.deps[s] \cap (Steps \ taken[N]) = {}
    BY <1>2 DEF Acyclic
  <2>4. g.deps[s] \subseteq taken[N]
    BY <2>3 DEF Workflows
  <2> QED
    BY <2>1, <2>4, RoundsSettle
<1> QED
  BY <1>1, <1>2

\* A round of the walk visits the neighbours of what has been visited.
Walk(g) == [A \in SUBSET Steps |-> A \cup UNION {Neighbours(g, s) : s \in A}]

LEMMA WalkVisits ==
  ASSUME NEW g
  PROVE  /\ Walk(g) \in [SUBSET Steps -> SUBSET Steps]
         /\ \A A \in SUBSET Steps : Walk(g)[A] = A \cup UNION {Neighbours(g, s) : s \in A}
BY DEF Walk, Neighbours

LEMMA FirstStep == N \in Nat /\ 1 \in Steps
BY SizesAssumption DEF Steps

\* What Reached visits, round by round.
Walks(g, visited) == Repeats(visited, N, SUBSET Steps, {1}, Walk(g))

\* The recursion of Reached has a solution, and Reached takes one of them.
LEMMA ReachedByRounds ==
  ASSUME NEW g \in Workflows
  PROVE  \E visited : Walks(g, visited) /\ Reached(g) = visited[N]
<1> DEFINE Body(visited, n) ==
             IF n = 0 THEN {1}
             ELSE visited[n - 1] \cup UNION {Neighbours(g, s) : s \in visited[n - 1]}
           Solves(visited) == visited = [n \in 0 .. N |-> Body(visited, n)]
<1>1. N \in Nat /\ {1} \in SUBSET Steps /\ Walk(g) \in [SUBSET Steps -> SUBSET Steps]
  BY FirstStep, WalkVisits
<1>2. \A n \in 1 .. N : n \in 0 .. N /\ n - 1 \in 0 .. N /\ n # 0
  BY <1>1
<1>3. PICK f : Repeats(f, N, SUBSET Steps, {1}, Walk(g))
  BY <1>1, RepeatsExists
<1>4. \A n \in 0 .. N : f[n] = Body(f, n)
  <2> SUFFICES ASSUME NEW n \in 0 .. N PROVE f[n] = Body(f, n)
    OBVIOUS
  <2>1. CASE n = 0
    BY <1>3, <2>1 DEF Repeats
  <2>2. CASE n # 0
    <3>1. n \in 1 .. N /\ n - 1 \in 0 .. N
      BY <1>1, <2>2
    <3>2. f[n] = Walk(g)[f[n - 1]] /\ f[n - 1] \in SUBSET Steps
      BY <1>3, <3>1 DEF Repeats
    <3> QED
      BY <2>2, <3>2, WalkVisits
  <2> QED
    BY <2>1, <2>2
<1>5. Solves(f)
  <2> HIDE DEF Body
  <2> QED
    BY <1>3, <1>4, Zenon DEF Repeats
<1> DEFINE visited == CHOOSE visited : Solves(visited)
<1>6. Solves(visited)
  <2> HIDE DEF Solves
  <2> QED
    BY <1>5, Zenon
<1>7. Reached(g) = visited[N]
  BY Zenon DEF Reached
<1> HIDE DEF visited
<1>8. /\ visited = [n \in 0 .. N |-> visited[n]]
      /\ \A n \in 0 .. N : visited[n] = Body(visited, n)
  <2> HIDE DEF Body
  <2> QED
    BY <1>6, Zenon
<1>9. /\ visited[0] = {1}
      /\ \A n \in 1 .. N : visited[n - 1] \in SUBSET Steps => visited[n] = Walk(g)[visited[n - 1]]
  <2>1. visited[0] = {1}
    BY <1>1, <1>8
  <2>2. \A n \in 1 .. N :
          visited[n] = visited[n - 1] \cup UNION {Neighbours(g, s) : s \in visited[n - 1]}
    BY <1>2, <1>8
  <2>3. ASSUME NEW n \in 1 .. N, visited[n - 1] \in SUBSET Steps
        PROVE  visited[n] = Walk(g)[visited[n - 1]]
    <3>1. visited[n] = visited[n - 1] \cup UNION {Neighbours(g, s) : s \in visited[n - 1]}
      BY <2>2
    <3>2. Walk(g)[visited[n - 1]]
            = visited[n - 1] \cup UNION {Neighbours(g, s) : s \in visited[n - 1]}
      BY <2>3, WalkVisits
    <3> QED
      BY <3>1, <3>2
  <2> QED
    BY <2>1, <2>3
<1> HIDE DEF Solves
<1>10. Walks(g, visited)
  BY <1>1, <1>8, <1>9, RecursionRepeats DEF Walks
<1> QED
  BY <1>7, <1>10

\* After the last round nothing is left to visit.
LEMMA WalkSettles ==
  ASSUME NEW g \in Workflows, NEW visited, Walks(g, visited)
  PROVE  /\ 1 \in visited[N] /\ visited[N] \subseteq Steps
         /\ \A s \in visited[N] : Neighbours(g, s) \subseteq visited[N]
<1>1. N \in Nat /\ IsFiniteSet(Steps) /\ Cardinality(Steps) = N
  BY FS_Interval, SizesAssumption DEF Steps
<1> DEFINE W == SUBSET Steps
           First == {A \in SUBSET Steps : 1 \in A}
<1>2. {1} \in W /\ Walk(g) \in [W -> W] /\ Repeats(visited, N, W, {1}, Walk(g))
  BY FirstStep, WalkVisits DEF Walks
<1>3. Adds(Walk(g), W, Steps)
  <2> SUFFICES ASSUME NEW A \in SUBSET Steps PROVE A \subseteq Walk(g)[A]
    BY DEF Adds
  <2>1. Walk(g)[A] = A \cup UNION {Neighbours(g, s) : s \in A}
    BY WalkVisits
  <2> QED
    BY <2>1
<1>4. {1} \in First
  BY FirstStep
<1>5. \A A \in W : A \in First => Walk(g)[A] \in First
  <2> SUFFICES ASSUME NEW A \in SUBSET Steps, 1 \in A PROVE 1 \in Walk(g)[A] /\ Walk(g)[A] \in W
    OBVIOUS
  <2>1. Walk(g)[A] = A \cup UNION {Neighbours(g, s) : s \in A}
    BY WalkVisits
  <2>2. Walk(g)[A] \in SUBSET Steps
    BY WalkVisits
  <2> QED
    BY <2>1, <2>2
<1> HIDE DEF W, First
<1>6. visited[N] \in W /\ Walk(g)[visited[N]] = visited[N]
  BY <1>1, <1>2, <1>3, AddingSettles
<1> DEFINE last == visited[N]
<1>7. last \in SUBSET Steps
  BY <1>6 DEF W
<1> HIDE DEF last
<1>8. Walk(g)[last] = last \cup UNION {Neighbours(g, s) : s \in last}
  BY <1>7, WalkVisits
<1>9. \A k \in 0 .. N : visited[k] \in First
  BY <1>1, <1>2, <1>4, <1>5, RepeatsKeep
<1>10. N \in 0 .. N
  BY <1>1
<1>11. 1 \in last
  BY <1>9, <1>10 DEF First, last
<1>12. last = last \cup UNION {Neighbours(g, s) : s \in last}
  BY <1>6, <1>8 DEF last
<1>13. \A s \in last : Neighbours(g, s) \subseteq last
  BY <1>12
<1> QED
  BY <1>7, <1>11, <1>13 DEF last

\* All steps are visited of exactly the graphs that are connected.
LEMMA ReachedIsConnected ==
  ASSUME NEW g \in Workflows
  PROVE  Reached(g) = Steps <=> Connected(g)
<1>1. PICK visited : Walks(g, visited) /\ Reached(g) = visited[N]
  BY ReachedByRounds
<1>2. ASSUME Connected(g) PROVE Reached(g) = Steps
  BY <1>1, <1>2, WalkSettles DEF Connected
<1>3. ASSUME Reached(g) = Steps, NEW S \in SUBSET Steps, 1 \in S,
             \A s \in S : Neighbours(g, s) \subseteq S
      PROVE  S = Steps
  <2> DEFINE V == SUBSET Steps
             P == SUBSET S
  <2>1. N \in Nat /\ {1} \in V /\ Walk(g) \in [V -> V] /\ Repeats(visited, N, V, {1}, Walk(g))
    BY <1>1, FirstStep, WalkVisits DEF Walks
  <2>2. {1} \in P
    BY <1>3
  <2>3. \A A \in V : A \in P => Walk(g)[A] \in P
    <3> SUFFICES ASSUME NEW A \in SUBSET Steps, A \subseteq S PROVE Walk(g)[A] \subseteq S
      OBVIOUS
    <3>1. Walk(g)[A] = A \cup UNION {Neighbours(g, s) : s \in A}
      BY WalkVisits
    <3> QED
      BY <1>3, <3>1
  <2> HIDE DEF V, P
  <2>4. \A k \in 0 .. N : visited[k] \in P
    BY <2>1, <2>2, <2>3, RepeatsKeep
  <2>5. N \in 0 .. N
    BY <2>1
  <2>6. Reached(g) \in P
    BY <1>1, <2>4, <2>5
  <2> QED
    BY <1>3, <2>6 DEF P
<1> QED
  BY <1>2, <1>3 DEF Connected

\* The validation accepts exactly the graphs that have no cycle and hang together.
THEOREM ValidationIsExact == \A g \in Workflows : ValidGraph(g) <=> Acyclic(g) /\ Connected(g)
BY SortedIsAcyclic, ReachedIsConnected DEF ValidGraph

-----------------------------------------------------------------------------
(* The loop never stops for want of a step.                                *)

\* Of the steps that are left, one is ready.
LEMMA SomeIsReady ==
  ASSUME TypeOK, Sorted(graph) = Steps, Steps \ (completed \cup skipped) # {}
  PROVE  Ready # {}
<1> DEFINE Left == Steps \ (completed \cup skipped)
<1>1. graph \in Workflows
  BY DEF TypeOK
<1>2. PICK s \in Left : graph.deps[s] \cap Left = {}
  BY <1>1, SortedIsLayered, LowestIsFree
<1>3. graph.deps[s] \subseteq completed \cup skipped
  BY <1>1, <1>2 DEF Workflows
<1> QED
  BY <1>2, <1>3 DEF Ready

\* Sets that make up all the steps count at least N steps together.
LEMMA AllCounted ==
  ASSUME NEW A \in SUBSET Steps, NEW B \in SUBSET Steps, A \cup B = Steps
  PROVE  Cardinality(A) + Cardinality(B) >= N
<1>1. IsFiniteSet(Steps) /\ Cardinality(Steps) = N
  BY FS_Interval, SizesAssumption DEF Steps
<1>2. IsFiniteSet(A) /\ IsFiniteSet(B)
  BY <1>1, FS_Subset
<1>3. Cardinality(Steps) = Cardinality(A) + Cardinality(B) - Cardinality(A \cap B)
  BY <1>2, FS_Union
<1>4. IsFiniteSet(A \cap B)
  BY <1>2, FS_Intersection
<1>5. /\ Cardinality(A) \in Nat /\ Cardinality(B) \in Nat
      /\ Cardinality(A \cap B) \in Nat
  BY <1>2, <1>4, FS_CardinalityType
<1>6. QED
  BY <1>1, <1>3, <1>5, SizesAssumption

\* The workflow of a run stays the one that has been validated.
LEMMA GraphStaysValid == Spec => []ValidGraph(graph)
<1>1. Init => graph \in Graphs
  BY DEF Init
<1>2. graph \in Graphs /\ [Next]_vars => (graph \in Graphs)'
  BY DEF Next, WorkerStep, StartPod, StartFrontier, StartStep, EndStep, Settle, FrontierRaises,
         Abort, Complete, Crash, vars
<1>3. graph \in Graphs => ValidGraph(graph)
  BY GraphsAssumption
<1>4. QED
  BY <1>1, <1>2, <1>3, PTL DEF Spec

\* No run of a validated workflow fails for a "dependency cycle or unresolved dependency".
THEOREM SchedulerNeverStuck == Spec => []NeverStuck
<1>1. ASSUME TypeOK, ValidGraph(graph), pc = "loop", ~AllDone PROVE Ready # {}
  <2>1. CASE Steps \subseteq completed \cup skipped
    <3>1. completed \cup skipped = Steps
      BY <1>1, <2>1 DEF TypeOK
    <3>2. QED
      BY <1>1, <3>1, AllCounted DEF TypeOK, AllDone
  <2>2. CASE Steps \ (completed \cup skipped) # {}
    BY <1>1, <2>2, SomeIsReady DEF ValidGraph
  <2>3. QED
    BY <2>1, <2>2
<1>2. TypeOK /\ ValidGraph(graph) => NeverStuck
  BY <1>1 DEF NeverStuck
<1>3. QED
  BY <1>2, SchedulerTyped, GraphStaysValid, PTL

=============================================================================
