--------------------------- MODULE PiBridgeProofs ---------------------------
(***************************************************************************)
(* Proofs about PiBridge, for every set of requests, threads and models.   *)
(***************************************************************************)
EXTENDS PiBridge, FiniteSetTheorems, TLAPS

-----------------------------------------------------------------------------
(* The inductive invariants.                                               *)

Starting(a) == pc[a] \in {"fifo", "spawned"}

\* A request that has not started Pi, and may still do so.
MayStart(r) == pc[r] \in {"idle", "waiting", "stopping"}

\* Each start but the one at boot is that of a request that starts Pi no more.
StartsCounted == startCount <= 1 + Cardinality({r \in Requests : ~MayStart(r)})

TypeInv ==
  /\ TypeOK
  /\ StartsCounted
  /\ proc # 0 => proc \in alive
  /\ \A r \in Requests : pc[r] = "stopping" => ModelOf[r] # NoModel

\* piStarting keeps the starts apart, and the model Pi is started with is the one wanted.
OneStarts ==
  /\ \A a, b \in Actors : Starting(a) /\ Starting(b) => a = b
  /\ \A a \in Actors : Starting(a) => starting
  /\ \A r \in Requests : Starting(r) => ~ConfigChanged(r)
  /\ misserved = {}

\* While no start overlaps a running process there is at most one process.
OneProcess ==
  ~overlap =>
    /\ alive \subseteq {proc} \cup doomed
    /\ \A p, q \in alive : p = q
    /\ \A a \in Actors : pc[a] = "fifo" => alive = {}

\* What the records of the bridge say of the handler of r.
Matches(r) ==
  /\ r \in pending => pc[r] = "sent"
  /\ pc[r] \in {"idle", "waiting", "stopping", "fifo", "spawned"} =>
       inv[r] = NoRecord /\ answer[r] = "none"
  /\ pc[r] \in {"polling", "aborting"} => r \notin Streams
  /\ pc[r] \in {"sent", "polling", "aborting"} /\ r \notin Streams => answer[r] = "none"
  /\ pc[r] = "ended" => inv[r] = NoRecord
  /\ inv[r].listed => session[ThreadOf[r]] # "none"
  /\ inv[r].armed => r \in Streams /\ answer[r] # "ok"

RecordsMatch == \A r \in Requests : Matches(r)

BridgeInv == OneStarts /\ OneProcess /\ RecordsMatch

\* A request that has had its good answer.
Good(r) == pc[r] = "ended" /\ answer[r] = "ok"

\* The output for r came to a good end.
Complete(r) == (inv[r].done /\ inv[r].err = "none") \/ answer[r] = "ok"

\* Of two requests that have arrived, one has had its answer.
OneAtATime ==
  \A q, r \in Requests : q # r /\ pc[q] # "idle" /\ pc[r] # "idle" => Good(q) \/ Good(r)

\* The places of a handler after its prompt.
Beyond == {"sent", "polling", "streaming", "aborting", "rejected", "ended"}

\* The newest Pi has nothing to do.
Quiet == pipe[startCount] = <<>> /\ running[startCount] = <<>>

\* Its only prompt is that of r.
WorksOn(r) ==
  \/ pipe[startCount] = <<r>> /\ running[startCount] = <<>>
  \/ pipe[startCount] = <<>> /\ running[startCount] = <<r>>

\* The newest Pi has no prompt but that of the request at work.
OwnPrompts == Quiet \/ \E r \in Requests : WorksOn(r) /\ pc[r] \in Beyond /\ ~Good(r)

\* When the output of a request is complete, none of its prompt is left.
NothingLeft == \A r \in Requests : Complete(r) /\ pc[r] # "ended" => Quiet

Unmixed == \A r \in Requests : ~inv[r].mixed /\ answer[r] # "mixed"

SessionsCompleted ==
  \A r \in Requests :
    /\ Complete(r)
    /\ \A q \in Requests \ {r} : ThreadOf[q] = ThreadOf[r] => pc[q] = "idle"
    => session[ThreadOf[r]] = "completed"

\* Pipes are filled from their start on.
LaterPipesEmpty == \A s \in Starts : s > startCount => pipe[s] = <<>> /\ running[s] = <<>>

SerialInv ==
  /\ LaterPipesEmpty
  /\ serial => OneAtATime /\ OwnPrompts /\ NothingLeft /\ Unmixed /\ SessionsCompleted

-----------------------------------------------------------------------------
(* Types.                                                                  *)

PCs == {"idle", "waiting", "stopping", "fifo", "spawned", "sent", "polling",
        "streaming", "aborting", "rejected", "ended"}
Answers == {"none", "ok", "mixed", "failed"}
SessionStates == {"none", "active", "completed", "error", "cancelled"}

\* The type invariant in the parts that the handlers change together.
PiTyped ==
  /\ up \in BOOLEAN /\ io \in BOOLEAN /\ fifos \in BOOLEAN /\ starting \in BOOLEAN
  /\ proc \in {0} \cup Starts /\ startCount \in Starts /\ config \in Models
  /\ alive \subseteq Starts /\ doomed \subseteq alive /\ (proc # 0 => proc \in alive)
  /\ misserved \subseteq Requests /\ overlap \in BOOLEAN /\ serial \in BOOLEAN

PipesTyped == pipe \in [Starts -> Seq(Requests)] /\ running \in [Starts -> Seq(Requests)]

HandlersTyped ==
  /\ pc \in [Actors -> PCs]
  /\ stops \in [Requests -> {0} \cup Starts]
  /\ StartsCounted
  /\ \A r \in Requests : pc[r] = "stopping" => ModelOf[r] # NoModel

CallsTyped ==
  /\ pending \subseteq Requests /\ gone \subseteq Streams
  /\ inv \in [Requests -> Invocation]
  /\ answer \in [Requests -> Answers]
  /\ session \in [Threads -> SessionStates]
  /\ cancelling \subseteq Threads

LEMMA TypeParts == TypeInv <=> PiTyped /\ PipesTyped /\ HandlersTyped /\ CallsTyped
<1>1. TypeInv => PiTyped /\ PipesTyped /\ HandlersTyped /\ CallsTyped
  BY DEF TypeInv, TypeOK, PiTyped, PipesTyped, HandlersTyped, CallsTyped, PCs, Answers, SessionStates
<1>2. PiTyped /\ PipesTyped /\ HandlersTyped /\ CallsTyped => TypeInv
  BY DEF TypeInv, TypeOK, PiTyped, PipesTyped, HandlersTyped, CallsTyped, PCs, Answers, SessionStates
<1>3. QED
  BY <1>1, <1>2

LEMMA ActorsDiffer == Requests \subseteq Actors /\ Boot \in Actors /\ Boot \notin Requests
  BY RequestsAssumption DEF Actors

LEMMA StartsAreNumbers ==
  /\ IsFiniteSet(Requests) /\ Cardinality(Requests) \in Nat
  /\ Starts = 1..(Cardinality(Requests) + 1) /\ 1 \in Starts /\ Starts \subseteq Nat \ {0}
<1>1. Cardinality(Requests) \in Nat /\ IsFiniteSet(Requests)
  BY RequestsAssumption, FS_CardinalityType
<1>2. QED
  BY <1>1 DEF Starts

\* A request that starts Pi has not done so before: there is a number left for the start.
LEMMA RoomToStart ==
  ASSUME TypeInv, NEW r \in Requests, MayStart(r)
  PROVE  startCount + 1 \in Starts
<1> DEFINE S == {q \in Requests : ~MayStart(q)}
<1>1. IsFiniteSet(S) /\ Cardinality(S) \in Nat /\ Cardinality(S) < Cardinality(Requests)
  <2>1. S \subseteq Requests /\ S # Requests
    OBVIOUS
  <2>2. IsFiniteSet(S) /\ Cardinality(S) <= Cardinality(Requests)
                      /\ (Cardinality(S) = Cardinality(Requests) => S = Requests)
    BY <2>1, StartsAreNumbers, FS_Subset
  <2>3. QED
    BY <2>1, <2>2, StartsAreNumbers, FS_CardinalityType
<1>2. startCount <= 1 + Cardinality(S) /\ startCount \in Nat
  BY StartsAreNumbers DEF TypeInv, TypeOK, StartsCounted, Starts
<1>3. QED
  BY <1>1, <1>2, StartsAreNumbers, TypeParts DEF PiTyped

\* Handlers go on: nobody who may no longer start Pi may do so again.
LEMMA CountGoesOn ==
  ASSUME TypeInv, \A r \in Requests : MayStart(r)' => MayStart(r), startCount' = startCount
  PROVE  StartsCounted'
<1> DEFINE S == {q \in Requests : ~MayStart(q)}
           T == {q \in Requests : ~MayStart(q)'}
<1>1. S \subseteq T /\ T \subseteq Requests
  OBVIOUS
<1>2. Cardinality(S) <= Cardinality(T) /\ Cardinality(S) \in Nat /\ Cardinality(T) \in Nat
  BY <1>1, StartsAreNumbers, FS_Subset, FS_CardinalityType
<1>3. startCount <= 1 + Cardinality(S) /\ startCount \in Nat
  BY StartsAreNumbers, TypeParts DEF TypeInv, StartsCounted, PiTyped
<1>4. startCount' <= 1 + Cardinality(T)
  BY <1>2, <1>3
<1>5. QED
  BY <1>4 DEF StartsCounted

LEMMA CountStarts ==
  ASSUME TypeInv, NEW r \in Requests, MayStart(r), ~MayStart(r)',
         \A q \in Requests \ {r} : MayStart(q)' => MayStart(q), startCount' = startCount + 1
  PROVE  StartsCounted'
<1> DEFINE S == {q \in Requests : ~MayStart(q)}
           T == {q \in Requests : ~MayStart(q)'}
<1>1. S \cup {r} \subseteq T /\ T \subseteq Requests /\ r \notin S
  OBVIOUS
<1>2. IsFiniteSet(S) /\ IsFiniteSet(T) /\ Cardinality(S) \in Nat /\ Cardinality(T) \in Nat
  BY <1>1, StartsAreNumbers, FS_Subset, FS_CardinalityType
<1>3. Cardinality(S \cup {r}) = Cardinality(S) + 1
  BY <1>1, <1>2, FS_AddElement
<1>4. Cardinality(S) + 1 <= Cardinality(T)
  BY <1>1, <1>2, <1>3, FS_Subset
<1>5. startCount <= 1 + Cardinality(S) /\ startCount \in Nat
  BY StartsAreNumbers, TypeParts DEF TypeInv, StartsCounted, PiTyped
<1>6. startCount' <= 1 + Cardinality(T)
  BY <1>2, <1>4, <1>5
<1>7. QED
  BY <1>6 DEF StartsCounted

\* The steps by what they leave alone.
HandlerEnds(r) ==
  \/ AckTimeout(r) \/ Finish(r) \/ PollTimeout(r) \/ AbortOver(r)
  \/ ModelTimer(r) \/ Keepalive(r) \/ ClientLeaves(r)

CancelStep == \E t \in Threads : Cancel(t) \/ CancelSession(t)

LEMMA StepKinds ==
  ASSUME Next
  PROVE  \/ \E r \in Requests : Arrival(r) \/ StopGivesUp(r) \/ WaitOver(r) \/ HandlerEnds(r)
         \/ \E a \in Actors : Spawn(a) \/ Ready(a)
         \/ \E p \in Starts : PiOutput(p) \/ StoppedExit(p) \/ OwnExit(p)
         \/ CancelStep
  BY DEF Next, Handler, Starter, HandlerEnds, CancelStep

LEMMA QuietSteps ==
  ASSUME \/ \E r \in Requests : WaitOver(r) \/ HandlerEnds(r)
         \/ \E p \in Starts : PiOutput(p)
         \/ CancelStep
  PROVE  UNCHANGED <<bridge, alive, doomed, stops, history>>
<1>1. ASSUME NEW r \in Requests, WaitOver(r) \/ HandlerEnds(r)
      PROVE  UNCHANGED <<bridge, alive, doomed, stops, history>>
  BY <1>1 DEF WaitOver, HandlerEnds, AckTimeout, Finish, PollTimeout, AbortOver, ModelTimer, Keepalive,
     ClientLeaves, pis, history
<1>2. ASSUME NEW p \in Starts, PiOutput(p)
      PROVE  UNCHANGED <<bridge, alive, doomed, stops, history>>
  BY <1>2 DEF PiOutput, Accept, Refuse, Delta, MessageEnd, Text, AgentEnd, PiError, pis
<1>3. CASE CancelStep
  BY <1>3 DEF CancelStep, Cancel, CancelSession, pis, calls
<1>4. QED
  BY <1>1, <1>2, <1>3, SMTT(40)

LEMMA WantedTyped ==
  ASSUME TypeInv, NEW r \in Requests
  PROVE  /\ WantedModel(r) \in Models
         /\ pc[r] = "stopping" => ModelOf[r] \in Models
  BY ModelsAssumption, TypeParts DEF WantedModel, PiTyped, HandlersTyped

\* How a process that was asked to stop, or given up, is followed by another one.
LEMMA StartAfterStopTyped ==
  ASSUME TypeInv, NEW r \in Requests, pc[r] = "stopping", NEW older, StartAfterStop(r, older)
  PROVE  /\ startCount' \in Starts /\ starting' \in BOOLEAN /\ config' \in Models
         /\ io' \in BOOLEAN /\ overlap' \in BOOLEAN /\ HandlersTyped'
         /\ starting \/ fifos'
<1>0. /\ PiTyped /\ HandlersTyped /\ ModelOf[r] \in Models /\ startCount + 1 \in Starts
      /\ r \in Actors /\ r # Boot /\ Requests \subseteq Actors
  BY TypeParts, WantedTyped, RoomToStart, ActorsDiffer DEF MayStart
<1>1. PICK to \in {"rejected", "fifo"} : pc' = [pc EXCEPT ![r] = to] /\ stops' = [stops EXCEPT ![r] = 0]
  BY DEF StartAfterStop, Reject, BeginStart
<1>2. /\ pc' \in [Actors -> PCs] /\ stops' \in [Requests -> {0} \cup Starts]
      /\ \A q \in Requests : pc'[q] = "stopping" => ModelOf[q] # NoModel
  BY <1>0, <1>1 DEF HandlersTyped, PCs
<1>3. ~MayStart(r)' /\ \A q \in Requests : MayStart(q)' => MayStart(q)
  BY <1>0, <1>1 DEF HandlersTyped, MayStart
<1>4. CASE starting
  <2>1. UNCHANGED <<startCount, starting, config, io, overlap>>
    BY <1>4 DEF StartAfterStop
  <2>2. StartsCounted'
    BY <1>3, <2>1, CountGoesOn
  <2>3. QED
    BY <1>0, <1>2, <1>4, <2>1, <2>2 DEF PiTyped, HandlersTyped
<1>5. CASE ~starting
  <2>1. BeginStart(r, ModelOf[r], older)
    BY <1>5 DEF StartAfterStop
  <2>2. StartsCounted'
    BY <1>3, <2>1, CountStarts DEF BeginStart, MayStart
  <2>3. QED
    BY <1>0, <1>2, <2>1, <2>2 DEF PiTyped, HandlersTyped, BeginStart
<1>6. QED
  BY <1>4, <1>5

LEMMA PiTypedNext ==
  ASSUME TypeInv, Next
  PROVE  PiTyped'
<1>0. PiTyped /\ HandlersTyped
  BY TypeParts
<1>1. ASSUME NEW r \in Requests, RestartForModel(r)
      PROVE  PiTyped'
  BY <1>0, <1>1 DEF RestartForModel, Arrive, Kill, PiTyped
<1>2. ASSUME NEW r \in Requests, StartForRequest(r)
      PROVE  PiTyped'
  <2>1. startCount + 1 \in Starts /\ WantedModel(r) \in Models
    BY <1>2, WantedTyped, RoomToStart DEF StartForRequest, Arrive, MayStart
  <2>2. QED
    BY <1>0, <1>2, <2>1 DEF StartForRequest, Arrive, BeginStart, pis, PiTyped
<1>3. ASSUME NEW r \in Requests, WaitForStart(r)
      PROVE  PiTyped'
  BY <1>0, <1>3 DEF WaitForStart, Arrive, bridge, pis, PiTyped
<1>4. ASSUME NEW r \in Requests, SendAtOnce(r)
      PROVE  PiTyped'
  BY <1>0, <1>4 DEF SendAtOnce, Arrive, NoteModel, bridge, PiTyped
<1>5. ASSUME NEW r \in Requests, StopGivesUp(r)
      PROVE  PiTyped'
  <2>1. pc[r] = "stopping" /\ StartAfterStop(r, alive) /\ (starting => UNCHANGED fifos)
        /\ UNCHANGED <<up, proc, alive, doomed, misserved, serial>>
    BY <1>5 DEF StopGivesUp, pis
  <2>2. QED
    BY <1>0, <2>1, StartAfterStopTyped DEF PiTyped
<1>6. ASSUME NEW a \in Actors, Spawn(a)
      PROVE  PiTyped'
  <2>1. UNCHANGED <<io, fifos, starting, config, startCount, doomed, misserved, overlap, serial>>
    BY <1>6 DEF Spawn, history
  <2>2. \/ proc' = startCount /\ alive' = alive \cup {startCount} /\ up' = up
        \/ up' = FALSE /\ UNCHANGED <<proc, alive>>
    BY <1>6 DEF Spawn
  <2>3. QED
    BY <1>0, <2>1, <2>2 DEF PiTyped
<1>7. ASSUME NEW a \in Actors, Ready(a)
      PROVE  PiTyped'
  BY <1>0, <1>7 DEF Ready, NoteModel, PiTyped
<1>8. ASSUME NEW p \in Starts, StoppedExit(p)
      PROVE  PiTyped'
  <2>1. /\ alive' = alive \ {p} /\ doomed' = doomed \ {p} /\ proc' = 0
        /\ UNCHANGED <<up, misserved, serial>>
    BY <1>8 DEF StoppedExit, Exits
  <2>2. CASE \E r \in Requests : /\ pc[r] = "stopping" /\ StartAfterStop(r, alive')
                                 /\ starting => fifos' = FALSE
    BY <1>0, <2>1, <2>2, StartAfterStopTyped DEF PiTyped
  <2>3. CASE fifos' = FALSE /\ UNCHANGED <<startCount, starting, config, io, overlap>>
    BY <1>0, <2>1, <2>3 DEF PiTyped
  <2>4. QED
    BY <1>8, <2>2, <2>3 DEF StoppedExit
<1>9. ASSUME NEW p \in Starts, OwnExit(p)
      PROVE  PiTyped'
  BY <1>0, <1>9 DEF OwnExit, Exits, PiTyped, history
<1>10. CASE UNCHANGED <<bridge, alive, doomed, stops, history>>
  BY <1>0, <1>10 DEF bridge, history, PiTyped
<1>11. QED
  BY <1>1, <1>2, <1>3, <1>4, <1>5, <1>6, <1>7, <1>8, <1>9, <1>10, StepKinds, QuietSteps DEF Arrival

\* Where a prompt goes.
LEMMA SendEffect ==
  ASSUME TypeInv, NEW r \in Requests, Send(r)
  PROVE  /\ inv' = [inv EXCEPT ![r].listed = TRUE, ![r].armed = (r \in Streams)]
         /\ session' = [session EXCEPT ![ThreadOf[r]] = "active"]
         /\ \/ /\ pipe' = [pipe EXCEPT ![startCount] = Append(@, r)]
               /\ pending' = pending \cup {r} /\ pc' = [pc EXCEPT ![r] = "sent"] /\ answer' = answer
            \/ /\ UNCHANGED <<pipe, pending>> /\ pc' = [pc EXCEPT ![r] = "rejected"]
               /\ answer' = Answered({r}, "failed")
  BY DEF Send, Reject

\* The record of a prompt that is sent.
LEMMA SendListed ==
  ASSUME TypeInv, NEW r \in Requests, Send(r)
  PROVE  \E b \in BOOLEAN : /\ b <=> r \in Streams
                            /\ inv' = [inv EXCEPT ![r].listed = TRUE, ![r].armed = b]
<1>1. inv' = [inv EXCEPT ![r].listed = TRUE, ![r].armed = (r \in Streams)]
  BY SendEffect
<1>2. CASE r \in Streams
  <2>1. (r \in Streams) = TRUE
    BY <1>2
  <2>2. inv' = [inv EXCEPT ![r].listed = TRUE, ![r].armed = TRUE]
    BY <1>1, <2>1, Zenon
  <2>3. QED
    BY <1>2, <2>2
<1>3. CASE r \notin Streams
  <2>1. (r \in Streams) = FALSE
    BY <1>3
  <2>2. inv' = [inv EXCEPT ![r].listed = TRUE, ![r].armed = FALSE]
    BY <1>1, <2>1, Zenon
  <2>3. QED
    BY <1>3, <2>2
<1>4. QED
  BY <1>2, <1>3

LEMMA AppendTyped ==
  ASSUME NEW f \in [Starts -> Seq(Requests)], NEW s \in Starts, NEW r \in Requests
  PROVE  [f EXCEPT ![s] = Append(@, r)] \in [Starts -> Seq(Requests)]
<1>1. Append(f[s], r) \in Seq(Requests)
  OBVIOUS
<1>2. QED
  BY <1>1

LEMMA TailTyped ==
  ASSUME NEW f \in [Starts -> Seq(Requests)], NEW s \in Starts, f[s] # <<>>
  PROVE  [f EXCEPT ![s] = Tail(@)] \in [Starts -> Seq(Requests)]
<1>1. Tail(f[s]) \in Seq(Requests)
  OBVIOUS
<1>2. QED
  BY <1>1

LEMMA PipesTypedNext ==
  ASSUME TypeInv, Next
  PROVE  PipesTyped'
<1>0. PipesTyped /\ startCount \in Starts
  BY TypeParts DEF PiTyped
<1>1. ASSUME NEW r \in Requests, Send(r), running' = running
      PROVE  PipesTyped'
  <2>1. pipe' = pipe \/ pipe' = [pipe EXCEPT ![startCount] = Append(@, r)]
    BY <1>1, SendEffect
  <2>2. QED
    <3>1. pipe \in [Starts -> Seq(Requests)] /\ running \in [Starts -> Seq(Requests)]
      BY <1>0 DEF PipesTyped
    <3>2. [pipe EXCEPT ![startCount] = Append(@, r)] \in [Starts -> Seq(Requests)]
      BY <1>0, <3>1, AppendTyped
    <3>3. QED
      BY <1>1, <2>1, <3>1, <3>2 DEF PipesTyped
<1>2. ASSUME NEW p \in Starts, Exits(p)
      PROVE  PipesTyped'
  BY <1>0, <1>2 DEF Exits, PipesTyped
<1>3. ASSUME NEW p \in Starts, PiOutput(p)
      PROVE  PipesTyped'
  <2>1. ASSUME NEW r \in Requests, Takes(p, r)
        PROVE  pipe' \in [Starts -> Seq(Requests)]
    BY <1>0, <2>1, TailTyped DEF Takes, PipesTyped
  <2>2. ASSUME NEW r \in Requests, Accept(p, r)
        PROVE  PipesTyped'
    BY <1>0, <2>1, <2>2, AppendTyped DEF Accept, PipesTyped
  <2>3. ASSUME NEW r \in Requests, Refuse(p, r)
        PROVE  PipesTyped'
    BY <1>0, <2>1, <2>3 DEF Refuse, PipesTyped
  <2>4. CASE AgentEnd(p) \/ PiError(p)
    <3>1. running[p] # <<>> /\ running' = [running EXCEPT ![p] = Tail(@)] /\ pipe' = pipe
      BY <2>4 DEF AgentEnd, PiError, Finishes, Speaks
    <3>2. QED
      BY <1>0, <3>1, TailTyped DEF PipesTyped
  <2>5. CASE Delta(p) \/ MessageEnd(p)
    BY <1>0, <2>5 DEF Delta, MessageEnd, Text, pis, PipesTyped
  <2>6. QED
    BY <1>3, <2>2, <2>3, <2>4, <2>5 DEF PiOutput
<1>4. CASE UNCHANGED <<pipe, running>>
  BY <1>0, <1>4 DEF PipesTyped
<1>5. ASSUME NEW r \in Requests, Arrival(r)
      PROVE  PipesTyped'
  BY <1>1, <1>4, <1>5 DEF Arrival, RestartForModel, StartForRequest, WaitForStart, SendAtOnce, pis
<1>6. ASSUME NEW r \in Requests, StopGivesUp(r) \/ WaitOver(r) \/ HandlerEnds(r)
      PROVE  PipesTyped'
  BY <1>1, <1>4, <1>6 DEF StopGivesUp, WaitOver, HandlerEnds, AckTimeout, Finish, PollTimeout, AbortOver,
     ModelTimer, Keepalive, ClientLeaves, pis
<1>7. ASSUME NEW a \in Actors, Spawn(a) \/ Ready(a)
      PROVE  PipesTyped'
  BY <1>1, <1>4, <1>7 DEF Spawn, Ready
<1>8. ASSUME NEW p \in Starts, StoppedExit(p) \/ OwnExit(p)
      PROVE  PipesTyped'
  BY <1>2, <1>8 DEF StoppedExit, OwnExit
<1>9. CASE CancelStep
  BY <1>4, <1>9 DEF CancelStep, Cancel, CancelSession, pis
<1>10. QED
  BY <1>3, <1>5, <1>6, <1>7, <1>8, <1>9, StepKinds

\* A step after which no other request waits to start Pi.
LEMMA GoesOn ==
  ASSUME TypeInv, startCount' = startCount, pc' \in [Actors -> PCs], stops' \in [Requests -> {0} \cup Starts],
         \A r \in Requests : pc'[r] \in {"idle", "waiting"} => MayStart(r),
         \A r \in Requests : pc'[r] = "stopping" => MayStart(r) /\ ModelOf[r] # NoModel
  PROVE  HandlersTyped'
<1>1. StartsCounted'
  BY CountGoesOn DEF MayStart
<1>2. QED
  BY <1>1 DEF HandlersTyped

LEMMA HandlersTypedNext ==
  ASSUME TypeInv, Next
  PROVE  HandlersTyped'
<1>0. /\ HandlersTyped /\ PiTyped /\ CallsTyped /\ Requests \subseteq Actors
      /\ pc \in [Actors -> PCs] /\ stops \in [Requests -> {0} \cup Starts]
  BY TypeParts, ActorsDiffer DEF HandlersTyped
<1>1. ASSUME NEW a \in Actors, NEW to \in PCs \ {"idle", "waiting", "stopping"},
             pc' = [pc EXCEPT ![a] = to], UNCHANGED <<startCount, stops>>
      PROVE  HandlersTyped'
  BY <1>0, <1>1, GoesOn DEF HandlersTyped, MayStart
<1>2. CASE UNCHANGED <<pc, startCount, stops>>
  BY <1>0, <1>2, GoesOn DEF HandlersTyped, MayStart
<1>3. ASSUME NEW r \in Requests, RestartForModel(r)
      PROVE  HandlersTyped'
  <2>1. pc' = [a \in Actors |-> IF a = r THEN "stopping"
                                ELSE IF a \in pending THEN "rejected" ELSE pc[a]]
        /\ stops' = [stops EXCEPT ![r] = proc] /\ startCount' = startCount
        /\ pc[r] = "idle" /\ ModelOf[r] # NoModel
    BY <1>3 DEF RestartForModel, Arrive, ConfigChanged
  <2>2. pc' \in [Actors -> PCs] /\ stops' \in [Requests -> {0} \cup Starts]
    BY <1>0, <2>1 DEF PCs, PiTyped
  <2>3. QED
    BY <1>0, <2>1, <2>2, GoesOn DEF HandlersTyped, MayStart
<1>4. ASSUME NEW r \in Requests, StartForRequest(r)
      PROVE  HandlersTyped'
  <2>1. pc[r] = "idle" /\ pc' = [pc EXCEPT ![r] = "fifo"] /\ startCount' = startCount + 1 /\ stops' = stops
    BY <1>4 DEF StartForRequest, Arrive, BeginStart
  <2>2. ~MayStart(r)' /\ \A q \in Requests \ {r} : MayStart(q)' => MayStart(q)
    BY <1>0, <2>1 DEF MayStart
  <2>3. StartsCounted'
    BY <2>1, <2>2, CountStarts DEF MayStart
  <2>4. QED
    BY <1>0, <2>1, <2>3 DEF HandlersTyped, PCs
<1>5. ASSUME NEW r \in Requests, WaitForStart(r)
      PROVE  HandlersTyped'
  <2>1. pc[r] = "idle" /\ pc' = [pc EXCEPT ![r] = "waiting"] /\ UNCHANGED <<startCount, stops>>
    BY <1>5 DEF WaitForStart, Arrive, bridge
  <2>2. pc' \in [Actors -> PCs]
    BY <1>0, <2>1 DEF PCs
  <2>3. QED
    BY <1>0, <2>1, <2>2, GoesOn DEF HandlersTyped, MayStart
<1>6. ASSUME NEW r \in Requests, Send(r), UNCHANGED <<startCount, stops>>
      PROVE  HandlersTyped'
  BY <1>0, <1>1, <1>6, SendEffect DEF PCs
<1>7. ASSUME NEW r \in Requests, SendAtOnce(r) \/ WaitOver(r)
      PROVE  HandlersTyped'
  <2>1. UNCHANGED <<startCount, stops>> /\ (Send(r) \/ Reject(r))
    BY <1>7 DEF SendAtOnce, WaitOver, bridge
  <2>2. QED
    BY <1>0, <1>1, <1>6, <2>1 DEF Reject, PCs
<1>8. ASSUME NEW r \in Requests, StopGivesUp(r)
      PROVE  HandlersTyped'
  BY <1>8, StartAfterStopTyped DEF StopGivesUp
<1>9. ASSUME NEW p \in Starts, StoppedExit(p)
      PROVE  HandlersTyped'
  <2>1. CASE \E r \in Requests : pc[r] = "stopping" /\ StartAfterStop(r, alive')
    BY <2>1, StartAfterStopTyped
  <2>2. QED
    BY <1>2, <1>9, <2>1 DEF StoppedExit
<1>10. ASSUME NEW a \in Actors, Spawn(a)
       PROVE  HandlersTyped'
  <2>1. UNCHANGED <<startCount, stops>> /\ (pc' = pc \/ pc' = [pc EXCEPT ![a] = "spawned"])
    BY <1>10 DEF Spawn
  <2>2. QED
    BY <1>1, <1>2, <2>1 DEF PCs
<1>11. ASSUME NEW a \in Actors, Ready(a)
       PROVE  HandlersTyped'
  <2>1. UNCHANGED <<startCount, stops>> /\ ((a \in Requests /\ Send(a)) \/ Reject(a))
    BY <1>11 DEF Ready
  <2>2. QED
    BY <1>1, <1>6, <2>1 DEF Reject, PCs
<1>12. ASSUME NEW p \in Starts, PiOutput(p)
       PROVE  HandlersTyped'
  <2>1. UNCHANGED <<startCount, stops>>
    BY <1>12, QuietSteps DEF bridge
  <2>2. ASSUME NEW r \in Requests, Accept(p, r) \/ Refuse(p, r)
        PROVE  pc' = pc \/ \E to \in {"streaming", "polling", "rejected"} : pc' = [pc EXCEPT ![r] = to]
    BY <2>2 DEF Accept, Refuse
  <2>3. CASE Delta(p) \/ MessageEnd(p) \/ AgentEnd(p) \/ PiError(p)
    BY <1>2, <2>1, <2>3 DEF Delta, MessageEnd, Text, AgentEnd, PiError
  <2>4. QED
    BY <1>0, <1>1, <1>2, <1>12, <2>1, <2>2, <2>3 DEF PiOutput, PCs
<1>13. ASSUME NEW r \in Requests, HandlerEnds(r)
       PROVE  HandlersTyped'
  <2>1. UNCHANGED <<startCount, stops>>
    BY <1>13, QuietSteps DEF bridge
  <2>2. pc' = pc \/ \E to \in {"rejected", "ended", "aborting"} : pc' = [pc EXCEPT ![r] = to]
    BY <1>13 DEF HandlerEnds, AckTimeout, Finish, PollTimeout, AbortOver, ModelTimer, Keepalive,
       ClientLeaves, Reject, Leaves
  <2>3. QED
    BY <1>0, <1>1, <1>2, <2>1, <2>2 DEF PCs
<1>14. CASE CancelStep \/ \E p \in Starts : OwnExit(p)
  BY <1>2, <1>14 DEF CancelStep, Cancel, CancelSession, OwnExit, bridge, calls
<1>15. QED
  BY <1>3, <1>4, <1>5, <1>7, <1>8, <1>9, <1>10, <1>11, <1>12, <1>13, <1>14, StepKinds DEF Arrival

LEMMA AnsweredTyped ==
  ASSUME answer \in [Requests -> Answers], NEW S, NEW how \in Answers
  PROVE  Answered(S, how) \in [Requests -> Answers]
  BY DEF Answered

LEMMA CompletedTyped ==
  ASSUME session \in [Threads -> SessionStates], NEW S, NEW status \in SessionStates
  PROVE  Completed(S, status) \in [Threads -> SessionStates]
  BY DEF Completed

LEMMA EndTableTyped ==
  ASSUME inv \in [Requests -> Invocation], session \in [Threads -> SessionStates],
         NEW status \in SessionStates, NEW error \in {"none", "restart", "refused", "pi", "timeout"},
         EndTable(status, error)
  PROVE  inv' \in [Requests -> Invocation] /\ session' \in [Threads -> SessionStates]
<1>1. session' \in [Threads -> SessionStates]
  BY CompletedTyped DEF EndTable
<1>2. ASSUME NEW q \in Requests
      PROVE  [inv[q] EXCEPT !.done = TRUE, !.armed = FALSE,
                            !.err = IF error = "none" THEN @ ELSE error] \in Invocation
  BY DEF Invocation
<1>3. QED
  BY <1>1, <1>2 DEF EndTable

LEMMA LeavesTyped ==
  ASSUME CallsTyped, NEW r \in Requests, NEW how \in Answers, Leaves(r, how)
  PROVE  inv' \in [Requests -> Invocation] /\ answer' \in [Requests -> Answers]
<1>1. NoRecord \in Invocation
  BY DEF NoRecord, Invocation
<1>2. QED
  BY <1>1, AnsweredTyped DEF CallsTyped, Leaves

LEMMA ListedTyped ==
  ASSUME inv \in [Requests -> Invocation], NEW r \in Requests, NEW b \in BOOLEAN
  PROVE  [inv EXCEPT ![r].listed = TRUE, ![r].armed = b] \in [Requests -> Invocation]
  BY DEF Invocation

LEMMA CallsTypedNext ==
  ASSUME TypeInv, Next
  PROVE  CallsTyped'
<1>0. /\ CallsTyped /\ Streams \subseteq Requests /\ \A r \in Requests : ThreadOf[r] \in Threads
      /\ inv \in [Requests -> Invocation] /\ answer \in [Requests -> Answers]
      /\ session \in [Threads -> SessionStates] /\ pending \subseteq Requests
      /\ gone \subseteq Streams /\ cancelling \subseteq Threads
      /\ {"none", "ok", "mixed", "failed"} = Answers
      /\ {"none", "active", "completed", "error", "cancelled"} = SessionStates
      /\ NoRecord \in Invocation
  BY TypeParts, RequestsAssumption DEF CallsTyped, Answers, SessionStates, NoRecord, Invocation
<1>1. ASSUME NEW r \in Requests, Send(r), UNCHANGED <<gone, cancelling>>
      PROVE  CallsTyped'
  <2>1. PICK b \in BOOLEAN : inv' = [inv EXCEPT ![r].listed = TRUE, ![r].armed = b]
    BY <1>1, SendListed
  <2>2. inv' \in [Requests -> Invocation]
    BY <1>0, <2>1, ListedTyped
  <2>3. session' \in [Threads -> SessionStates]
    <3>1. session' = [session EXCEPT ![ThreadOf[r]] = "active"]
      BY <1>1, SendEffect
    <3>2. "active" \in SessionStates
      BY DEF SessionStates
    <3>3. QED
      BY <1>0, <3>1, <3>2
  <2>4. answer' \in [Requests -> Answers] /\ pending' \subseteq Requests
    <3>1. answer' \in {answer, Answered({r}, "failed")} /\ pending' \in {pending, pending \cup {r}}
      BY <1>1, SendEffect
    <3>2. QED
      BY <1>0, <3>1, AnsweredTyped
  <2>5. QED
    BY <1>0, <1>1, <2>2, <2>3, <2>4 DEF CallsTyped
<1>2. ASSUME NEW r \in Requests, Reject(r), UNCHANGED <<inv, gone, session, cancelling>>,
             pending' \subseteq pending
      PROVE  CallsTyped'
  BY <1>0, <1>2, AnsweredTyped DEF Reject, CallsTyped
<1>3. CASE UNCHANGED <<pending, inv, answer, gone, session, cancelling>>
  BY <1>0, <1>3 DEF CallsTyped
<1>4. ASSUME NEW r \in Requests, RestartForModel(r)
      PROVE  CallsTyped'
  <2>1. ASSUME NEW q \in Requests
        PROVE  Dropped(q) \in Invocation
    BY <1>0 DEF Dropped, Invocation
  <2>2. /\ inv' = [q \in Requests |-> IF q \in table THEN Dropped(q) ELSE inv[q]]
        /\ pending' = {} /\ answer' = Answered(pending \cup (table \cap Streams), "failed")
        /\ UNCHANGED <<gone, session, cancelling>>
    BY <1>4 DEF RestartForModel, stores
  <2>3. QED
    BY <1>0, <2>1, <2>2, AnsweredTyped DEF CallsTyped
<1>5. ASSUME NEW r \in Requests, StartForRequest(r) \/ WaitForStart(r)
      PROVE  CallsTyped'
  BY <1>3, <1>5 DEF StartForRequest, WaitForStart, stores
<1>6. ASSUME NEW r \in Requests, SendAtOnce(r)
      PROVE  CallsTyped'
  BY <1>1, <1>6 DEF SendAtOnce
<1>7. ASSUME NEW r \in Requests, NEW older, StartAfterStop(r, older),
             UNCHANGED <<pending, inv, gone, stores>>
      PROVE  CallsTyped'
  BY <1>2, <1>3, <1>7 DEF StartAfterStop, stores
<1>8. ASSUME NEW r \in Requests, StopGivesUp(r) \/ WaitOver(r)
      PROVE  CallsTyped'
  <2>1. CASE StopGivesUp(r)
    BY <1>7, <2>1 DEF StopGivesUp
  <2>2. CASE WaitOver(r)
    <3>1. UNCHANGED <<gone, cancelling>> /\ (Send(r) \/ (Reject(r) /\ UNCHANGED <<session, inv, pipe, pending>>))
      BY <2>2 DEF WaitOver
    <3>2. QED
      BY <1>1, <1>2, <3>1
  <2>3. QED
    BY <1>8, <2>1, <2>2
<1>9. ASSUME NEW p \in Starts, StoppedExit(p) \/ OwnExit(p)
      PROVE  CallsTyped'
  <2>1. CASE StoppedExit(p)
    <3>1. UNCHANGED <<pending, inv, gone, stores>>
      BY <2>1 DEF StoppedExit
    <3>2. UNCHANGED answer \/ \E r \in Requests : StartAfterStop(r, alive')
      BY <2>1 DEF StoppedExit
    <3>3. QED
      BY <1>3, <1>7, <3>1, <3>2 DEF stores
  <2>2. CASE OwnExit(p)
    BY <1>3, <2>2 DEF OwnExit, calls, stores
  <2>3. QED
    BY <1>9, <2>1, <2>2
<1>10. ASSUME NEW a \in Actors, Spawn(a)
       PROVE  CallsTyped'
  BY <1>3, <1>10 DEF Spawn, stores
<1>11. ASSUME NEW a \in Actors, Ready(a)
       PROVE  CallsTyped'
  <2>1. CASE a \in Requests /\ proc # 0
    BY <1>1, <1>11, <2>1 DEF Ready
  <2>2. CASE ~(a \in Requests /\ proc # 0)
    <3>1. answer' = Answered({a}, "failed") /\ UNCHANGED <<session, inv, pending, gone, cancelling>>
      BY <1>11, <2>2 DEF Ready, Reject
    <3>2. QED
      BY <1>0, <3>1, AnsweredTyped DEF CallsTyped
  <2>3. QED
    BY <2>1, <2>2
<1>12. ASSUME NEW p \in Starts, NEW r \in Requests, Accept(p, r) \/ Refuse(p, r)
       PROVE  CallsTyped'
  <2>1. CASE Accept(p, r)
    <3>1. pending' \subseteq pending /\ UNCHANGED <<inv, answer, gone, session, cancelling>>
      BY <2>1 DEF Accept, stores
    <3>2. QED
      BY <1>0, <3>1 DEF CallsTyped
  <2>2. CASE Refuse(p, r)
    <3>1. CASE Heard(p) /\ r \in pending
      <4>1. /\ pending' = pending \ {r} /\ EndTable("error", "refused")
            /\ answer' = Answered({r} \cup (table \cap Streams), "failed") /\ UNCHANGED <<gone, cancelling>>
        BY <2>2, <3>1 DEF Refuse
      <4>2. QED
        BY <1>0, <4>1, EndTableTyped, AnsweredTyped DEF CallsTyped
    <3>2. CASE ~(Heard(p) /\ r \in pending)
      BY <1>3, <2>2, <3>2 DEF Refuse
    <3>3. QED
      BY <3>1, <3>2
  <2>3. QED
    BY <1>12, <2>1, <2>2
<1>13. ASSUME NEW p \in Starts, Delta(p) \/ MessageEnd(p)
       PROVE  CallsTyped'
  <2>1. PICK replace \in BOOLEAN : Text(p, replace)
    BY <1>13 DEF Delta, MessageEnd
  <2>2. ASSUME NEW q \in Requests
        PROVE  [inv[q] EXCEPT !.mixed = (@ /\ ~replace) \/ q # Head(running[p])] \in Invocation
    BY <1>0 DEF Invocation
  <2>3. inv' \in [Requests -> Invocation]
    BY <1>0, <2>1, <2>2 DEF Text
  <2>4. QED
    BY <1>0, <2>1, <2>3 DEF Text, stores, CallsTyped
<1>14. ASSUME NEW p \in Starts, AgentEnd(p) \/ PiError(p)
       PROVE  CallsTyped'
  <2>1. UNCHANGED <<pending, gone, cancelling>>
    BY <1>14 DEF AgentEnd, PiError
  <2>2. answer' \in [Requests -> Answers]
    BY <1>0, <1>14, AnsweredTyped DEF AgentEnd, PiError, Result
  <2>3. inv' \in [Requests -> Invocation] /\ session' \in [Threads -> SessionStates]
    BY <1>0, <1>14, EndTableTyped DEF AgentEnd, PiError
  <2>4. QED
    BY <1>0, <2>1, <2>2, <2>3 DEF CallsTyped
<1>15. ASSUME NEW r \in Requests, AckTimeout(r) \/ PollTimeout(r)
       PROVE  CallsTyped'
  BY <1>2, <1>3, <1>15 DEF AckTimeout, PollTimeout, stores
<1>16. ASSUME NEW r \in Requests, Finish(r) \/ AbortOver(r) \/ Keepalive(r)
       PROVE  CallsTyped'
  <2>1. \E how \in Answers : Leaves(r, how)
    BY <1>0, <1>16 DEF Finish, AbortOver, Keepalive, Result
  <2>2. session' \in [Threads -> SessionStates] /\ UNCHANGED <<pending, gone, cancelling>>
    BY <1>0, <1>16, CompletedTyped DEF Finish, AbortOver, Keepalive, stores
  <2>3. QED
    BY <1>0, <2>1, <2>2, LeavesTyped DEF CallsTyped
<1>17. ASSUME NEW r \in Requests, ModelTimer(r) \/ ClientLeaves(r)
       PROVE  CallsTyped'
  <2>1. /\ [inv[r] EXCEPT !.armed = FALSE] \in Invocation
        /\ [inv[r] EXCEPT !.armed = FALSE, !.done = TRUE, !.err = "timeout"] \in Invocation
        /\ [inv[r] EXCEPT !.listed = FALSE, !.armed = FALSE] \in Invocation
    BY <1>0 DEF Invocation
  <2>2. inv' \in [Requests -> Invocation]
    BY <1>0, <1>17, <2>1 DEF ModelTimer, ClientLeaves
  <2>3. /\ session' \in [Threads -> SessionStates] /\ answer' \in [Requests -> Answers]
        /\ gone' \subseteq Streams /\ UNCHANGED <<pending, cancelling>>
    BY <1>0, <1>17, CompletedTyped, AnsweredTyped DEF ModelTimer, ClientLeaves, stores
  <2>4. QED
    BY <1>0, <2>2, <2>3 DEF CallsTyped
<1>18. CASE CancelStep
  BY <1>0, <1>18 DEF CancelStep, Cancel, CancelSession, calls, CallsTyped
<1>19. QED
  BY <1>4, <1>5, <1>6, <1>8, <1>9, <1>10, <1>11, <1>12, <1>13, <1>14, <1>15, <1>16, <1>17, <1>18, StepKinds
     DEF Arrival, HandlerEnds, PiOutput

LEMMA TypeInvInit == Init => TypeInv
<1> SUFFICES ASSUME Init PROVE TypeInv
  OBVIOUS
<1>1. PiTyped
  BY StartsAreNumbers, ModelsAssumption DEF Init, PiTyped
<1>2. PipesTyped
  BY DEF Init, PipesTyped
<1>3. HandlersTyped
  <2>1. pc \in [Actors -> PCs] /\ \A r \in Requests : pc[r] = "idle"
    BY ActorsDiffer DEF Init, PCs
  <2>2. {r \in Requests : ~MayStart(r)} = {}
    BY <2>1 DEF MayStart
  <2>3. StartsCounted
    <3>1. startCount = 1 /\ Cardinality({}) = 0
      BY FS_EmptySet DEF Init
    <3>2. Cardinality({r \in Requests : ~MayStart(r)}) = 0
      BY <2>2, <3>1
    <3>3. QED
      BY <3>1, <3>2 DEF StartsCounted
  <2>4. QED
    BY <2>1, <2>3 DEF Init, HandlersTyped
<1>4. CallsTyped
  BY DEF Init, CallsTyped, NoRecord, Invocation, Answers, SessionStates
<1>5. QED
  BY <1>1, <1>2, <1>3, <1>4, TypeParts

\* The parts of the type invariant of the next state make it up.
LEMMA TypePartsNext == (PiTyped /\ PipesTyped /\ HandlersTyped /\ CallsTyped)' => TypeInv'
  BY DEF TypeInv, TypeOK, PiTyped, PipesTyped, HandlersTyped, CallsTyped, PCs, Answers, SessionStates

LEMMA TypeInvNext ==
  ASSUME TypeInv, [Next]_vars
  PROVE  TypeInv'
<1>1. CASE Next
  BY <1>1, PiTypedNext, PipesTypedNext, HandlersTypedNext, CallsTypedNext, TypePartsNext
<1>2. CASE UNCHANGED vars
  BY <1>2 DEF vars, bridge, pis, calls, stores, history, TypeInv, TypeOK, StartsCounted, MayStart
<1>3. QED
  BY <1>1, <1>2

\* Every variable keeps its type; in particular no more Pi processes are started than there are
\* actors (each handler calls startPi at most once).
THEOREM BridgeTyped == Spec => []TypeOK
<1>1. TypeInv => TypeOK
  BY DEF TypeInv
<1>2. QED
  BY <1>1, TypeInvInit, TypeInvNext, PTL DEF Spec

-----------------------------------------------------------------------------
(* One start at a time, one process at a time.                             *)

\* The handlers that no longer start or wait for Pi do not come back to it.
LEMMA SentStaySent ==
  ASSUME TypeInv, \/ \E r \in Requests : WaitOver(r) \/ HandlerEnds(r) \/ SendAtOnce(r)
                  \/ \E p \in Starts : PiOutput(p)
                  \/ \E a \in Actors : Ready(a)
                  \/ CancelStep
  PROVE  \A a \in Actors : pc'[a] = pc[a] \/ pc'[a] \in Beyond
<1>0. pc \in [Actors -> PCs] /\ Requests \subseteq Actors
  BY TypeParts, ActorsDiffer DEF HandlersTyped
<1> USE DEF Beyond
<1>1. ASSUME NEW a \in Actors, Reject(a) \/ (a \in Requests /\ Send(a))
      PROVE  \A b \in Actors : pc'[b] = pc[b] \/ pc'[b] \in Beyond
  <2>1. pc' = [pc EXCEPT ![a] = "rejected"] \/ pc' = [pc EXCEPT ![a] = "sent"]
    BY <1>1, SendEffect DEF Reject
  <2>2. QED
    BY <1>0, <2>1
<1>2. ASSUME NEW r \in Requests, WaitOver(r) \/ SendAtOnce(r)
      PROVE  \A b \in Actors : pc'[b] = pc[b] \/ pc'[b] \in Beyond
  BY <1>0, <1>1, <1>2 DEF WaitOver, SendAtOnce
<1>3. ASSUME NEW a \in Actors, Ready(a)
      PROVE  \A b \in Actors : pc'[b] = pc[b] \/ pc'[b] \in Beyond
  BY <1>1, <1>3 DEF Ready
<1>4. ASSUME NEW r \in Requests, HandlerEnds(r)
      PROVE  \A b \in Actors : pc'[b] = pc[b] \/ pc'[b] \in Beyond
  <2>1. pc' = pc \/ \E to \in {"rejected", "ended", "aborting"} : pc' = [pc EXCEPT ![r] = to]
    BY <1>4 DEF HandlerEnds, AckTimeout, Finish, PollTimeout, AbortOver, ModelTimer, Keepalive,
       ClientLeaves, Reject, Leaves
  <2>2. QED
    BY <1>0, <2>1
<1>5. ASSUME NEW p \in Starts, PiOutput(p)
      PROVE  \A b \in Actors : pc'[b] = pc[b] \/ pc'[b] \in Beyond
  <2>1. CASE Delta(p) \/ MessageEnd(p) \/ AgentEnd(p) \/ PiError(p)
    BY <2>1 DEF Delta, MessageEnd, Text, AgentEnd, PiError
  <2>2. ASSUME NEW r \in Requests, Accept(p, r) \/ Refuse(p, r)
        PROVE  \A b \in Actors : pc'[b] = pc[b] \/ pc'[b] \in Beyond
    <3>1. pc' = pc \/ \E to \in {"streaming", "polling", "rejected"} : pc' = [pc EXCEPT ![r] = to]
      BY <2>2 DEF Accept, Refuse
    <3>2. QED
      BY <1>0, <3>1
  <2>3. QED
    BY <1>5, <2>1, <2>2 DEF PiOutput
<1>6. CASE CancelStep
  BY <1>6 DEF CancelStep, Cancel, CancelSession, calls
<1>7. QED
  BY <1>2, <1>3, <1>4, <1>5, <1>6

LEMMA StartersStay ==
  ASSUME OneStarts, UNCHANGED <<starting, config, misserved>>,
         \A a \in Actors : pc'[a] \in {"fifo", "spawned"} => Starting(a)
  PROVE  OneStarts'
  BY ActorsDiffer DEF OneStarts, Starting, ConfigChanged

LEMMA StarterBegins ==
  ASSUME TypeInv, OneStarts, NEW r \in Requests, NEW model, NEW older,
         BeginStart(r, model, older), ~starting, model = ModelOf[r] \/ ModelOf[r] = NoModel,
         misserved' = misserved
  PROVE  OneStarts'
<1>1. \A a \in Actors : ~Starting(a)
  BY DEF OneStarts
<1>2. pc' = [pc EXCEPT ![r] = "fifo"] /\ config' = model /\ starting' = TRUE
  BY DEF BeginStart
<1>3. \A a \in Actors : Starting(a)' => a = r
  BY <1>1, <1>2, TypeParts DEF HandlersTyped, Starting
<1>4. ~ConfigChanged(r)'
  BY <1>2 DEF ConfigChanged
<1>5. QED
  BY <1>2, <1>3, <1>4, ActorsDiffer DEF OneStarts

LEMMA StarterAfterStop ==
  ASSUME TypeInv, OneStarts, NEW r \in Requests, NEW older, StartAfterStop(r, older),
         misserved' = misserved
  PROVE  OneStarts'
<1>1. CASE starting
  <2>1. UNCHANGED <<starting, config>> /\ pc' = [pc EXCEPT ![r] = "rejected"]
    BY <1>1 DEF StartAfterStop, Reject
  <2>2. QED
    BY <2>1, StartersStay, TypeParts DEF HandlersTyped, Starting
<1>2. CASE ~starting
  BY <1>2, StarterBegins DEF StartAfterStop
<1>3. QED
  BY <1>1, <1>2

LEMMA OneStartsNext ==
  ASSUME TypeInv, OneStarts, Next
  PROVE  OneStarts'
<1>0. pc \in [Actors -> PCs] /\ Requests \subseteq Actors
  BY TypeParts, ActorsDiffer DEF HandlersTyped
<1>1. ASSUME NEW r \in Requests, RestartForModel(r)
      PROVE  OneStarts'
  <2>1. UNCHANGED <<starting, config, misserved>>
    BY <1>1 DEF RestartForModel
  <2>2. \A a \in Actors : pc'[a] = pc[a] \/ pc'[a] \in {"stopping", "rejected"}
    BY <1>0, <1>1 DEF RestartForModel
  <2>3. QED
    BY <2>1, <2>2, StartersStay DEF Starting
<1>2. ASSUME NEW r \in Requests, StartForRequest(r)
      PROVE  OneStarts'
  BY <1>2, StarterBegins DEF StartForRequest, WantedModel
<1>3. ASSUME NEW r \in Requests, WaitForStart(r)
      PROVE  OneStarts'
  <2>1. pc' = [pc EXCEPT ![r] = "waiting"] /\ UNCHANGED <<starting, config, misserved>>
    BY <1>3 DEF WaitForStart, bridge
  <2>2. QED
    BY <1>0, <2>1, StartersStay DEF Starting
<1>4. ASSUME NEW r \in Requests, SendAtOnce(r)
      PROVE  OneStarts'
  <2>1. UNCHANGED <<starting, config, misserved>>
    BY <1>4 DEF SendAtOnce, NoteModel, bridge
  <2>2. QED
    BY <1>4, <2>1, SentStaySent, StartersStay DEF Starting, Beyond
<1>5. ASSUME NEW r \in Requests, StopGivesUp(r)
      PROVE  OneStarts'
  BY <1>5, StarterAfterStop DEF StopGivesUp
<1>6. ASSUME NEW p \in Starts, StoppedExit(p)
      PROVE  OneStarts'
  <2>1. misserved' = misserved
    BY <1>6 DEF StoppedExit
  <2>2. CASE UNCHANGED <<pc, starting, config>>
    BY <2>1, <2>2, StartersStay DEF Starting
  <2>3. QED
    BY <1>6, <2>1, <2>2, StarterAfterStop DEF StoppedExit
<1>7. ASSUME NEW p \in Starts, OwnExit(p)
      PROVE  OneStarts'
  BY <1>7, StartersStay DEF OwnExit, calls, history, Starting
<1>8. ASSUME NEW a \in Actors, Spawn(a)
      PROVE  OneStarts'
  <2>1. UNCHANGED <<starting, config, misserved>>
    BY <1>8 DEF Spawn, history
  <2>2. pc[a] = "fifo" /\ (pc' = pc \/ pc' = [pc EXCEPT ![a] = "spawned"])
    BY <1>8 DEF Spawn
  <2>3. QED
    BY <1>0, <2>1, <2>2, StartersStay DEF Starting
<1>9. ASSUME NEW a \in Actors, Ready(a)
      PROVE  OneStarts'
  <2>1. pc[a] = "spawned" /\ config' = config
    BY <1>9 DEF Ready
  <2>2. \A b \in Actors : Starting(b) => b = a
    BY <2>1 DEF OneStarts, Starting
  <2>3. pc'[a] \in Beyond /\ \A b \in Actors : Starting(b)' => Starting(b)
    <3>1. pc' = [pc EXCEPT ![a] = "rejected"] \/ pc' = [pc EXCEPT ![a] = "sent"]
      BY <1>9, SendEffect DEF Ready, Reject
    <3>2. QED
      BY <1>0, <3>1 DEF Beyond, Starting
  <2>4. \A b \in Actors : ~Starting(b)'
    BY <2>2, <2>3 DEF Starting, Beyond
  <2>5. misserved' = misserved
    BY <1>9, <2>1 DEF Ready, NoteModel, OneStarts, Starting
  <2>6. QED
    BY <1>0, <2>4, <2>5 DEF OneStarts
<1>10. CASE \/ \E r \in Requests : WaitOver(r) \/ HandlerEnds(r)
            \/ \E p \in Starts : PiOutput(p)
            \/ CancelStep
  BY <1>10, SentStaySent, QuietSteps, StartersStay DEF bridge, history, Starting, Beyond
<1>11. QED
  BY <1>1, <1>2, <1>3, <1>4, <1>5, <1>6, <1>7, <1>8, <1>9, <1>10, StepKinds DEF Arrival

\* No process is spawned: those there are stay known or told to stop, or one exits.
LEMMA NobodySpawned ==
  ASSUME OneProcess, overlap' = overlap,
         \/ alive' = alive /\ {proc} \cup doomed \subseteq {proc'} \cup doomed'
         \/ \E p \in alive : alive' = alive \ {p},
         \A a \in Actors : pc'[a] = "fifo" => pc[a] = "fifo"
  PROVE  OneProcess'
<1>1. CASE alive' = alive /\ {proc} \cup doomed \subseteq {proc'} \cup doomed'
  BY <1>1 DEF OneProcess
<1>2. ASSUME NEW p \in alive, alive' = alive \ {p}
      PROVE  OneProcess'
  <2>1. ~overlap => alive' = {}
    BY <1>2 DEF OneProcess
  <2>2. QED
    BY <2>1 DEF OneProcess
<1>3. QED
  BY <1>1, <1>2

\* A start is decided while the processes that run are those of older.
LEMMA ProcessAfterStart ==
  ASSUME NEW older, overlap' = (overlap \/ older # {}), alive' = older
  PROVE  OneProcess'
  BY DEF OneProcess

LEMMA ProcessAfterStop ==
  ASSUME TypeInv, OneProcess, NEW r \in Requests, NEW older, StartAfterStop(r, older), older = alive',
         \/ alive' = alive /\ {proc} \cup doomed \subseteq {proc'} \cup doomed'
         \/ \E p \in alive : alive' = alive \ {p}
  PROVE  OneProcess'
<1>1. CASE starting
  <2>1. overlap' = overlap /\ pc' = [pc EXCEPT ![r] = "rejected"]
    BY <1>1 DEF StartAfterStop, Reject
  <2>2. QED
    BY <2>1, NobodySpawned, TypeParts DEF HandlersTyped
<1>2. CASE ~starting
  BY <1>2, ProcessAfterStart DEF StartAfterStop, BeginStart
<1>3. QED
  BY <1>1, <1>2

LEMMA OneProcessNext ==
  ASSUME TypeInv, OneStarts, OneProcess, Next
  PROVE  OneProcess'
<1>0. /\ pc \in [Actors -> PCs] /\ Requests \subseteq Actors /\ doomed \subseteq alive
      /\ proc # 0 => proc \in alive
  BY TypeParts, ActorsDiffer DEF HandlersTyped, PiTyped
<1>1. ASSUME NEW r \in Requests, RestartForModel(r)
      PROVE  OneProcess'
  <2>1. /\ UNCHANGED <<alive, overlap>> /\ doomed' = doomed \cup {proc}
        /\ \A a \in Actors : pc'[a] = pc[a] \/ pc'[a] \in {"stopping", "rejected"}
    BY <1>0, <1>1 DEF RestartForModel, Kill
  <2>2. QED
    BY <2>1, NobodySpawned
<1>2. ASSUME NEW r \in Requests, StartForRequest(r)
      PROVE  OneProcess'
  BY <1>2, ProcessAfterStart DEF StartForRequest, BeginStart, pis
<1>3. ASSUME NEW r \in Requests, WaitForStart(r)
      PROVE  OneProcess'
  <2>1. pc' = [pc EXCEPT ![r] = "waiting"] /\ UNCHANGED <<alive, doomed, proc, overlap>>
    BY <1>3 DEF WaitForStart, bridge, pis
  <2>2. QED
    BY <1>0, <2>1, NobodySpawned
<1>4. ASSUME NEW r \in Requests, SendAtOnce(r)
      PROVE  OneProcess'
  <2>1. UNCHANGED <<alive, doomed, proc, overlap>>
    BY <1>4 DEF SendAtOnce, bridge
  <2>2. QED
    BY <1>4, <2>1, SentStaySent, NobodySpawned DEF Beyond
<1>5. ASSUME NEW r \in Requests, StopGivesUp(r)
      PROVE  OneProcess'
  BY <1>5, ProcessAfterStop DEF StopGivesUp, pis
<1>6. ASSUME NEW p \in Starts, StoppedExit(p)
      PROVE  OneProcess'
  <2>1. p \in alive /\ alive' = alive \ {p}
    BY <1>0, <1>6 DEF StoppedExit, Exits
  <2>2. CASE UNCHANGED <<pc, overlap>>
    BY <2>1, <2>2, NobodySpawned
  <2>3. QED
    BY <1>6, <2>1, <2>2, ProcessAfterStop DEF StoppedExit
<1>7. ASSUME NEW p \in Starts, OwnExit(p)
      PROVE  OneProcess'
  BY <1>7, NobodySpawned DEF OwnExit, Exits, calls, history
<1>8. ASSUME NEW a \in Actors, Spawn(a)
      PROVE  OneProcess'
  <2>1. UNCHANGED <<doomed, overlap>> /\ pc[a] = "fifo"
    BY <1>8 DEF Spawn, history
  <2>2. CASE UNCHANGED <<proc, alive, pc>>
    BY <2>1, <2>2, NobodySpawned
  <2>3. CASE ~UNCHANGED <<proc, alive, pc>>
    <3>1. proc' = startCount /\ alive' = alive \cup {startCount} /\ pc' = [pc EXCEPT ![a] = "spawned"]
      BY <1>8, <2>3 DEF Spawn
    <3>2. ~overlap => alive' = {startCount}
      BY <2>1, <3>1 DEF OneProcess
    <3>3. \A b \in Actors : pc'[b] # "fifo"
      BY <1>0, <2>1, <3>1 DEF OneStarts, Starting
    <3>4. QED
      BY <2>1, <3>1, <3>2, <3>3 DEF OneProcess
  <2>4. QED
    BY <2>2, <2>3
<1>9. ASSUME NEW a \in Actors, Ready(a)
      PROVE  OneProcess'
  <2>1. UNCHANGED <<alive, doomed, proc, overlap>>
    BY <1>9 DEF Ready
  <2>2. QED
    BY <1>9, <2>1, SentStaySent, NobodySpawned DEF Beyond
<1>10. CASE \/ \E r \in Requests : WaitOver(r) \/ HandlerEnds(r)
            \/ \E p \in Starts : PiOutput(p)
            \/ CancelStep
  <2>1. UNCHANGED <<alive, doomed, proc, overlap>>
    BY <1>10, QuietSteps DEF bridge, history
  <2>2. \A a \in Actors : pc'[a] = "fifo" => pc[a] = "fifo"
    BY <1>10, SentStaySent DEF Beyond
  <2>3. QED
    BY <2>1, <2>2, NobodySpawned
<1>11. QED
  BY <1>1, <1>2, <1>3, <1>4, <1>5, <1>6, <1>7, <1>8, <1>9, <1>10, StepKinds DEF Arrival

-----------------------------------------------------------------------------
(* The records of the bridge.                                              *)

\* A session that began stays in the store.
LEMMA SessionsStay ==
  ASSUME TypeInv, Next
  PROVE  \A t \in Threads : session[t] # "none" => session'[t] # "none"
<1>0. session \in [Threads -> SessionStates]
  BY TypeParts DEF CallsTyped
<1>1. ASSUME NEW r \in Requests, Send(r)
      PROVE  \A t \in Threads : session[t] # "none" => session'[t] # "none"
  BY <1>0, <1>1 DEF Send
<1>2. ASSUME NEW S, NEW status \in {"completed", "error"}, session' = Completed(S, status)
      PROVE  \A t \in Threads : session[t] # "none" => session'[t] # "none"
  BY <1>0, <1>2 DEF Completed
<1>3. CASE CancelStep
  BY <1>0, <1>3 DEF CancelStep, Cancel, CancelSession
<1>4. ASSUME NEW r \in Requests, Arrival(r) \/ WaitOver(r) \/ StopGivesUp(r)
      PROVE  session' = session \/ Send(r)
  BY <1>4 DEF Arrival, RestartForModel, StartForRequest, WaitForStart, SendAtOnce, WaitOver, StopGivesUp, stores
<1>5. ASSUME NEW r \in Requests, HandlerEnds(r)
      PROVE  session' = session \/ session' = Completed({r}, "completed") \/ session' = Completed({r}, "error")
  BY <1>5 DEF HandlerEnds, AckTimeout, Finish, PollTimeout, AbortOver, ModelTimer, Keepalive, ClientLeaves, stores
<1>6. ASSUME NEW a \in Actors, Spawn(a) \/ Ready(a)
      PROVE  session' = session \/ (a \in Requests /\ Send(a))
  BY <1>6, SMTT(40) DEF Spawn, Ready, stores
<1>7. ASSUME NEW p \in Starts, PiOutput(p) \/ StoppedExit(p) \/ OwnExit(p)
      PROVE  session' = session \/ session' = Completed(table, "completed") \/ session' = Completed(table, "error")
  BY <1>7 DEF PiOutput, Accept, Refuse, Delta, MessageEnd, Text, AgentEnd, PiError, EndTable,
     StoppedExit, OwnExit, stores
<1>8. QED
  BY <1>1, <1>2, <1>3, <1>4, <1>5, <1>6, <1>7, StepKinds

\* The records of a request that a step does not touch.
LEMMA MatchesStill ==
  ASSUME NEW q \in Requests, Matches(q),
         pc'[q] = pc[q], inv'[q] = inv[q], answer'[q] = answer[q], q \in pending' => q \in pending,
         session[ThreadOf[q]] # "none" => session'[ThreadOf[q]] # "none"
  PROVE  Matches(q)'
  BY DEF Matches, NoRecord

\* A handler that has not sent its prompt goes on without sending it, or answers that it failed.
LEMMA MatchesStart ==
  ASSUME NEW q \in Requests, Matches(q),
         pc[q] \in {"idle", "waiting", "stopping", "fifo", "spawned"}, inv'[q] = inv[q],
         \/ pc'[q] \in {"waiting", "stopping", "fifo", "spawned"} /\ answer'[q] = answer[q]
         \/ pc'[q] = "rejected" /\ answer'[q] = "failed",
         q \in pending' => q \in pending
  PROVE  Matches(q)'
  BY DEF Matches, NoRecord

LEMMA MatchesSend ==
  ASSUME TypeInv, RecordsMatch, NEW r \in Requests, Send(r), pc[r] \in {"idle", "waiting", "spawned"},
         NEW q \in Requests, session[ThreadOf[q]] # "none" => session'[ThreadOf[q]] # "none"
  PROVE  Matches(q)'
<1>0. /\ pc \in [Actors -> PCs] /\ inv \in [Requests -> Invocation] /\ answer \in [Requests -> Answers]
      /\ session \in [Threads -> SessionStates] /\ ThreadOf[r] \in Threads /\ Requests \subseteq Actors
  BY TypeParts, ActorsDiffer, RequestsAssumption DEF HandlersTyped, CallsTyped
<1>1. \/ pending' = pending \cup {r} /\ pc' = [pc EXCEPT ![r] = "sent"] /\ answer' = answer
      \/ pending' = pending /\ pc' = [pc EXCEPT ![r] = "rejected"] /\ answer' = Answered({r}, "failed")
  BY SendEffect
<1> PICK b \in BOOLEAN : (b <=> r \in Streams) /\ inv' = [inv EXCEPT ![r].listed = TRUE, ![r].armed = b]
  BY SendListed
<1>2. CASE q # r
  <2>1. inv'[q] = inv[q] /\ pc'[q] = pc[q] /\ answer'[q] = answer[q] /\ (q \in pending' => q \in pending)
    BY <1>0, <1>1, <1>2 DEF Answered
  <2>2. QED
    BY <2>1, MatchesStill DEF RecordsMatch
<1>3. CASE q = r
  <2>1. inv[r] = NoRecord /\ answer[r] = "none" /\ r \notin pending
    BY DEF RecordsMatch, Matches
  <2>2. inv'[r].armed => r \in Streams
    BY <1>0 DEF Invocation
  <2>3. session'[ThreadOf[r]] # "none"
    BY <1>0, SendEffect
  <2>4. \/ pc'[r] = "sent" /\ answer'[r] = "none"
        \/ pc'[r] = "rejected" /\ answer'[r] = "failed" /\ r \notin pending'
    BY <1>0, <1>1, <2>1 DEF Answered
  <2>5. QED
    BY <1>3, <2>2, <2>3, <2>4 DEF Matches
<1>4. QED
  BY <1>2, <1>3

LEMMA MatchesAfterStop ==
  ASSUME TypeInv, RecordsMatch, NEW r \in Requests, pc[r] = "stopping", NEW older,
         StartAfterStop(r, older), UNCHANGED <<inv, pending, session>>
  PROVE  RecordsMatch'
<1>0. pc \in [Actors -> PCs] /\ answer \in [Requests -> Answers] /\ Requests \subseteq Actors
  BY TypeParts, ActorsDiffer DEF HandlersTyped, CallsTyped
<1>1. \/ pc' = [pc EXCEPT ![r] = "rejected"] /\ answer' = Answered({r}, "failed")
      \/ pc' = [pc EXCEPT ![r] = "fifo"] /\ answer' = answer
  BY DEF StartAfterStop, Reject, BeginStart
<1>2. answer[r] = "none"
  BY DEF RecordsMatch, Matches
<1>3. \/ pc'[r] = "rejected" /\ answer'[r] = "failed"
      \/ pc'[r] = "fifo" /\ answer'[r] = answer[r]
  BY <1>0, <1>1, <1>2 DEF Answered
<1>4. Matches(r)'
  BY <1>3, MatchesStart DEF RecordsMatch
<1>5. \A q \in Requests \ {r} : Matches(q)'
  BY <1>0, <1>1, MatchesStill DEF RecordsMatch, Answered
<1>6. QED
  BY <1>4, <1>5 DEF RecordsMatch

\* The output of Pi reaches the invocations of the table, and at most one sender.
LEMMA MatchesOutput ==
  ASSUME TypeInv, RecordsMatch, NEW p \in Starts, PiOutput(p), NEW q \in Requests,
         session[ThreadOf[q]] # "none" => session'[ThreadOf[q]] # "none"
  PROVE  Matches(q)'
<1>0. /\ pc \in [Actors -> PCs] /\ inv \in [Requests -> Invocation] /\ answer \in [Requests -> Answers]
      /\ Requests \subseteq Actors /\ Matches(q) /\ inv[q] \in Invocation
  BY TypeParts, ActorsDiffer DEF HandlersTyped, CallsTyped, RecordsMatch
<1>a. inv[q].listed => pc[q] \notin {"idle", "waiting", "stopping", "fifo", "spawned", "ended"}
  BY <1>0 DEF Matches, NoRecord
<1>b. ASSUME inv[q].listed => (inv'[q].armed => inv[q].armed) /\ (answer'[q] = "ok" => ~inv'[q].armed),
             ~inv[q].listed => inv'[q] = inv[q], pc'[q] = pc[q], q \in pending' => q \in pending,
             answer'[q] = answer[q] \/ (inv[q].listed /\ q \in Streams)
      PROVE  Matches(q)'
  <2>1. CASE inv[q].listed
    BY <1>0, <1>a, <1>b, <2>1 DEF Matches
  <2>2. CASE ~inv[q].listed
    BY <1>0, <1>b, <2>2, MatchesStill
  <2>3. QED
    BY <2>1, <2>2
<1>1. ASSUME NEW r \in Requests, Accept(p, r)
      PROVE  Matches(q)'
  <2>1. \/ UNCHANGED <<pending, pc>>
        \/ /\ r \in pending /\ pending' = pending \ {r}
           /\ pc' = [pc EXCEPT ![r] = IF r \in Streams THEN "streaming" ELSE "polling"]
    BY <1>1 DEF Accept
  <2>2. UNCHANGED <<inv, answer, session>>
    BY <1>1 DEF Accept, stores
  <2>3. CASE pc'[q] = pc[q]
    BY <1>0, <2>1, <2>2, <2>3, MatchesStill
  <2>4. CASE pc'[q] # pc[q]
    <3>1. q = r /\ pc[q] = "sent" /\ q \notin pending'
          /\ pc'[q] = IF q \in Streams THEN "streaming" ELSE "polling"
      BY <1>0, <2>1, <2>4 DEF Matches
    <3>2. QED
      BY <1>0, <2>2, <3>1 DEF Matches
  <2>5. QED
    BY <2>3, <2>4
<1>2. ASSUME NEW status, NEW error, EndTable(status, error)
      PROVE  /\ inv'[q].listed = inv[q].listed /\ (inv'[q].armed => inv[q].armed)
             /\ inv[q].listed => ~inv'[q].armed
             /\ ~inv[q].listed => inv'[q] = inv[q]
  BY <1>0, <1>2 DEF EndTable, table, Invocation
<1>3. ASSUME NEW r \in Requests, Refuse(p, r)
      PROVE  Matches(q)'
  <2>1. CASE UNCHANGED <<pending, inv, session, pc, answer>>
    BY <1>0, <2>1, MatchesStill
  <2>2. CASE ~UNCHANGED <<pending, inv, session, pc, answer>>
    <3>1. /\ r \in pending /\ pending' = pending \ {r} /\ EndTable("error", "refused")
          /\ pc' = [pc EXCEPT ![r] = "rejected"] /\ answer' = Answered({r} \cup (table \cap Streams), "failed")
      BY <1>3, <2>2 DEF Refuse
    <3>2. /\ inv'[q].listed = inv[q].listed /\ (inv'[q].armed => inv[q].armed)
          /\ ~inv[q].listed => inv'[q] = inv[q]
      BY <1>2, <3>1
    <3>3. CASE q = r
      <4>1. pc'[q] = "rejected" /\ q \notin pending' /\ (answer'[q] = "ok" => answer[q] = "ok")
        BY <1>0, <3>1, <3>3 DEF Answered
      <4>2. QED
        BY <1>0, <3>2, <4>1 DEF Matches
    <3>4. CASE q # r
      <4>1. /\ pc'[q] = pc[q] /\ (q \in pending' => q \in pending)
            /\ (answer'[q] = "ok" => answer[q] = "ok")
            /\ answer'[q] = answer[q] \/ (inv[q].listed /\ q \in Streams)
        BY <1>0, <3>1, <3>4 DEF Answered, table
      <4>2. QED
        BY <1>0, <1>b, <3>2, <4>1 DEF Matches
    <3>5. QED
      BY <3>3, <3>4
  <2>3. QED
    BY <2>1, <2>2
<1>4. ASSUME NEW replace \in BOOLEAN, Text(p, replace)
      PROVE  Matches(q)'
  <2>1. /\ UNCHANGED <<pc, pending, answer, session>>
        /\ inv'[q].listed = inv[q].listed /\ inv'[q].armed = inv[q].armed
        /\ ~inv[q].listed => inv'[q] = inv[q]
    BY <1>0, <1>4 DEF Text, stores, table, Invocation
  <2>2. QED
    BY <1>0, <1>b, <2>1 DEF Matches
<1>5. ASSUME AgentEnd(p) \/ PiError(p)
      PROVE  Matches(q)'
  <2>1. UNCHANGED <<pc, pending>> /\ \E status, error : EndTable(status, error)
    BY <1>5 DEF AgentEnd, PiError
  <2>2. /\ inv'[q].listed = inv[q].listed /\ (inv'[q].armed => inv[q].armed)
        /\ inv[q].listed => ~inv'[q].armed
        /\ ~inv[q].listed => inv'[q] = inv[q]
    BY <1>2, <2>1
  <2>3. answer'[q] = answer[q] \/ (inv[q].listed /\ q \in Streams)
    <3>1. CASE AgentEnd(p)
      BY <1>0, <3>1 DEF AgentEnd, table
    <3>2. CASE PiError(p)
      BY <1>0, <3>2 DEF PiError, Answered, table
    <3>3. QED
      BY <1>5, <3>1, <3>2
  <2>4. QED
    BY <1>b, <2>1, <2>2, <2>3
<1>6. QED
  BY <1>1, <1>3, <1>4, <1>5 DEF PiOutput, Delta, MessageEnd

\* The end of a handler concerns that handler only.
LEMMA OthersEnd ==
  ASSUME TypeInv, NEW r \in Requests, HandlerEnds(r), NEW q \in Requests, q # r
  PROVE  pc'[q] = pc[q] /\ inv'[q] = inv[q] /\ answer'[q] = answer[q] /\ (q \in pending' => q \in pending)
<1>0. /\ pc \in [Actors -> PCs] /\ inv \in [Requests -> Invocation] /\ answer \in [Requests -> Answers]
      /\ Requests \subseteq Actors
  BY TypeParts, ActorsDiffer DEF HandlersTyped, CallsTyped
<1>1. answer' = answer \/ \E how \in {"ok", "mixed", "failed"} : answer' = Answered({r}, how)
  BY DEF HandlerEnds, AckTimeout, Finish, PollTimeout, AbortOver, ModelTimer, Keepalive, ClientLeaves,
     Reject, Leaves, Result
<1>2. pending' = pending \/ pending' = pending \ {r}
  BY DEF HandlerEnds, AckTimeout, Finish, PollTimeout, AbortOver, ModelTimer, Keepalive, ClientLeaves
<1>3. pc' = pc \/ \E to \in {"rejected", "ended", "aborting"} : pc' = [pc EXCEPT ![r] = to]
  BY DEF HandlerEnds, AckTimeout, Finish, PollTimeout, AbortOver, ModelTimer, Keepalive, ClientLeaves,
     Reject, Leaves
<1>4. inv'[q] = inv[q]
  BY <1>0 DEF HandlerEnds, AckTimeout, Finish, PollTimeout, AbortOver, ModelTimer, Keepalive, ClientLeaves,
     Reject, Leaves
<1>5. answer'[q] = answer[q]
  BY <1>0, <1>1 DEF Answered
<1>6. QED
  BY <1>0, <1>2, <1>3, <1>4, <1>5

LEMMA MatchesEnds ==
  ASSUME TypeInv, RecordsMatch, NEW r \in Requests, HandlerEnds(r),
         session[ThreadOf[r]] # "none" => session'[ThreadOf[r]] # "none"
  PROVE  Matches(r)'
<1>0. /\ pc \in [Actors -> PCs] /\ inv \in [Requests -> Invocation] /\ answer \in [Requests -> Answers]
      /\ Requests \subseteq Actors /\ Matches(r) /\ inv[r] \in Invocation /\ r \in Actors
  BY TypeParts, ActorsDiffer DEF HandlersTyped, CallsTyped, RecordsMatch
<1>1. CASE AckTimeout(r)
  <2>1. /\ r \in pending /\ pending' = pending \ {r} /\ pc' = [pc EXCEPT ![r] = "rejected"]
        /\ answer' = Answered({r}, "failed") /\ UNCHANGED <<inv, session>>
    BY <1>1 DEF AckTimeout, Reject, stores
  <2>2. pc'[r] = "rejected" /\ r \notin pending' /\ (answer'[r] = "ok" => answer[r] = "ok")
    BY <1>0, <2>1 DEF Answered
  <2>3. QED
    BY <1>0, <2>1, <2>2 DEF Matches
<1>2. ASSUME NEW how, Leaves(r, how), pending' = pending, pc[r] # "sent"
      PROVE  Matches(r)'
  <2>1. pc'[r] = "ended" /\ inv'[r] = NoRecord
    BY <1>0, <1>2 DEF Leaves
  <2>2. QED
    BY <1>0, <1>2, <2>1 DEF Matches, NoRecord
<1>3. CASE Finish(r) \/ AbortOver(r) \/ Keepalive(r)
  BY <1>2, <1>3 DEF Finish, AbortOver, Keepalive
<1>4. CASE PollTimeout(r)
  <2>1. pc[r] = "polling" /\ pc'[r] = "aborting" /\ UNCHANGED <<pending, inv, answer, session>>
    BY <1>0, <1>4 DEF PollTimeout, stores
  <2>2. QED
    BY <1>0, <2>1 DEF Matches
<1>5. CASE ModelTimer(r)
  <2>1. /\ inv[r].armed /\ UNCHANGED <<pc, pending>>
        /\ inv'[r].listed = inv[r].listed /\ inv'[r].armed = FALSE
    BY <1>0, <1>5 DEF ModelTimer, Invocation
  <2>2. r \in Streams /\ pc[r] \notin {"idle", "waiting", "stopping", "fifo", "spawned", "ended"}
    BY <1>0, <2>1 DEF Matches, NoRecord
  <2>3. QED
    BY <1>0, <2>1, <2>2 DEF Matches
<1>6. CASE ClientLeaves(r)
  <2>1. /\ inv[r].listed /\ r \in Streams /\ UNCHANGED <<pc, pending, answer>>
        /\ ~inv'[r].listed /\ ~inv'[r].armed
    BY <1>0, <1>6 DEF ClientLeaves, table, Invocation, NoRecord
  <2>2. pc[r] \notin {"idle", "waiting", "stopping", "fifo", "spawned", "ended"}
    BY <1>0, <2>1 DEF Matches, NoRecord
  <2>3. QED
    BY <1>0, <2>1, <2>2 DEF Matches
<1>7. QED
  BY <1>1, <1>3, <1>4, <1>5, <1>6 DEF HandlerEnds

LEMMA MatchesRestart ==
  ASSUME TypeInv, RecordsMatch, NEW r \in Requests, RestartForModel(r), NEW q \in Requests
  PROVE  Matches(q)'
<1>0. /\ pc \in [Actors -> PCs] /\ inv \in [Requests -> Invocation] /\ answer \in [Requests -> Answers]
      /\ Requests \subseteq Actors /\ Matches(q) /\ inv[q] \in Invocation /\ q \in Actors
  BY TypeParts, ActorsDiffer DEF HandlersTyped, CallsTyped, RecordsMatch
<1>1. /\ pc[r] = "idle" /\ pending' = {} /\ session' = session
      /\ inv'[q] = IF inv[q].listed THEN Dropped(q) ELSE inv[q]
      /\ answer' = Answered(pending \cup (table \cap Streams), "failed")
      /\ pc'[q] = IF q = r THEN "stopping" ELSE IF q \in pending THEN "rejected" ELSE pc[q]
  BY <1>0 DEF RestartForModel, Arrive, stores, table
<1>2. inv[q].listed => pc[q] \notin {"idle", "waiting", "stopping", "fifo", "spawned", "ended"}
  BY <1>0 DEF Matches, NoRecord
<1>3. /\ ~inv[q].listed => inv'[q] = inv[q]
      /\ inv[q].listed => ~inv'[q].listed /\ ~inv'[q].armed
  BY <1>0, <1>1 DEF Dropped, NoRecord, Invocation
<1>4. answer'[q] = answer[q] \/ (q \in pending /\ answer'[q] = "failed")
                             \/ (inv[q].listed /\ q \in Streams /\ answer'[q] = "failed")
  BY <1>0, <1>1 DEF Answered, table
<1>5. CASE inv[q].listed
  BY <1>0, <1>1, <1>2, <1>3, <1>4, <1>5 DEF Matches
<1>6. CASE ~inv[q].listed
  <2>1. CASE q \in pending
    BY <1>0, <1>1, <1>3, <1>4, <1>6, <2>1 DEF Matches
  <2>2. CASE q \notin pending
    <3>1. inv'[q] = inv[q] /\ answer'[q] = answer[q]
      BY <1>3, <1>4, <1>6, <2>2
    <3>2. CASE q = r
      BY <1>0, <1>1, <3>1, <3>2, MatchesStart
    <3>3. CASE q # r
      BY <1>0, <1>1, <2>2, <3>1, <3>3, MatchesStill
    <3>4. QED
      BY <3>2, <3>3
  <2>3. QED
    BY <2>1, <2>2
<1>7. QED
  BY <1>5, <1>6

LEMMA RecordsMatchNext ==
  ASSUME TypeInv, RecordsMatch, Next
  PROVE  RecordsMatch'
<1>0. /\ pc \in [Actors -> PCs] /\ answer \in [Requests -> Answers] /\ Requests \subseteq Actors
      /\ \A q \in Requests : ThreadOf[q] \in Threads
      /\ \A q \in Requests : Matches(q)
  BY TypeParts, ActorsDiffer, RequestsAssumption DEF HandlersTyped, CallsTyped, RecordsMatch
<1>s. \A q \in Requests : session[ThreadOf[q]] # "none" => session'[ThreadOf[q]] # "none"
  BY <1>0, SessionsStay
<1>1. ASSUME NEW a \in Actors, a \in Requests => pc[a] \in {"idle", "fifo", "spawned", "waiting"},
             \/ /\ pc' = pc \/ \E to \in {"waiting", "fifo", "spawned"} : pc' = [pc EXCEPT ![a] = to]
                /\ answer' = answer
             \/ Reject(a),
             UNCHANGED <<inv, pending>>
      PROVE  RecordsMatch'
  <2>1. \A q \in Requests \ {a} : pc'[q] = pc[q] /\ answer'[q] = answer[q]
    BY <1>0, <1>1 DEF Reject, Answered
  <2>2. \A q \in Requests \ {a} : Matches(q)'
    BY <1>0, <1>1, <1>s, <2>1, MatchesStill
  <2>3. ASSUME a \in Requests
        PROVE  Matches(a)'
    <3>1. answer[a] = "none"
      BY <1>0, <1>1, <2>3 DEF Matches
    <3>2. \/ pc'[a] \in {"waiting", "fifo", "spawned"} /\ answer'[a] = answer[a]
          \/ pc'[a] = "rejected" /\ answer'[a] = "failed"
          \/ pc'[a] = pc[a] /\ answer'[a] = answer[a]
      BY <1>0, <1>1, <2>3, <3>1 DEF Reject, Answered
    <3>3. QED
      BY <1>0, <1>1, <1>s, <2>3, <3>2, MatchesStart, MatchesStill
  <2>4. QED
    BY <2>2, <2>3 DEF RecordsMatch
<1>2. ASSUME NEW r \in Requests, StartForRequest(r) \/ WaitForStart(r)
      PROVE  RecordsMatch'
  <2>1. /\ pc[r] = "idle" /\ UNCHANGED <<inv, pending, answer>> /\ r \in Actors
        /\ \E to \in {"waiting", "fifo", "spawned"} : pc' = [pc EXCEPT ![r] = to]
    BY <1>0, <1>2 DEF StartForRequest, WaitForStart, Arrive, BeginStart
  <2>2. QED
    BY <1>1, <2>1
<1>3. ASSUME NEW r \in Requests, SendAtOnce(r) \/ WaitOver(r)
      PROVE  RecordsMatch'
  <2>1. CASE Send(r)
    BY <1>3, <1>s, <2>1, MatchesSend DEF SendAtOnce, WaitOver, Arrive, RecordsMatch
  <2>2. CASE ~Send(r)
    <3>1. pc[r] = "waiting" /\ Reject(r) /\ UNCHANGED <<inv, pending>> /\ r \in Actors
      BY <1>0, <1>3, <2>2 DEF SendAtOnce, WaitOver
    <3>2. QED
      BY <1>1, <3>1
  <2>3. QED
    BY <2>1, <2>2
<1>4. ASSUME NEW a \in Actors, Ready(a)
      PROVE  RecordsMatch'
  <2>1. CASE a \in Requests /\ Send(a)
    BY <1>4, <1>s, <2>1, MatchesSend DEF Ready, RecordsMatch
  <2>2. CASE ~(a \in Requests /\ Send(a))
    <3>1. pc[a] = "spawned" /\ Reject(a) /\ UNCHANGED <<inv, pending>>
      BY <1>4, <2>2 DEF Ready
    <3>2. QED
      BY <1>1, <3>1
  <2>3. QED
    BY <2>1, <2>2
<1>5. ASSUME NEW a \in Actors, Spawn(a)
      PROVE  RecordsMatch'
  <2>1. /\ pc[a] = "fifo" /\ UNCHANGED <<inv, pending, answer>>
        /\ pc' = pc \/ pc' = [pc EXCEPT ![a] = "spawned"]
    BY <1>5 DEF Spawn
  <2>2. QED
    BY <1>1, <2>1
<1>6. ASSUME NEW r \in Requests, StopGivesUp(r)
      PROVE  RecordsMatch'
  BY <1>6, MatchesAfterStop DEF StopGivesUp, stores
<1>7. ASSUME NEW p \in Starts, StoppedExit(p)
      PROVE  RecordsMatch'
  <2>1. UNCHANGED <<pending, inv, session>>
    BY <1>7 DEF StoppedExit, stores
  <2>2. CASE UNCHANGED <<pc, answer>>
    BY <1>0, <2>1, <2>2, MatchesStill DEF RecordsMatch
  <2>3. QED
    BY <1>7, <2>1, <2>2, MatchesAfterStop DEF StoppedExit
<1>8. CASE CancelStep \/ \E p \in Starts : OwnExit(p)
  <2>1. UNCHANGED <<pc, pending, inv, answer>>
    BY <1>8 DEF CancelStep, Cancel, CancelSession, OwnExit, calls
  <2>2. QED
    BY <1>0, <1>s, <2>1, MatchesStill DEF RecordsMatch
<1>9. ASSUME NEW r \in Requests, HandlerEnds(r)
      PROVE  RecordsMatch'
  <2>1. Matches(r)'
    BY <1>9, <1>s, MatchesEnds
  <2>2. \A q \in Requests \ {r} : Matches(q)'
    BY <1>0, <1>9, <1>s, OthersEnd, MatchesStill
  <2>3. QED
    BY <2>1, <2>2 DEF RecordsMatch
<1>10. ASSUME NEW p \in Starts, PiOutput(p)
       PROVE  RecordsMatch'
  BY <1>10, <1>s, MatchesOutput DEF RecordsMatch
<1>11. ASSUME NEW r \in Requests, RestartForModel(r)
       PROVE  RecordsMatch'
  BY <1>11, MatchesRestart DEF RecordsMatch
<1>12. QED
  BY <1>2, <1>3, <1>4, <1>5, <1>6, <1>7, <1>8, <1>9, <1>10, <1>11, StepKinds DEF Arrival

LEMMA BridgeInvInit == Init => TypeInv /\ BridgeInv
<1> SUFFICES ASSUME Init PROVE TypeInv /\ BridgeInv
  OBVIOUS
<1>0. \A a \in Actors : Starting(a) <=> a = Boot
  BY DEF Init, Starting
<1>1. OneStarts
  BY <1>0, RequestsAssumption, ActorsDiffer DEF Init, OneStarts, Starting
<1>2. OneProcess
  BY DEF Init, OneProcess
<1>3. RecordsMatch
  BY ActorsDiffer DEF Init, RecordsMatch, Matches, NoRecord
<1>4. QED
  BY <1>1, <1>2, <1>3, TypeInvInit DEF BridgeInv

LEMMA BridgeInvNext ==
  ASSUME TypeInv, BridgeInv, [Next]_vars
  PROVE  BridgeInv'
<1>1. CASE Next
  BY <1>1, OneStartsNext, OneProcessNext, RecordsMatchNext DEF BridgeInv
<1>2. CASE UNCHANGED vars
  BY <1>2 DEF vars, bridge, pis, calls, stores, history, BridgeInv, OneStarts, OneProcess, RecordsMatch,
     Matches, Starting, ConfigChanged
<1>3. QED
  BY <1>1, <1>2

\* A request that finds Pi running, or starts it, gets a Pi of its model: whoever arrives, restarts
\* or exits between the start and the prompt, no other start of Pi begins.
THEOREM RequestedModelServes == Spec => []ServedByRequestedModel
<1>1. BridgeInv => ServedByRequestedModel
  BY DEF BridgeInv, OneStarts, ServedByRequestedModel
<1>2. QED
  BY <1>1, BridgeInvInit, BridgeInvNext, TypeInvNext, PTL DEF Spec

\* While no start of Pi overlaps an older process (stopPi gives up after eight seconds), the bridge
\* knows every Pi that runs, or has told it to stop.
THEOREM ProcessesAreKnown == Spec => []NoStrayProcess
<1>1. BridgeInv => NoStrayProcess
  BY DEF BridgeInv, OneProcess, NoStrayProcess
<1>2. QED
  BY <1>1, BridgeInvInit, BridgeInvNext, TypeInvNext, PTL DEF Spec

\* A handler that returns takes its invocation out of the table, and nothing puts it back.
THEOREM EndedHandlersLeave == Spec => []OnlyUnacceptedLeak
<1>1. BridgeInv => OnlyUnacceptedLeak
  BY DEF BridgeInv, RecordsMatch, Matches, OnlyUnacceptedLeak, table, NoRecord
<1>2. QED
  BY <1>1, BridgeInvInit, BridgeInvNext, TypeInvNext, PTL DEF Spec

-----------------------------------------------------------------------------
(* Requests made one after the other.                                      *)

\* No handler comes back to its beginning, and no history is forgotten.
LEMMA NothingReturns ==
  ASSUME TypeInv, Next
  PROVE  /\ serial' => serial
         /\ \A a \in Actors : /\ pc'[a] = "idle" => pc[a] = "idle"
                              /\ pc[a] \in Beyond => pc'[a] \in Beyond
<1>0. pc \in [Actors -> PCs] /\ Requests \subseteq Actors
  BY TypeParts, ActorsDiffer DEF HandlersTyped
<1> DEFINE P == /\ serial' => serial
                /\ \A a \in Actors : /\ pc'[a] = "idle" => pc[a] = "idle"
                                     /\ pc[a] \in Beyond => pc'[a] \in Beyond
<1>1. ASSUME NEW r \in Requests, RestartForModel(r) \/ StartForRequest(r) \/ WaitForStart(r)
      PROVE  P
  BY <1>0, <1>1 DEF RestartForModel, StartForRequest, WaitForStart, Arrive, BeginStart, Beyond
<1>2. CASE \/ \E r \in Requests : WaitOver(r) \/ HandlerEnds(r)
           \/ \E p \in Starts : PiOutput(p)
           \/ CancelStep
  BY <1>2, SentStaySent, QuietSteps DEF Beyond, history
<1>3. ASSUME NEW r \in Requests, SendAtOnce(r)
      PROVE  P
  BY <1>3, SentStaySent DEF SendAtOnce, Arrive, Beyond
<1>4. ASSUME NEW a \in Actors, Ready(a)
      PROVE  P
  BY <1>4, SentStaySent DEF Ready, Beyond
<1>5. ASSUME NEW a \in Actors, Spawn(a)
      PROVE  P
  <2>1. serial' = serial /\ pc[a] = "fifo" /\ (pc' = pc \/ pc' = [pc EXCEPT ![a] = "spawned"])
    BY <1>5 DEF Spawn, history
  <2>2. QED
    BY <1>0, <2>1 DEF Beyond
<1>6. ASSUME NEW r \in Requests, NEW older, pc[r] = "stopping", StartAfterStop(r, older), serial' = serial
      PROVE  P
  <2>1. pc' = [pc EXCEPT ![r] = "rejected"] \/ pc' = [pc EXCEPT ![r] = "fifo"]
    BY <1>6 DEF StartAfterStop, Reject, BeginStart
  <2>2. QED
    BY <1>0, <1>6, <2>1 DEF Beyond
<1>7. ASSUME NEW r \in Requests, StopGivesUp(r)
      PROVE  P
  BY <1>6, <1>7 DEF StopGivesUp
<1>8. ASSUME NEW p \in Starts, StoppedExit(p) \/ OwnExit(p)
      PROVE  P
  <2>1. CASE pc' = pc
    BY <1>8, <2>1 DEF StoppedExit, OwnExit, history
  <2>2. QED
    BY <1>6, <1>8, <2>1 DEF StoppedExit, OwnExit, calls
<1>9. QED
  BY <1>1, <1>2, <1>3, <1>4, <1>5, <1>7, <1>8, StepKinds DEF Arrival

\* The handlers and records that a step reaches.  Nothing answers a request twice, an ended handler
\* has left the table, and only the end of a prompt makes an invocation complete.
LEMMA CompleteFrom ==
  ASSUME TypeInv, RecordsMatch, Next, ~\E p \in Starts : AgentEnd(p), NEW q \in Requests, Complete(q)'
  PROVE  Complete(q)
<1>0. /\ inv \in [Requests -> Invocation] /\ answer \in [Requests -> Answers] /\ inv[q] \in Invocation
      /\ Matches(q)
  BY TypeParts DEF CallsTyped, RecordsMatch
<1>1. CASE inv' = inv /\ answer' = answer
  BY <1>1 DEF Complete
<1>2. ASSUME NEW S, answer' = answer \/ answer' = Answered(S, "failed")
      PROVE  answer'[q] = "ok" => answer[q] = "ok"
  BY <1>0, <1>2 DEF Answered
<1>3. ASSUME inv'[q].done => inv[q].done \/ inv'[q].err # "none", inv'[q].err = "none" => inv[q].err = "none",
             answer'[q] = "ok" => answer[q] = "ok"
      PROVE  Complete(q)
  BY <1>3 DEF Complete
<1>4. ASSUME NEW r \in Requests, RestartForModel(r)
      PROVE  Complete(q)
  <2>1. inv'[q] = (IF inv[q].listed THEN Dropped(q) ELSE inv[q]) /\ \E S : answer' = Answered(S, "failed")
    BY <1>4 DEF RestartForModel, table
  <2>2. CASE inv[q].listed /\ Over(q)
    BY <1>2, <2>1, <2>2 DEF Dropped, NoRecord, Complete
  <2>3. CASE inv[q].listed /\ ~Over(q)
    <3>1. inv'[q].err = "restart"
      BY <1>0, <2>1, <2>3 DEF Dropped, Invocation
    <3>2. QED
      BY <1>2, <2>1, <3>1 DEF Complete
  <2>4. CASE ~inv[q].listed
    BY <1>2, <1>3, <2>1, <2>4
  <2>5. QED
    BY <2>2, <2>3, <2>4
<1>5. ASSUME NEW r \in Requests, Send(r)
      PROVE  Complete(q)
  <2>1. PICK b \in BOOLEAN : inv' = [inv EXCEPT ![r].listed = TRUE, ![r].armed = b]
    BY <1>5, SendListed
  <2>2. inv'[q].done = inv[q].done /\ inv'[q].err = inv[q].err
    BY <1>0, <2>1 DEF Invocation
  <2>3. QED
    BY <1>2, <1>3, <1>5, <2>2, SendEffect
<1>6. ASSUME NEW a \in Actors, Reject(a), inv' = inv
      PROVE  Complete(q)
  BY <1>2, <1>3, <1>6 DEF Reject
<1>7. ASSUME NEW r \in Requests, NEW older, StartAfterStop(r, older), inv' = inv
      PROVE  Complete(q)
  BY <1>1, <1>6, <1>7, ActorsDiffer DEF StartAfterStop
<1>8. ASSUME NEW r \in Requests, SendAtOnce(r) \/ WaitOver(r) \/ StopGivesUp(r) \/ StartForRequest(r) \/ WaitForStart(r)
      PROVE  Complete(q)
  BY <1>1, <1>5, <1>6, <1>7, <1>8, ActorsDiffer DEF SendAtOnce, WaitOver, StopGivesUp, StartForRequest, WaitForStart
<1>9. ASSUME NEW a \in Actors, Spawn(a) \/ Ready(a)
      PROVE  Complete(q)
  BY <1>1, <1>5, <1>6, <1>9 DEF Spawn, Ready
<1>10. ASSUME NEW p \in Starts, StoppedExit(p) \/ OwnExit(p)
       PROVE  Complete(q)
  BY <1>1, <1>7, <1>10 DEF StoppedExit, OwnExit, calls
<1>11. CASE CancelStep
  BY <1>1, <1>11 DEF CancelStep, Cancel, CancelSession, calls
<1>12. ASSUME NEW status, NEW error, error # "none", EndTable(status, error),
              NEW S, answer' = Answered(S, "failed")
       PROVE  Complete(q)
  <2>1. inv'[q] = inv[q] \/ inv'[q].err # "none"
    BY <1>0, <1>12 DEF EndTable, Invocation
  <2>2. QED
    BY <1>2, <1>12, <2>1 DEF Complete
<1>13. ASSUME NEW p \in Starts, PiOutput(p)
       PROVE  Complete(q)
  <2>1. ASSUME NEW r \in Requests, Accept(p, r) \/ Refuse(p, r)
        PROVE  Complete(q)
    BY <1>1, <1>12, <2>1 DEF Accept, Refuse
  <2>2. CASE PiError(p)
    BY <1>12, <2>2 DEF PiError
  <2>3. ASSUME NEW replace \in BOOLEAN, Text(p, replace)
        PROVE  Complete(q)
    <3>1. answer' = answer /\ inv'[q].done = inv[q].done /\ inv'[q].err = inv[q].err
      BY <1>0, <2>3 DEF Text, Invocation
    <3>2. QED
      BY <1>3, <3>1
  <2>4. QED
    BY <1>13, <2>1, <2>2, <2>3 DEF PiOutput, Delta, MessageEnd
<1>14. ASSUME NEW r \in Requests, HandlerEnds(r)
       PROVE  Complete(q)
  <2>1. CASE q # r
    BY <1>3, <1>14, <2>1, OthersEnd
  <2>2. CASE q = r /\ (AckTimeout(r) \/ PollTimeout(r))
    BY <1>1, <1>6, <2>2, ActorsDiffer DEF AckTimeout, PollTimeout
  <2>3. ASSUME Leaves(r, "failed"), q = r
        PROVE  Complete(q)
    BY <1>2, <2>3 DEF Leaves, Complete, NoRecord
  <2>4. CASE q = r /\ Finish(r)
    BY <2>3, <2>4 DEF Finish, Complete
  <2>5. CASE q = r /\ (AbortOver(r) \/ Keepalive(r))
    BY <2>3, <2>5 DEF AbortOver, Keepalive
  <2>6. CASE q = r /\ ClientLeaves(r)
    <3>1. answer' = answer /\ (inv'[r] = NoRecord \/ (inv'[r].done = inv[r].done /\ inv'[r].err = inv[r].err))
      BY <1>0, <2>6 DEF ClientLeaves, Invocation
    <3>2. QED
      BY <1>3, <2>6, <3>1 DEF NoRecord, Complete
  <2>7. CASE q = r /\ ModelTimer(r)
    <3>1. \/ answer' = Answered({r}, "failed") /\ inv'[r].err = "timeout"
          \/ answer' = answer /\ inv'[r].done = inv[r].done /\ inv'[r].err = inv[r].err
      BY <1>0, <2>7 DEF ModelTimer, Invocation
    <3>2. QED
      BY <1>2, <2>7, <3>1 DEF Complete
  <2>8. QED
    BY <1>14, <2>1, <2>2, <2>4, <2>5, <2>6, <2>7 DEF HandlerEnds
<1>15. QED
  BY <1>4, <1>8, <1>9, <1>10, <1>11, <1>13, <1>14, StepKinds DEF Arrival

\* A request that has had its good answer keeps it.
LEMMA GoodStays ==
  ASSUME TypeInv, RecordsMatch, Next, NEW q \in Requests, Good(q)
  PROVE  Good(q)'
<1>0. /\ pc \in [Actors -> PCs] /\ answer \in [Requests -> Answers] /\ Requests \subseteq Actors
      /\ pc[q] = "ended" /\ answer[q] = "ok" /\ q \notin pending /\ q \in Actors /\ ~inv[q].listed
  BY TypeParts, ActorsDiffer DEF HandlersTyped, CallsTyped, RecordsMatch, Matches, Good, NoRecord
<1>1. ASSUME pc' = pc \/ \E a \in Actors : \E to : pc[a] # "ended" /\ pc' = [pc EXCEPT ![a] = to],
             answer' = answer \/ \E S, how : answer' = Answered(S, how)
      PROVE  Good(q)'
  BY <1>0, <1>1 DEF Answered, Good
<1>2. ASSUME NEW r \in Requests, RestartForModel(r)
      PROVE  Good(q)'
  BY <1>0, <1>2 DEF RestartForModel, Arrive, Answered, Good
<1>3. ASSUME NEW a \in Actors, Reject(a), pc[a] # "ended"
      PROVE  Good(q)'
  BY <1>1, <1>3 DEF Reject
<1>4. ASSUME NEW r \in Requests, Send(r), pc[r] # "ended"
      PROVE  Good(q)'
  BY <1>1, <1>4, ActorsDiffer, SendEffect, ZenonT(60)
<1>5. ASSUME NEW r \in Requests, NEW older, StartAfterStop(r, older), pc[r] # "ended"
      PROVE  Good(q)'
  BY <1>1, <1>3, <1>5, ActorsDiffer DEF StartAfterStop, BeginStart
<1>6. ASSUME NEW r \in Requests, WaitForStart(r) \/ StartForRequest(r) \/ StopGivesUp(r)
      PROVE  Good(q)'
  BY <1>1, <1>5, <1>6, ActorsDiffer DEF WaitForStart, StartForRequest, StopGivesUp, Arrive, BeginStart
<1>7. ASSUME NEW r \in Requests, SendAtOnce(r) \/ WaitOver(r)
      PROVE  Good(q)'
  BY <1>3, <1>4, <1>7, ActorsDiffer DEF SendAtOnce, WaitOver, Arrive
<1>8. ASSUME NEW a \in Actors, Spawn(a) \/ Ready(a)
      PROVE  Good(q)'
  BY <1>1, <1>3, <1>4, <1>8 DEF Spawn, Ready
<1>9. ASSUME NEW p \in Starts, StoppedExit(p) \/ OwnExit(p)
      PROVE  Good(q)'
  BY <1>1, <1>5, <1>9 DEF StoppedExit, OwnExit, calls
<1>10. CASE CancelStep
  BY <1>1, <1>10 DEF CancelStep, Cancel, CancelSession, calls
<1>11. ASSUME NEW p \in Starts, PiOutput(p)
       PROVE  Good(q)'
  <2>1. pc'[q] = pc[q]
    BY <1>0, <1>11 DEF PiOutput, Accept, Refuse, Delta, MessageEnd, Text, AgentEnd, PiError
  <2>2. answer'[q] = answer[q]
    BY <1>0, <1>11 DEF PiOutput, Accept, Refuse, Delta, MessageEnd, Text, AgentEnd, PiError, Answered
  <2>3. QED
    BY <1>0, <2>1, <2>2 DEF Good
<1>12. ASSUME NEW r \in Requests, HandlerEnds(r)
       PROVE  Good(q)'
  <2>1. CASE q # r
    BY <1>0, <1>12, <2>1, OthersEnd DEF Good
  <2>2. CASE q = r
    <3>1. ~inv[r].armed
      BY <1>0, <2>2 DEF RecordsMatch, Matches
    <3>2. FALSE
      BY <1>0, <1>12, <2>2, <3>1 DEF HandlerEnds, AckTimeout, Finish, PollTimeout, AbortOver, ModelTimer,
         Keepalive, ClientLeaves, table
    <3>3. QED
      BY <3>2
  <2>3. QED
    BY <2>1, <2>2
<1>13. QED
  BY <1>2, <1>6, <1>7, <1>8, <1>9, <1>10, <1>11, <1>12, StepKinds DEF Arrival

\* A good answer is that to an invocation that was complete.
LEMMA GoodFrom ==
  ASSUME TypeInv, RecordsMatch, Next, NEW q \in Requests, Good(q)'
  PROVE  Good(q) \/ (Complete(q) /\ pc[q] # "ended")
<1>0. answer \in [Requests -> Answers] /\ Matches(q)
  BY TypeParts DEF CallsTyped, RecordsMatch
<1>1. CASE \E p \in Starts : AgentEnd(p)
  <2>1. pc[q] = "ended"
    BY <1>1 DEF AgentEnd, Good
  <2>2. ~inv[q].listed
    BY <1>0, <2>1 DEF Matches, NoRecord
  <2>3. answer'[q] = answer[q]
    BY <1>0, <1>1, <2>2 DEF AgentEnd, table
  <2>4. QED
    BY <2>1, <2>3 DEF Good
<1>2. CASE ~\E p \in Starts : AgentEnd(p)
  <2>1. Complete(q)
    BY <1>2, CompleteFrom DEF Good, Complete
  <2>2. QED
    BY <1>0, <2>1 DEF Matches, Complete, Good, NoRecord
<1>3. QED
  BY <1>1, <1>2

\* What a step does to the pipes of Pi: a prompt is written to the newest, one that has prompts
\* takes, ends or loses them.
LEMMA PipesMove ==
  ASSUME TypeInv, Next
  PROVE  \/ UNCHANGED <<pipe, running>>
         \/ \E r \in Requests :
              /\ Send(r) /\ pc[r] \in {"idle", "waiting", "spawned"} /\ pc' = [pc EXCEPT ![r] = "sent"]
              /\ answer' = answer
              /\ pipe' = [pipe EXCEPT ![startCount] = Append(@, r)]
              /\ running' = running /\ startCount' = startCount
         \/ \E p \in Starts :
              /\ pipe[p] # <<>> /\ startCount' = startCount
              /\ pipe' = [pipe EXCEPT ![p] = Tail(@)]
              /\ running' = running \/ running' = [running EXCEPT ![p] = Append(@, Head(pipe[p]))]
         \/ /\ running[startCount] # <<>> /\ startCount' = startCount
            /\ pipe' = pipe /\ running' = [running EXCEPT ![startCount] = Tail(@)]
         \/ \E p \in Starts :
              pipe' = [pipe EXCEPT ![p] = <<>>] /\ running' = [running EXCEPT ![p] = <<>>]
<1> DEFINE Written == \E r \in Requests :
              /\ Send(r) /\ pc[r] \in {"idle", "waiting", "spawned"} /\ pc' = [pc EXCEPT ![r] = "sent"]
              /\ answer' = answer
              /\ pipe' = [pipe EXCEPT ![startCount] = Append(@, r)]
              /\ running' = running /\ startCount' = startCount
<1>1. ASSUME NEW r \in Requests, Send(r), pc[r] \in {"idle", "waiting", "spawned"},
             running' = running, startCount' = startCount
      PROVE  UNCHANGED <<pipe, running>> \/ Written
  BY <1>1, SendEffect
<1>2. ASSUME NEW r \in Requests, Arrival(r) \/ WaitOver(r)
      PROVE  UNCHANGED <<pipe, running>> \/ Written
  <2>1. CASE SendAtOnce(r)
    BY <1>1, <2>1 DEF SendAtOnce, Arrive, bridge
  <2>2. CASE WaitOver(r)
    BY <1>1, <2>2 DEF WaitOver, bridge
  <2>3. CASE RestartForModel(r) \/ StartForRequest(r) \/ WaitForStart(r)
    BY <2>3 DEF RestartForModel, StartForRequest, WaitForStart, pis
  <2>4. QED
    BY <1>2, <2>1, <2>2, <2>3 DEF Arrival
<1>3. ASSUME NEW a \in Actors, Spawn(a) \/ Ready(a)
      PROVE  UNCHANGED <<pipe, running>> \/ Written
  <2>1. CASE Spawn(a)
    BY <2>1 DEF Spawn
  <2>2. CASE Ready(a)
    BY <1>1, <2>2, SMTT(40) DEF Ready
  <2>3. QED
    BY <1>3, <2>1, <2>2
<1>4. CASE CancelStep \/ \E r \in Requests : HandlerEnds(r) \/ StopGivesUp(r)
  BY <1>4 DEF CancelStep, Cancel, CancelSession, HandlerEnds, AckTimeout, Finish, PollTimeout, AbortOver,
     ModelTimer, Keepalive, ClientLeaves, StopGivesUp, pis
<1>5. ASSUME NEW p \in Starts, StoppedExit(p) \/ OwnExit(p)
      PROVE  pipe' = [pipe EXCEPT ![p] = <<>>] /\ running' = [running EXCEPT ![p] = <<>>]
  BY <1>5 DEF StoppedExit, OwnExit, Exits
<1>6. ASSUME NEW p \in Starts, NEW r \in Requests, Accept(p, r) \/ Refuse(p, r)
      PROVE  /\ pipe[p] # <<>> /\ startCount' = startCount
             /\ pipe' = [pipe EXCEPT ![p] = Tail(@)]
             /\ running' = running \/ running' = [running EXCEPT ![p] = Append(@, Head(pipe[p]))]
  BY <1>6 DEF Accept, Refuse, Takes, bridge
<1>7. ASSUME NEW p \in Starts, AgentEnd(p) \/ PiError(p)
      PROVE  /\ running[startCount] # <<>> /\ startCount' = startCount
             /\ pipe' = pipe /\ running' = [running EXCEPT ![startCount] = Tail(@)]
  BY <1>7 DEF AgentEnd, PiError, Finishes, Speaks, Heard, bridge
<1>8. ASSUME NEW p \in Starts, Delta(p) \/ MessageEnd(p)
      PROVE  UNCHANGED <<pipe, running>>
  BY <1>8 DEF Delta, MessageEnd, Text, pis
<1>9. QED
  BY <1>2, <1>3, <1>4, <1>5, <1>6, <1>7, <1>8, StepKinds DEF PiOutput

\* Starts are numbered upwards; a new one begins with the empty pipe of its number.
LEMMA CountMoves ==
  ASSUME TypeInv, Next
  PROVE  startCount' = startCount \/ (startCount' = startCount + 1 /\ startCount + 1 \in Starts)
<1>1. ASSUME NEW r \in Requests, NEW model, NEW older, BeginStart(r, model, older), MayStart(r)
      PROVE  startCount' = startCount + 1 /\ startCount + 1 \in Starts
  BY <1>1, RoomToStart DEF BeginStart
<1>2. ASSUME NEW r \in Requests, NEW older, pc[r] = "stopping", StartAfterStop(r, older)
      PROVE  startCount' = startCount \/ (startCount' = startCount + 1 /\ startCount + 1 \in Starts)
  BY <1>1, <1>2 DEF StartAfterStop, MayStart
<1>3. ASSUME NEW r \in Requests, Arrival(r) \/ StopGivesUp(r)
      PROVE  startCount' = startCount \/ (startCount' = startCount + 1 /\ startCount + 1 \in Starts)
  <2>1. CASE StartForRequest(r)
    BY <1>1, <2>1 DEF StartForRequest, Arrive, MayStart
  <2>2. CASE StopGivesUp(r)
    BY <1>2, <2>2 DEF StopGivesUp
  <2>3. CASE RestartForModel(r) \/ WaitForStart(r) \/ SendAtOnce(r)
    BY <2>3 DEF RestartForModel, WaitForStart, SendAtOnce, bridge
  <2>4. QED
    BY <1>3, <2>1, <2>2, <2>3 DEF Arrival
<1>4. ASSUME NEW a \in Actors, Spawn(a) \/ Ready(a)
      PROVE  startCount' = startCount
  BY <1>4 DEF Spawn, Ready
<1>5. ASSUME NEW p \in Starts, StoppedExit(p) \/ OwnExit(p)
      PROVE  startCount' = startCount \/ (startCount' = startCount + 1 /\ startCount + 1 \in Starts)
  BY <1>2, <1>5 DEF StoppedExit, OwnExit
<1>6. CASE \/ \E r \in Requests : WaitOver(r) \/ HandlerEnds(r)
           \/ \E p \in Starts : PiOutput(p)
           \/ CancelStep
  BY <1>6, QuietSteps DEF bridge
<1>7. QED
  BY <1>3, <1>4, <1>5, <1>6, StepKinds

LEMMA LaterPipesNext ==
  ASSUME TypeInv, LaterPipesEmpty, Next
  PROVE  LaterPipesEmpty'
<1>0. /\ pipe \in [Starts -> Seq(Requests)] /\ running \in [Starts -> Seq(Requests)]
      /\ startCount \in Starts /\ Starts \subseteq Nat
  BY TypeParts, StartsAreNumbers DEF PipesTyped, PiTyped
<1> SUFFICES ASSUME NEW s \in Starts, s > startCount'
             PROVE  pipe'[s] = <<>> /\ running'[s] = <<>>
  BY DEF LaterPipesEmpty
<1>1. s > startCount /\ s # startCount /\ pipe[s] = <<>> /\ running[s] = <<>>
  BY <1>0, CountMoves DEF LaterPipesEmpty
<1>2. QED
  BY <1>0, <1>1, PipesMove

LEMMA NewStartIsQuiet ==
  ASSUME TypeInv, LaterPipesEmpty, Next, startCount' # startCount
  PROVE  Quiet'
<1>0. /\ pipe \in [Starts -> Seq(Requests)] /\ running \in [Starts -> Seq(Requests)]
      /\ startCount \in Starts /\ Starts \subseteq Nat
  BY TypeParts, StartsAreNumbers DEF PipesTyped, PiTyped
<1>1. /\ startCount' = startCount + 1 /\ startCount' \in Starts
      /\ pipe[startCount'] = <<>> /\ running[startCount'] = <<>>
  BY <1>0, CountMoves DEF LaterPipesEmpty
<1>2. pipe'[startCount'] = <<>> /\ running'[startCount'] = <<>>
  BY <1>0, <1>1, PipesMove
<1>3. QED
  BY <1>2 DEF Quiet

\* The request that arrives is alone, but for those that have had their good answer.
LEMMA ArrivalAlone ==
  ASSUME TypeInv, RecordsMatch, Unmixed, NEW r \in Requests, Arrival(r), serial'
  PROVE  \A q \in Requests \ {r} : pc'[q] = pc[q] /\ (pc[q] = "idle" \/ Good(q))
<1>0. /\ pc \in [Actors -> PCs] /\ answer \in [Requests -> Answers] /\ Requests \subseteq Actors
  BY TypeParts, ActorsDiffer DEF HandlersTyped, CallsTyped
<1>1. Arrive(r)
  BY DEF Arrival, RestartForModel, StartForRequest, WaitForStart, SendAtOnce
<1>2. \A q \in Requests \ {r} : pc[q] = "idle" \/ Good(q)
  BY <1>1 DEF Arrive, Unmixed, Good
<1>3. \A q \in Requests \ {r} : q \notin pending
  BY <1>2 DEF RecordsMatch, Matches, Good
<1>4. CASE RestartForModel(r)
  BY <1>0, <1>2, <1>3, <1>4 DEF RestartForModel
<1>5. CASE StartForRequest(r) \/ WaitForStart(r)
  BY <1>0, <1>2, <1>5 DEF StartForRequest, WaitForStart, BeginStart
<1>6. CASE SendAtOnce(r)
  <2>1. \E to : pc' = [pc EXCEPT ![r] = to]
    BY <1>6, SendEffect DEF SendAtOnce
  <2>2. QED
    BY <1>0, <1>2, <2>1
<1>7. QED
  BY <1>4, <1>5, <1>6 DEF Arrival

LEMMA OneAtATimeNext ==
  ASSUME TypeInv, RecordsMatch, OneAtATime, Unmixed, Next, serial'
  PROVE  OneAtATime'
<1>0. Requests \subseteq Actors
  BY ActorsDiffer
<1> SUFFICES ASSUME NEW q \in Requests, NEW r \in Requests, q # r, pc'[q] # "idle", pc'[r] # "idle"
             PROVE  Good(q)' \/ Good(r)'
  BY DEF OneAtATime
<1>1. CASE pc[q] # "idle" /\ pc[r] # "idle"
  BY <1>1, GoodStays DEF OneAtATime
<1>2. ASSUME NEW u \in Requests, Arrival(u)
      PROVE  Good(q)' \/ Good(r)'
  BY <1>2, ArrivalAlone, GoodStays
<1>3. ASSUME \A u \in Requests : ~Arrival(u)
      PROVE  \A a \in Actors : pc[a] = "idle" => pc'[a] = "idle"
  <2>0. pc \in [Actors -> PCs]
    BY TypeParts DEF HandlersTyped
  <2>1. ASSUME NEW a \in Actors, pc[a] # "idle", NEW to, pc' = pc \/ pc' = [pc EXCEPT ![a] = to]
        PROVE  \A b \in Actors : pc[b] = "idle" => pc'[b] = "idle"
    BY <2>0, <2>1
  <2>2. ASSUME NEW u \in Requests, WaitOver(u) \/ StopGivesUp(u)
        PROVE  \A b \in Actors : pc[b] = "idle" => pc'[b] = "idle"
    <3>1. pc[u] # "idle" /\ \E to : pc' = [pc EXCEPT ![u] = to]
      BY <2>2, SendEffect DEF WaitOver, StopGivesUp, StartAfterStop, Reject, BeginStart
    <3>2. QED
      BY <1>0, <2>1, <3>1
  <2>3. ASSUME NEW u \in Requests, HandlerEnds(u)
        PROVE  \A b \in Actors : pc[b] = "idle" => pc'[b] = "idle"
    <3>1. CASE pc' = pc
      BY <3>1
    <3>2. CASE pc' # pc
      <4>1. (u \in pending \/ pc[u] # "idle") /\ \E to : pc' = [pc EXCEPT ![u] = to]
        BY <2>3, <3>2 DEF HandlerEnds, AckTimeout, Finish, PollTimeout, AbortOver, ModelTimer, Keepalive,
           ClientLeaves, Reject, Leaves
      <4>2. pc[u] # "idle"
        BY <4>1 DEF RecordsMatch, Matches
      <4>3. QED
        BY <1>0, <2>1, <4>1, <4>2
    <3>3. QED
      BY <3>1, <3>2
  <2>4. ASSUME NEW a \in Actors, Spawn(a) \/ Ready(a)
        PROVE  \A b \in Actors : pc[b] = "idle" => pc'[b] = "idle"
    <3>1. pc[a] # "idle" /\ (pc' = pc \/ \E to : pc' = [pc EXCEPT ![a] = to])
      BY <2>4, SendEffect DEF Spawn, Ready, Reject
    <3>2. QED
      BY <2>1, <3>1
  <2>5. ASSUME NEW p \in Starts, PiOutput(p)
        PROVE  \A b \in Actors : pc[b] = "idle" => pc'[b] = "idle"
    <3>1. CASE pc' = pc
      BY <3>1
    <3>2. CASE pc' # pc
      <4>1. PICK u \in Requests : u \in pending /\ \E to : pc' = [pc EXCEPT ![u] = to]
        BY <2>5, <3>2 DEF PiOutput, Accept, Refuse, Delta, MessageEnd, Text, AgentEnd, PiError
      <4>2. pc[u] # "idle"
        BY <4>1 DEF RecordsMatch, Matches
      <4>3. QED
        BY <1>0, <2>1, <4>1, <4>2
    <3>3. QED
      BY <3>1, <3>2
  <2>6. ASSUME NEW p \in Starts, StoppedExit(p) \/ OwnExit(p)
        PROVE  \A b \in Actors : pc[b] = "idle" => pc'[b] = "idle"
    <3>1. pc' = pc \/ \E u \in Requests : pc[u] = "stopping" /\ \E to : pc' = [pc EXCEPT ![u] = to]
      BY <2>6 DEF StoppedExit, OwnExit, calls, StartAfterStop, Reject, BeginStart
    <3>2. QED
      BY <1>0, <2>1, <3>1
  <2>7. CASE CancelStep
    BY <2>7 DEF CancelStep, Cancel, CancelSession, calls
  <2>8. QED
    BY <1>3, <2>2, <2>3, <2>4, <2>5, <2>6, <2>7, StepKinds
<1>4. QED
  BY <1>0, <1>1, <1>2, <1>3

\* The request whose prompt Pi works on does not have its good answer before the prompt is over.
LEMMA WorkGoesOn ==
  ASSUME TypeInv, RecordsMatch, NothingLeft, Next, NEW r \in Requests, WorksOn(r),
         pc[r] \in Beyond, ~Good(r)
  PROVE  pc'[r] \in Beyond /\ ~Good(r)'
<1>1. pc'[r] \in Beyond
  BY NothingReturns, ActorsDiffer
<1>2. ~Quiet
  <2>1. <<r>> # <<>>
    OBVIOUS
  <2>2. QED
    BY <2>1, Zenon DEF WorksOn, Quiet
<1>3. ~Good(r)'
  BY <1>2, GoodFrom DEF NothingLeft
<1>4. QED
  BY <1>1, <1>3

\* A request that writes its prompt finds the pipes of the newest Pi empty.
LEMMA WrittenAlone ==
  ASSUME TypeInv, OwnPrompts, OneAtATime', NEW r \in Requests, pc[r] \notin Beyond,
         pc' = [pc EXCEPT ![r] = "sent"], answer' = answer
  PROVE  Quiet
<1>0. pc \in [Actors -> PCs] /\ Requests \subseteq Actors
  BY TypeParts, ActorsDiffer DEF HandlersTyped
<1> SUFFICES ASSUME NEW q \in Requests, pc[q] \in Beyond, ~Good(q)
             PROVE  FALSE
  BY DEF OwnPrompts
<1>1. q # r /\ pc'[q] = pc[q] /\ pc'[q] # "idle" /\ pc'[r] = "sent"
  BY <1>0 DEF Beyond
<1>2. ~Good(q)' /\ ~Good(r)'
  BY <1>1 DEF Good
<1>3. QED
  BY <1>1, <1>2 DEF OneAtATime

LEMMA OwnPromptsNext ==
  ASSUME TypeInv, RecordsMatch, LaterPipesEmpty, OwnPrompts, NothingLeft, Next, OneAtATime'
  PROVE  OwnPrompts'
<1>0. /\ pipe \in [Starts -> Seq(Requests)] /\ running \in [Starts -> Seq(Requests)]
      /\ pc \in [Actors -> PCs] /\ Requests \subseteq Actors /\ startCount \in Starts
  BY TypeParts, ActorsDiffer DEF PipesTyped, PiTyped, HandlersTyped
<1>1. CASE startCount' # startCount
  BY <1>1, NewStartIsQuiet DEF OwnPrompts
<1>2. ASSUME startCount' = startCount, pipe'[startCount] = pipe[startCount],
             running'[startCount] = running[startCount]
      PROVE  OwnPrompts'
  <2>1. CASE Quiet
    BY <1>2, <2>1 DEF OwnPrompts, Quiet
  <2>2. ASSUME NEW r \in Requests, WorksOn(r), pc[r] \in Beyond, ~Good(r)
        PROVE  OwnPrompts'
    BY <1>2, <2>2, WorkGoesOn DEF OwnPrompts, WorksOn
  <2>3. QED
    BY <2>1, <2>2 DEF OwnPrompts
<1>3. ASSUME NEW r \in Requests, startCount' = startCount,
             pc[r] \in {"idle", "waiting", "spawned"}, pc' = [pc EXCEPT ![r] = "sent"], answer' = answer,
             pipe' = [pipe EXCEPT ![startCount] = Append(@, r)], running' = running
      PROVE  OwnPrompts'
  <2>1. Quiet
    BY <1>3, WrittenAlone DEF Beyond
  <2>2. pipe'[startCount'] = <<r>> /\ running'[startCount'] = <<>>
    BY <1>0, <1>3, <2>1 DEF Quiet
  <2>3. pc'[r] = "sent"
    BY <1>0, <1>3
  <2>4. QED
    BY <2>2, <2>3 DEF OwnPrompts, WorksOn, Good, Beyond
<1>4. ASSUME NEW p \in Starts, startCount' = startCount, pipe[p] # <<>>,
             pipe' = [pipe EXCEPT ![p] = Tail(@)],
             running' = running \/ running' = [running EXCEPT ![p] = Append(@, Head(pipe[p]))]
      PROVE  OwnPrompts'
  <2>1. CASE p # startCount
    BY <1>0, <1>2, <1>4, <2>1
  <2>2. CASE p = startCount
    <3>1. PICK r \in Requests : WorksOn(r) /\ pc[r] \in Beyond /\ ~Good(r)
      BY <1>4, <2>2 DEF OwnPrompts, Quiet
    <3>2. pipe[startCount] = <<r>> /\ running[startCount] = <<>>
      BY <1>4, <2>2, <3>1 DEF WorksOn
    <3>3. pipe'[startCount] = <<>>
      BY <1>0, <1>4, <2>2, <3>2
    <3>4. running'[startCount] = <<>> \/ running'[startCount] = <<r>>
      BY <1>0, <1>4, <2>2, <3>2
    <3>5. pc'[r] \in Beyond /\ ~Good(r)'
      BY <3>1, WorkGoesOn
    <3>6. QED
      BY <1>4, <3>3, <3>4, <3>5 DEF OwnPrompts, WorksOn, Quiet
  <2>3. QED
    BY <2>1, <2>2
<1>5. ASSUME startCount' = startCount, running[startCount] # <<>>, pipe' = pipe,
             running' = [running EXCEPT ![startCount] = Tail(@)]
      PROVE  OwnPrompts'
  <2>1. PICK r \in Requests : WorksOn(r)
    BY <1>5 DEF OwnPrompts, Quiet
  <2>2. pipe[startCount] = <<>> /\ running[startCount] = <<r>>
    BY <1>5, <2>1 DEF WorksOn
  <2>3. Quiet'
    BY <1>0, <1>5, <2>2 DEF Quiet
  <2>4. QED
    BY <2>3 DEF OwnPrompts
<1>6. ASSUME NEW p \in Starts, startCount' = startCount,
             pipe' = [pipe EXCEPT ![p] = <<>>], running' = [running EXCEPT ![p] = <<>>]
      PROVE  OwnPrompts'
  <2>1. CASE p = startCount
    BY <1>0, <1>6, <2>1 DEF OwnPrompts, Quiet
  <2>2. CASE p # startCount
    BY <1>0, <1>2, <1>6, <2>2
  <2>3. QED
    BY <2>1, <2>2
<1>7. QED
  BY <1>1, <1>2, <1>3, <1>4, <1>5, <1>6, PipesMove

\* An invocation that is complete and not over is that of the request at work.
LEMMA CompleteIsSent ==
  ASSUME RecordsMatch, NEW r \in Requests, Complete(r), pc[r] # "ended"
  PROVE  pc[r] \notin {"idle", "waiting", "stopping", "fifo", "spawned"} /\ ~Good(r)
  BY DEF RecordsMatch, Matches, Complete, NoRecord, Good

LEMMA NothingLeftNext ==
  ASSUME TypeInv, RecordsMatch, LaterPipesEmpty, OwnPrompts, NothingLeft, Next, OneAtATime'
  PROVE  NothingLeft'
<1>0. /\ pipe \in [Starts -> Seq(Requests)] /\ running \in [Starts -> Seq(Requests)]
      /\ pc \in [Actors -> PCs] /\ Requests \subseteq Actors /\ startCount \in Starts
  BY TypeParts, ActorsDiffer DEF PipesTyped, PiTyped, HandlersTyped
<1> SUFFICES ASSUME NEW r \in Requests, Complete(r)', pc'[r] # "ended"
             PROVE  Quiet'
  BY DEF NothingLeft
<1>1. CASE startCount' # startCount
  BY <1>1, NewStartIsQuiet
<1>2. ASSUME NEW p \in Starts, AgentEnd(p)
      PROVE  Quiet'
  <2>1. /\ running[startCount] # <<>> /\ startCount' = startCount /\ pipe' = pipe
        /\ running' = [running EXCEPT ![startCount] = Tail(@)]
    BY <1>2 DEF AgentEnd, Finishes, Speaks, Heard, bridge
  <2>2. PICK q \in Requests : pipe[startCount] = <<>> /\ running[startCount] = <<q>>
    BY <2>1 DEF OwnPrompts, Quiet, WorksOn
  <2>3. QED
    BY <1>0, <2>1, <2>2 DEF Quiet
<1>3. ASSUME startCount' = startCount, ~\E p \in Starts : AgentEnd(p)
      PROVE  Quiet'
  <2>1. Complete(r)
    BY <1>3, CompleteFrom
  <2>2. pc[r] # "ended"
    <3>1. pc[r] = "ended" => Good(r)
      BY <2>1 DEF RecordsMatch, Matches, Complete, NoRecord, Good
    <3>2. QED
      BY <3>1, GoodStays DEF Good
  <2>3. Quiet
    BY <2>1, <2>2 DEF NothingLeft
  <2>4. pc[r] \notin {"idle", "waiting", "spawned"}
    BY <2>1, <2>2, CompleteIsSent
  <2>5. ASSUME NEW u \in Requests, pc[u] \in {"idle", "waiting", "spawned"},
               pc' = [pc EXCEPT ![u] = "sent"]
        PROVE  FALSE
    <3>1. u # r /\ pc'[u] = "sent" /\ pc'[r] # "idle"
      BY <1>0, <2>4, <2>5
    <3>2. ~Good(u)' /\ ~Good(r)'
      BY <3>1 DEF Good
    <3>3. QED
      BY <3>1, <3>2 DEF OneAtATime
  <2>6. pipe'[startCount] = <<>> /\ running'[startCount] = <<>>
    BY <1>0, <1>3, <2>3, <2>5, PipesMove DEF Quiet
  <2>7. QED
    BY <1>3, <2>6 DEF Quiet
<1>4. QED
  BY <1>1, <1>2, <1>3

\* Text reaches the invocation of another request only when it is written to several: one at a time
\* none is mixed, and so is no answer.
LEMMA UnmixedNext ==
  ASSUME TypeInv, RecordsMatch, OneAtATime, OwnPrompts, Unmixed, Next
  PROVE  Unmixed'
<1>0. /\ inv \in [Requests -> Invocation] /\ answer \in [Requests -> Answers]
      /\ \A q \in Requests : inv[q] \in Invocation /\ ~inv[q].mixed /\ answer[q] # "mixed"
  BY TypeParts DEF CallsTyped, Unmixed
<1>1. ASSUME inv' = inv, answer' = answer
      PROVE  Unmixed'
  BY <1>1 DEF Unmixed
<1>2. ASSUME NEW S, NEW how, how # "mixed", answer' = answer \/ answer' = Answered(S, how)
      PROVE  \A q \in Requests : answer'[q] # "mixed"
  BY <1>0, <1>2 DEF Answered
<1>3. ASSUME NEW a \in Actors, Reject(a), inv' = inv
      PROVE  Unmixed'
  BY <1>0, <1>2, <1>3 DEF Reject, Unmixed
<1>4. ASSUME NEW r \in Requests, Send(r)
      PROVE  Unmixed'
  <2>1. PICK b \in BOOLEAN : inv' = [inv EXCEPT ![r].listed = TRUE, ![r].armed = b]
    BY <1>4, SendListed
  <2>2. \A q \in Requests : inv'[q].mixed = inv[q].mixed
    BY <1>0, <2>1 DEF Invocation
  <2>3. QED
    BY <1>0, <1>2, <1>4, <2>2, SendEffect DEF Unmixed
<1>5. ASSUME NEW r \in Requests, NEW older, StartAfterStop(r, older), inv' = inv
      PROVE  Unmixed'
  BY <1>1, <1>3, <1>5, ActorsDiffer DEF StartAfterStop
<1>6. ASSUME NEW r \in Requests, RestartForModel(r)
      PROVE  Unmixed'
  <2>1. \A q \in Requests : ~inv'[q].mixed
    BY <1>0, <1>6 DEF RestartForModel, Dropped, NoRecord, Invocation
  <2>2. QED
    BY <1>2, <1>6, <2>1 DEF RestartForModel, Unmixed
<1>7. ASSUME NEW r \in Requests, StartForRequest(r) \/ WaitForStart(r) \/ SendAtOnce(r) \/ WaitOver(r) \/ StopGivesUp(r)
      PROVE  Unmixed'
  BY <1>1, <1>3, <1>4, <1>5, <1>7, ActorsDiffer DEF StartForRequest, WaitForStart, SendAtOnce, WaitOver, StopGivesUp
<1>8. ASSUME NEW a \in Actors, Spawn(a) \/ Ready(a)
      PROVE  Unmixed'
  BY <1>1, <1>3, <1>4, <1>8 DEF Spawn, Ready
<1>9. ASSUME NEW p \in Starts, StoppedExit(p) \/ OwnExit(p)
      PROVE  Unmixed'
  BY <1>1, <1>5, <1>9 DEF StoppedExit, OwnExit, calls
<1>10. CASE CancelStep
  BY <1>1, <1>10 DEF CancelStep, Cancel, CancelSession, calls
<1>11. ASSUME NEW status, NEW error, EndTable(status, error)
       PROVE  \A q \in Requests : ~inv'[q].mixed
  BY <1>0, <1>11 DEF EndTable, Invocation
<1>12. ASSUME NEW p \in Starts, NEW replace \in BOOLEAN, Text(p, replace)
       PROVE  Unmixed'
  <2>1. Speaks(p) /\ running[p] # <<>> /\ p = startCount
    BY <1>12 DEF Text, Speaks, Heard
  <2>2. PICK h \in Requests : running[p] = <<h>> /\ pc[h] \in Beyond /\ ~Good(h)
    BY <2>1 DEF OwnPrompts, Quiet, WorksOn
  <2>3. Head(running[p]) = h
    BY <2>2
  <2>4. ASSUME NEW q \in Requests, inv[q].listed
        PROVE  q = h
    <3>1. pc[q] # "idle" /\ ~Good(q) /\ pc[h] # "idle"
      BY <2>2, <2>4 DEF RecordsMatch, Matches, NoRecord, Good, Beyond
    <3>2. QED
      BY <2>2, <3>1 DEF OneAtATime
  <2>5. ASSUME NEW q \in Requests
        PROVE  ~inv'[q].mixed
    <3>1. CASE inv[q].listed
      <4>1. inv'[q] = [inv[q] EXCEPT !.mixed = (@ /\ ~replace) \/ q # Head(running[p])]
        BY <1>12, <3>1 DEF Text, table
      <4>2. q = Head(running[p])
        BY <2>3, <2>4, <3>1
      <4>3. inv'[q].mixed <=> (inv[q].mixed /\ ~replace) \/ q # Head(running[p])
        BY <1>0, <4>1 DEF Invocation
      <4>4. QED
        BY <1>0, <4>2, <4>3
    <3>2. CASE ~inv[q].listed
      BY <1>0, <1>12, <3>2 DEF Text, table
    <3>3. QED
      BY <3>1, <3>2
  <2>6. answer' = answer
    BY <1>12 DEF Text
  <2>7. QED
    BY <1>0, <2>5, <2>6 DEF Unmixed
<1>13. ASSUME NEW p \in Starts, PiOutput(p)
       PROVE  Unmixed'
  <2>1. ASSUME NEW r \in Requests, Accept(p, r) \/ Refuse(p, r)
        PROVE  Unmixed'
    <3>1. CASE inv' = inv /\ answer' = answer
      BY <1>1, <3>1
    <3>2. CASE ~(inv' = inv /\ answer' = answer)
      <4>1. EndTable("error", "refused") /\ answer' = Answered({r} \cup (table \cap Streams), "failed")
        BY <2>1, <3>2 DEF Accept, Refuse
      <4>2. QED
        BY <1>2, <1>11, <4>1 DEF Unmixed
    <3>3. QED
      BY <3>1, <3>2
  <2>2. CASE PiError(p)
    BY <1>2, <1>11, <2>2 DEF PiError, Unmixed
  <2>3. CASE AgentEnd(p)
    <3>1. \A q \in Requests : answer'[q] # "mixed"
      BY <1>0, <2>3 DEF AgentEnd, Result
    <3>2. QED
      BY <1>11, <2>3, <3>1 DEF AgentEnd, Unmixed
  <2>4. QED
    BY <1>12, <1>13, <2>1, <2>2, <2>3 DEF PiOutput, Delta, MessageEnd
<1>14. ASSUME NEW r \in Requests, HandlerEnds(r)
       PROVE  Unmixed'
  <2>1. \A q \in Requests : ~inv'[q].mixed
    <3>1. ASSUME NEW q \in Requests
          PROVE  inv'[q] = NoRecord \/ inv'[q].mixed = inv[q].mixed
      <4>1. CASE q # r
        BY <1>14, <4>1, OthersEnd
      <4>2. CASE q = r
        BY <1>0, <1>14, <4>2 DEF HandlerEnds, AckTimeout, Finish, PollTimeout, AbortOver, ModelTimer,
           Keepalive, ClientLeaves, Reject, Leaves, Invocation
      <4>3. QED
        BY <4>1, <4>2
    <3>2. QED
      BY <1>0, <3>1 DEF NoRecord
  <2>2. answer' = answer \/ \E how \in {"ok", "failed"} : answer' = Answered({r}, how)
    BY <1>0, <1>14 DEF HandlerEnds, AckTimeout, Finish, PollTimeout, AbortOver, ModelTimer,
       Keepalive, ClientLeaves, Reject, Leaves, Result
  <2>3. QED
    BY <1>2, <2>1, <2>2 DEF Unmixed
<1>15. QED
  BY <1>6, <1>7, <1>8, <1>9, <1>10, <1>13, <1>14, StepKinds DEF Arrival

\* The end of a prompt completes the sessions of the table.  Afterwards only a request of the same
\* thread, or a failure of the invocation itself, changes the session, and neither happens.
LEMMA SessionsNext ==
  ASSUME TypeInv, RecordsMatch, NothingLeft, SessionsCompleted, Next
  PROVE  SessionsCompleted'
<1>0. /\ pc \in [Actors -> PCs] /\ Requests \subseteq Actors
      /\ inv \in [Requests -> Invocation] /\ answer \in [Requests -> Answers]
      /\ session \in [Threads -> SessionStates] /\ \A q \in Requests : ThreadOf[q] \in Threads
  BY TypeParts, ActorsDiffer, RequestsAssumption DEF HandlersTyped, CallsTyped
<1> SUFFICES ASSUME NEW r \in Requests, Complete(r)',
                    \A q \in Requests \ {r} : ThreadOf[q] = ThreadOf[r] => pc'[q] = "idle"
             PROVE  session'[ThreadOf[r]] = "completed"
  BY DEF SessionsCompleted
<1> DEFINE T == ThreadOf[r]
<1>1. \A q \in Requests \ {r} : ThreadOf[q] = T =>
        pc[q] = "idle" /\ ~inv[q].listed /\ ~inv[q].armed
  <2>1. \A q \in Requests \ {r} : ThreadOf[q] = T => pc[q] = "idle"
    BY <1>0, NothingReturns
  <2>2. QED
    BY <2>1 DEF RecordsMatch, Matches, NoRecord
<1>2. Complete(r) => session[T] = "completed"
  BY <1>1 DEF SessionsCompleted
<1>3. ASSUME NEW p \in Starts, AgentEnd(p)
      PROVE  session'[T] = "completed"
  <2>1. session' = Completed(table, "completed")
    BY <1>3 DEF AgentEnd, EndTable
  <2>2. CASE inv[r].listed
    BY <1>0, <2>1, <2>2 DEF Completed, table, RecordsMatch, Matches
  <2>3. CASE ~inv[r].listed
    <3>1. inv'[r] = inv[r] /\ answer'[r] = answer[r]
      BY <1>0, <1>3, <2>3 DEF AgentEnd, EndTable, table
    <3>2. session[T] = "completed"
      BY <1>2, <3>1 DEF Complete
    <3>3. QED
      BY <1>0, <2>1, <3>2 DEF Completed
  <2>4. QED
    BY <2>2, <2>3
<1>4. ASSUME ~\E p \in Starts : AgentEnd(p)
      PROVE  session'[T] = "completed"
  <2>1. Complete(r) /\ session[T] = "completed"
    BY <1>2, <1>4, CompleteFrom
  <2>2. ASSUME NEW u \in Requests, Send(u), pc[u] \in {"idle", "waiting", "spawned"}
        PROVE  session'[T] = "completed"
    <3>1. u # r
      BY <2>1, <2>2 DEF RecordsMatch, Matches, NoRecord, Complete
    <3>2. pc' = [pc EXCEPT ![u] = "sent"] \/ pc' = [pc EXCEPT ![u] = "rejected"]
      BY <2>2, SendEffect
    <3>3. pc'[u] # "idle"
      BY <1>0, <3>2
    <3>4. ThreadOf[u] # T
      BY <3>1, <3>3
    <3>5. session' = [session EXCEPT ![ThreadOf[u]] = "active"]
      BY <2>2, SendEffect
    <3>6. QED
      BY <1>0, <2>1, <3>4, <3>5
  <2>3. ASSUME NEW u \in Requests, Arrival(u) \/ WaitOver(u) \/ StopGivesUp(u)
        PROVE  session'[T] = "completed"
    <3>1. session' = session \/ (Send(u) /\ pc[u] \in {"idle", "waiting", "spawned"})
      BY <2>3 DEF Arrival, RestartForModel, StartForRequest, WaitForStart, SendAtOnce, WaitOver,
         StopGivesUp, Arrive, stores
    <3>2. QED
      BY <2>1, <2>2, <3>1
  <2>4. ASSUME NEW a \in Actors, Spawn(a) \/ Ready(a)
        PROVE  session'[T] = "completed"
    <3>1. session' = session \/ (a \in Requests /\ Send(a) /\ pc[a] \in {"idle", "waiting", "spawned"})
      BY <2>4 DEF Spawn, Ready, stores
    <3>2. QED
      BY <2>1, <2>2, <3>1
  <2>5. ASSUME NEW p \in Starts, PiOutput(p)
        PROVE  session'[T] = "completed"
    <3>1. CASE session' = session
      BY <2>1, <3>1
    <3>2. CASE session' # session
      <4>1. session' = Completed(table, "error") /\ ~Quiet
        <5>1. CASE PiError(p)
          BY <5>1 DEF PiError, EndTable, Finishes, Speaks, Heard, Quiet
        <5>2. CASE \E q \in Requests : Refuse(p, q)
          BY <3>2, <5>2 DEF Refuse, EndTable, Takes, Heard, Quiet
        <5>3. QED
          BY <1>4, <2>5, <3>2, <5>1, <5>2 DEF PiOutput, Accept, Delta, MessageEnd, Text, stores
      <4>2. ~inv[r].listed
        BY <2>1, <4>1 DEF NothingLeft, RecordsMatch, Matches, NoRecord
      <4>3. \A q \in table : ThreadOf[q] # T
        BY <1>1, <4>2 DEF table
      <4>4. QED
        BY <1>0, <2>1, <4>1, <4>3 DEF Completed
    <3>3. QED
      BY <3>1, <3>2
  <2>6. ASSUME NEW p \in Starts, StoppedExit(p) \/ OwnExit(p)
        PROVE  session'[T] = "completed"
    BY <2>1, <2>6 DEF StoppedExit, OwnExit, stores
  <2>7. CASE CancelStep
    BY <1>0, <2>1, <2>7 DEF CancelStep, Cancel, CancelSession
  <2>8. ASSUME NEW u \in Requests, HandlerEnds(u)
        PROVE  session'[T] = "completed"
    <3>1. CASE session' = session \/ session' = Completed({u}, "completed")
      BY <1>0, <2>1, <3>1 DEF Completed
    <3>2. CASE AbortOver(u)
      <4>1. u # r
        <5>1. SUFFICES ASSUME u = r PROVE FALSE
          OBVIOUS
        <5>2. pc[r] = "aborting" /\ answer[r] = "none"
          BY <3>2, <5>1 DEF AbortOver, RecordsMatch, Matches
        <5>3. inv'[r] = NoRecord /\ answer'[r] = "failed"
          BY <1>0, <3>2, <5>1, <5>2 DEF AbortOver, Leaves, Answered
        <5>4. QED
          BY <5>3 DEF Complete, NoRecord
      <4>2. ThreadOf[u] # T
        BY <1>1, <3>2, <4>1 DEF AbortOver
      <4>3. QED
        BY <1>0, <2>1, <3>2, <4>2 DEF AbortOver, Completed
    <3>3. CASE ModelTimer(u) /\ session' # session
      <4>1. inv[u].armed /\ ~inv[u].done /\ session' = Completed({u}, "error")
        BY <3>3 DEF ModelTimer
      <4>2. u # r
        BY <2>1, <4>1 DEF RecordsMatch, Matches, Complete
      <4>3. ThreadOf[u] # T
        BY <1>1, <4>1, <4>2
      <4>4. QED
        BY <1>0, <2>1, <4>1, <4>3 DEF Completed
    <3>4. QED
      BY <2>8, <3>1, <3>2, <3>3 DEF HandlerEnds, AckTimeout, Finish, PollTimeout, Keepalive, ClientLeaves, stores
  <2>9. QED
    BY <2>3, <2>4, <2>5, <2>6, <2>7, <2>8, StepKinds
<1>5. QED
  BY <1>3, <1>4

LEMMA SerialInvInit == Init => SerialInv
<1> SUFFICES ASSUME Init PROVE SerialInv
  OBVIOUS
<1>1. \A r \in Requests : pc[r] = "idle" /\ ~Complete(r)
  BY ActorsDiffer DEF Init, Complete, NoRecord
<1>2. LaterPipesEmpty /\ Quiet
  BY StartsAreNumbers DEF Init, LaterPipesEmpty, Quiet
<1>3. OneAtATime /\ OwnPrompts /\ NothingLeft /\ SessionsCompleted
  BY <1>1, <1>2 DEF OneAtATime, OwnPrompts, NothingLeft, SessionsCompleted
<1>4. Unmixed
  BY DEF Init, Unmixed, NoRecord
<1>5. QED
  BY <1>2, <1>3, <1>4 DEF SerialInv

LEMMA SerialInvNext ==
  ASSUME TypeInv, BridgeInv, SerialInv, [Next]_vars
  PROVE  SerialInv'
<1>1. CASE Next
  <2>1. RecordsMatch
    BY DEF BridgeInv
  <2>2. LaterPipesEmpty'
    BY <1>1, LaterPipesNext DEF SerialInv
  <2>3. ASSUME serial'
        PROVE  OneAtATime' /\ OwnPrompts' /\ NothingLeft' /\ Unmixed' /\ SessionsCompleted'
    <3>1. LaterPipesEmpty /\ OneAtATime /\ OwnPrompts /\ NothingLeft /\ Unmixed /\ SessionsCompleted
      BY <1>1, <2>3, NothingReturns DEF SerialInv
    <3>2. OneAtATime'
      BY <1>1, <2>1, <2>3, <3>1, OneAtATimeNext
    <3>3. OwnPrompts' /\ NothingLeft'
      BY <1>1, <2>1, <3>1, <3>2, OwnPromptsNext, NothingLeftNext
    <3>4. Unmixed' /\ SessionsCompleted'
      BY <1>1, <2>1, <3>1, UnmixedNext, SessionsNext
    <3>5. QED
      BY <3>2, <3>3, <3>4
  <2>4. QED
    BY <2>2, <2>3 DEF SerialInv
<1>2. CASE UNCHANGED vars
  BY <1>2 DEF vars, bridge, pis, calls, stores, history, SerialInv, LaterPipesEmpty, OneAtATime, OwnPrompts,
     NothingLeft, Unmixed, SessionsCompleted, Quiet, WorksOn, Good, Complete
<1>3. QED
  BY <1>1, <1>2

\* Of requests made one after the other none gets the text of another, and the session of each stays
\* completed until the next one of its thread: what restarts, aborted prompts and late exits leave
\* behind is gone before the next prompt is written.
THEOREM SerialRequestsServed == Spec => []SerialRequestsAreServed
<1>1. SerialInv => SerialRequestsAreServed
  BY DEF SerialInv, Unmixed, SessionsCompleted, Complete, SerialRequestsAreServed
<1>2. QED
  BY <1>1, BridgeInvInit, BridgeInvNext, SerialInvInit, SerialInvNext, TypeInvNext, PTL DEF Spec

=============================================================================
