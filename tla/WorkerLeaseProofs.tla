------------------------- MODULE WorkerLeaseProofs -------------------------
(***************************************************************************)
(* The worker lease keeps undisturbed workers apart, for every number of   *)
(* pods and Jobs and every duration, and so implements WorkerMutex.        *)
(*                                                                         *)
(* The argument: a reading of the lease that is still current is what the  *)
(* lease holds now, so a pod that was allowed to take the lease and still  *)
(* can, takes it from a Job that no undisturbed pod works for.             *)
(***************************************************************************)
EXTENDS WorkerLease, TLAPS

\* A reading that is current is what the lease holds.
ReadingsCurrent == \A p \in current : seen[p] = lease

\* Nobody has sampled a time that is yet to come.
SamplesPast == \A p \in Pods : at[p] <= now

\* Disturbed pods are on record, and nobody is on record while none is at work.
DisturbedRecorded == \A p \in Pods : Disturbed(p) => p \in disturbed
RecordCleared == Idle => disturbed = {}

\* A pod that may still replace the lease takes it from nobody.
ClaimsFree ==
  disturbed = {} => \A p \in current : pc[p] = "replace" => Idle

Inv ==
  /\ TypeOK
  /\ ReadingsCurrent /\ SamplesPast
  /\ DisturbedRecorded /\ RecordCleared
  /\ OneWorker /\ LeaseNamesWorker /\ ClaimsFree

USE LeaseAssumption

\* The actions without the history they record.
Act == Tick \/ (\E o \in Jobs \cup Pods : Delete(o)) \/ (\E p \in Pods : PodStep(p))

-----------------------------------------------------------------------------
(* Types.                                                                  *)

Typed ==
  /\ now \in Time /\ lease \in Leases /\ deleted \subseteq Jobs \cup Pods
  /\ pc \in [Pods -> PCs] /\ at \in [Pods -> Time]
  /\ seen \in [Pods -> Leases] /\ current \subseteq Pods

\* What a call that returns leaves is well typed.
LEMMA ReturnTyped ==
  ASSUME Typed, NEW p \in Pods, NEW where \in PCs, Return(p, where)
  PROVE  pc' \in [Pods -> PCs] /\ at' \in [Pods -> Time] /\ seen' \in [Pods -> Leases]
<1>1. 0 \in Time
  BY DEF Time
<1>2. NoLease \in Leases
  BY <1>1 DEF NoLease, Leases
<1>3. QED
  BY <1>1, <1>2 DEF Typed, Return, Goto

LEMMA EndTyped ==
  ASSUME Typed, NEW p \in Pods, NEW where \in PCs, End(p, where), UNCHANGED now
  PROVE  Typed'
<1>1. /\ Return(p, where) /\ current' = current \ {p} /\ lease' = lease
      /\ deleted' = deleted \ {p}
  BY DEF End
<1>2. QED
  BY <1>1, ReturnTyped DEF Typed

LEMMA AcquireTyped ==
  ASSUME Typed, NEW p \in Pods, Acquire(p), UNCHANGED <<now, deleted>>
  PROVE  Typed'
<1>1. lease' = [holder |-> JobOf[p], renew |-> at[p]] /\ current' = {}
  BY DEF Acquire, Put
<1>2. lease' \in Leases
  BY <1>1 DEF Typed, Leases
<1>3. "work" \in PCs /\ Return(p, "work")
  BY DEF PCs, Acquire
<1>4. QED
  BY <1>1, <1>2, <1>3, ReturnTyped DEF Typed

LEMMA ReplaceTyped ==
  ASSUME Typed, NEW p \in Pods, RenewReplace(p)
  PROVE  Typed'
<1>1. Return(p, "work") /\ UNCHANGED <<now, deleted>> /\ "work" \in PCs
  BY DEF RenewReplace, PCs
<1>2. \/ lease' = [lease EXCEPT !.renew = at[p]] /\ current' = {}
      \/ lease' = lease /\ current' = current \ {p}
  BY DEF RenewReplace, Put
<1>3. lease' \in Leases
  <2>1. lease \in Leases /\ at[p] \in Time
    BY DEF Typed
  <2>2. [lease EXCEPT !.renew = at[p]] \in Leases
    BY <2>1 DEF Leases
  <2>3. QED
    BY <1>2, <2>1, <2>2
<1>4. current' \subseteq Pods
  BY <1>2 DEF Typed
<1>5. QED
  BY <1>1, <1>3, <1>4, ReturnTyped DEF Typed

\* Every action keeps the types of all but the history.
LEMMA ActTyped ==
  ASSUME Typed, Act
  PROVE  Typed'
<1>1. CASE Tick
  BY <1>1 DEF Tick, calls, Typed, Time
<1>2. ASSUME NEW o \in Jobs \cup Pods, Delete(o)
      PROVE  Typed'
  BY <1>2 DEF Delete, calls, Typed
<1>3. ASSUME NEW p \in Pods, PodStep(p)
      PROVE  Typed'
  <2>0. {"create", "read", "inspect", "replace", "work", "renew", "failed", "succeeded"}
          \subseteq PCs
    BY DEF PCs, Over
  <2>1. CASE StartPod(p)
    BY <2>0, <2>1 DEF StartPod, Typed, Goto
  <2>2. CASE Crash(p)
    BY <2>0, <2>2, EndTyped DEF Crash
  <2>3. CASE AcquireCreate(p)
    <3>1. CASE Acquire(p)
      BY <2>3, <3>1, AcquireTyped DEF AcquireCreate
    <3>2. CASE Goto(p, "read") /\ UNCHANGED <<lease, calls, current>>
      BY <2>0, <2>3, <3>2 DEF AcquireCreate, Goto, calls, Typed
    <3>3. QED
      BY <2>3, <3>1, <3>2 DEF AcquireCreate
  <2>4. CASE AcquireRead(p)
    <3>1. CASE End(p, "failed")
      BY <2>0, <2>4, <3>1, EndTyped DEF AcquireRead
    <3>2. CASE /\ Get(p) /\ UNCHANGED <<lease, deleted, at>>
               /\ Goto(p, "replace") \/ Goto(p, "inspect")
      BY <2>0, <2>4, <3>2 DEF AcquireRead, Goto, Get, Typed
    <3>3. QED
      BY <2>4, <3>1, <3>2 DEF AcquireRead
  <2>5. CASE AcquireInspect(p)
    <3>1. CASE End(p, "failed")
      BY <2>0, <2>5, <3>1, EndTyped DEF AcquireInspect
    <3>2. CASE Goto(p, "replace") /\ UNCHANGED <<lease, deleted, calls, current>>
      BY <2>0, <2>5, <3>2 DEF AcquireInspect, Goto, calls, Typed
    <3>3. QED
      BY <2>5, <3>1, <3>2 DEF AcquireInspect
  <2>6. CASE AcquireReplace(p)
    BY <2>0, <2>6, AcquireTyped, EndTyped DEF AcquireReplace
  <2>7. CASE RenewRead(p)
    BY <2>0, <2>7 DEF RenewRead, Goto, Get, Typed
  <2>8. CASE RenewReplace(p)
    BY <2>8, ReplaceTyped
  <2>9. CASE Release(p)
    <3>1. NoLease \in Leases
      BY DEF NoLease, Leases, Time
    <3>2. PICK end \in Over : Return(p, end)
      BY <2>9 DEF Release
    <3>3. end \in PCs
      BY DEF PCs
    <3>4. QED
      BY <2>9, <3>1, <3>2, <3>3, ReturnTyped DEF Release, Put, Typed
  <2>10. QED
    BY <1>3, <2>1, <2>2, <2>3, <2>4, <2>5, <2>6, <2>7, <2>8, <2>9 DEF PodStep
<1>4. QED
  BY <1>1, <1>2, <1>3 DEF Act


-----------------------------------------------------------------------------
(* Readings of the lease.                                                  *)

\* After any action, a reading that is current is what the lease holds.
LEMMA ReadingsStayCurrent ==
  ASSUME Typed, ReadingsCurrent, Act
  PROVE  ReadingsCurrent'
<1> USE DEF ReadingsCurrent
<1>1. CASE Tick
  BY <1>1 DEF Tick, calls
<1>2. ASSUME NEW o \in Jobs \cup Pods, Delete(o)
      PROVE  ReadingsCurrent'
  BY <1>2 DEF Delete, calls
<1>3. ASSUME NEW p \in Pods, PodStep(p)
      PROVE  ReadingsCurrent'
  <2>1. ASSUME NEW where, End(p, where)
        PROVE  ReadingsCurrent'
    BY <2>1 DEF End, Return, Typed
  <2>2. ASSUME Get(p), lease' = lease
        PROVE  ReadingsCurrent'
    BY <2>2 DEF Get, Typed
  <2>3. CASE current' = {}
    BY <2>3
  <2>4. CASE UNCHANGED <<lease, seen, current>>
    BY <2>4
  <2>5. ASSUME current' = current \ {p}, lease' = lease, seen' = [seen EXCEPT ![p] = NoLease]
        PROVE  ReadingsCurrent'
    BY <2>5 DEF Typed
  <2>6. \/ \E where : End(p, where)
        \/ Get(p) /\ lease' = lease
        \/ current' = {}
        \/ UNCHANGED <<lease, seen, current>>
        \/ current' = current \ {p} /\ lease' = lease /\ seen' = [seen EXCEPT ![p] = NoLease]
    BY <1>3 DEF PodStep, StartPod, Crash, AcquireCreate, AcquireRead, AcquireInspect,
                AcquireReplace, RenewRead, RenewReplace, Release, Acquire, Put, Return, calls
  <2>7. QED
    BY <2>1, <2>2, <2>3, <2>4, <2>5, <2>6
<1>4. QED
  BY <1>1, <1>2, <1>3 DEF Act

\* A sampled time does not lie ahead of the clock.
LEMMA SamplesStayPast ==
  ASSUME Typed, SamplesPast, Act
  PROVE  SamplesPast'
<1>1. CASE Tick
  BY <1>1 DEF Tick, calls, SamplesPast, Typed, Time
<1>2. ASSUME NEW o \in Jobs \cup Pods, Delete(o)
      PROVE  SamplesPast'
  BY <1>2 DEF Delete, calls, SamplesPast
<1>3. ASSUME NEW p \in Pods, PodStep(p)
      PROVE  SamplesPast'
  <2>1. /\ now' = now
        /\ at' = at \/ at' = [at EXCEPT ![p] = 0] \/ at' = [at EXCEPT ![p] = now]
    BY <1>3 DEF PodStep, StartPod, Crash, AcquireCreate, AcquireRead, AcquireInspect,
                AcquireReplace, RenewRead, RenewReplace, Release, Acquire, Return, End, calls
  <2>2. QED
    BY <2>1 DEF SamplesPast, Typed, Time
<1>4. QED
  BY <1>1, <1>2, <1>3 DEF Act

-----------------------------------------------------------------------------
(* Nobody takes the lease from an undisturbed pod.                         *)

\* A pod that finds a reason to take the lease it has just read, or has read and not
\* seen written since, takes it from nobody who is at work.
LEMMA ReasonsAreGood ==
  ASSUME Inv, disturbed = {}, NEW p \in Pods, Running(p), ~Working(p),
         lease.holder \in Jobs,
         \/ Expired(at[p], lease)
         \/ lease.holder = JobOf[p]
         \/ JobIsOver(lease.holder)
  PROVE  Idle
<1> SUFFICES ASSUME NEW q \in Pods, Working(q)
             PROVE  FALSE
  BY DEF Idle
<1>1. lease.holder = JobOf[q] /\ q # p /\ ~Disturbed(q)
  BY DEF Inv, LeaseNamesWorker, DisturbedRecorded
<1>2. q \in PodsOf(JobOf[q]) /\ Running(q)
  BY DEF PodsOf, Working, Running, Over
<1>3. CASE Expired(at[p], lease)
  <2>1. now \in Int /\ at[p] \in Int /\ lease.renew \in Int /\ Duration \in Int
    BY DEF Inv, TypeOK, Time, Leases
  <2>2. now - lease.renew > Duration
    BY <1>3, <2>1 DEF Inv, SamplesPast, Expired
  <2>3. QED
    BY <1>1, <2>2 DEF Disturbed
<1>4. CASE lease.holder = JobOf[p]
  BY <1>1, <1>4 DEF Disturbed, PodsOf
<1>5. CASE JobIsOver(lease.holder)
  BY <1>1, <1>2, <1>5 DEF JobIsOver, Disturbed
<1>6. QED
  BY <1>3, <1>4, <1>5

\* A pod becomes able to replace the lease only while no undisturbed pod is at work.
LEMMA ClaimsAreGood ==
  ASSUME Inv, disturbed = {}, NEW p \in Pods, AcquireRead(p) \/ AcquireInspect(p),
         pc'[p] = "replace", p \in current'
  PROVE  Idle
<1>1. pc \in [Pods -> PCs] /\ lease \in Leases
  BY DEF Inv, TypeOK
<1>2. Running(p) /\ ~Working(p)
  BY DEF AcquireRead, AcquireInspect, Running, Working, Over
<1>3. CASE AcquireRead(p)
  <2>1. lease.holder # NoJob
    BY <1>1, <1>3 DEF AcquireRead, End
  <2>2. lease.holder \in Jobs
    BY <1>1, <2>1 DEF Leases
  <2>3. Expired(at[p], lease) \/ lease.holder = JobOf[p]
    BY <1>1, <1>3, <2>1 DEF AcquireRead, Goto
  <2>4. QED
    BY <1>2, <2>2, <2>3, ReasonsAreGood
<1>4. CASE AcquireInspect(p)
  <2>1. JobIsOver(seen[p].holder) /\ current' = current
    BY <1>1, <1>4 DEF AcquireInspect, End, Return, Goto
  <2>2. JobIsOver(lease.holder)
    BY <2>1 DEF Inv, ReadingsCurrent
  <2>3. CASE lease.holder \in Jobs
    BY <1>2, <2>2, <2>3, ReasonsAreGood
  <2>4. CASE lease.holder = NoJob
    BY <2>4 DEF Idle, Inv, LeaseNamesWorker
  <2>5. QED
    BY <1>1, <2>3, <2>4 DEF Leases
<1>5. QED
  BY <1>3, <1>4

\* A pod begins to work only while no undisturbed pod is at work.
LEMMA EntriesAreGood ==
  ASSUME Inv, disturbed = {}, NEW p \in Pods, PodStep(p), ~Working(p), Working(p)'
  PROVE  Idle /\ Acquire(p)
<1>1. pc \in [Pods -> PCs]
  BY DEF Inv, TypeOK
<1>2. \/ AcquireCreate(p) /\ lease.holder = NoJob
      \/ AcquireReplace(p) /\ p \in current
  <2>1. pc'[p] \in {"work", "renew"} /\ pc[p] \notin {"work", "renew"}
    BY DEF Working
  <2>2. QED
    BY <1>1, <2>1 DEF PodStep, StartPod, Crash, AcquireCreate, AcquireRead, AcquireInspect,
       AcquireReplace, RenewRead, RenewReplace, Release, Return, End, Goto, Working, Over
<1>3. CASE AcquireCreate(p) /\ lease.holder = NoJob
  BY <1>3 DEF AcquireCreate, Idle, Inv, LeaseNamesWorker
<1>4. CASE AcquireReplace(p) /\ p \in current
  BY <1>4 DEF AcquireReplace, Inv, ClaimsFree
<1>5. QED
  BY <1>2, <1>3, <1>4

-----------------------------------------------------------------------------
(* The invariant.                                                          *)

\* The promise of the lease in one state.
Kept == OneWorker /\ LeaseNamesWorker /\ ClaimsFree

\* While no undisturbed pod is at work, the pod that begins to work is the only one.
LEMMA KeptOnEntry ==
  ASSUME Inv, NEW p \in Pods, Idle, Acquire(p)
  PROVE  Kept'
<1>1. pc' = [pc EXCEPT ![p] = "work"] /\ lease'.holder = JobOf[p] /\ current' = {}
  BY DEF Acquire, Return, Goto, Put
<1>2. \A q \in Pods : Working(q)' => q = p
  BY <1>1 DEF Idle, Working, Inv, TypeOK
<1>3. QED
  BY <1>1, <1>2 DEF Kept, OneWorker, LeaseNamesWorker, ClaimsFree

\* A pod that is not at work leaves the promise as it is.
LEMMA KeptOnSteps ==
  ASSUME Inv, disturbed = {}, ~Idle', NEW p \in Pods, PodStep(p)
  PROVE  Kept'
<1>1. pc \in [Pods -> PCs] /\ current \subseteq Pods
  BY DEF Inv, TypeOK
<1>2. CASE ~Working(p) /\ Working(p)'
  BY <1>2, EntriesAreGood, KeptOnEntry
<1>3. CASE Release(p)
  <2>1. \A q \in Pods : ~Working(q)'
    BY <1>1, <1>3 DEF Release, Return, Goto, Working, Over, Inv, OneWorker
  <2>2. QED
    BY <2>1 DEF Idle
<1>4. CASE ~(~Working(p) /\ Working(p)') /\ ~Release(p)
  <2>1. \A q \in Pods \ {p} : pc'[q] = pc[q]
    BY <1>1 DEF PodStep, StartPod, Crash, AcquireCreate, AcquireRead, AcquireInspect,
       AcquireReplace, RenewRead, RenewReplace, Release, Acquire, Return, End, Goto
  <2>2. \A q \in Pods : Working(q)' => Working(q)
    BY <1>4, <2>1 DEF Working
  <2>3. ~Idle
    BY <2>2 DEF Idle
  <2>4. Working(p) \/ ~Acquire(p)
    BY <1>1, <1>4 DEF Acquire, Return, Goto, Working
  <2>5. lease'.holder = lease.holder
    <3>1. CASE AcquireCreate(p) \/ AcquireReplace(p)
      BY <2>4, <3>1 DEF AcquireCreate, AcquireReplace, Working, End
    <3>2. CASE RenewReplace(p)
      <4>1. lease \in [holder : Jobs \cup {NoJob}, renew : Time]
        BY DEF Inv, TypeOK, Leases
      <4>2. lease' = [lease EXCEPT !.renew = at[p]] \/ lease' = lease
        BY <3>2 DEF RenewReplace, Put
      <4>3. QED
        BY <4>1, <4>2
    <3>3. CASE ~(AcquireCreate(p) \/ AcquireReplace(p)) /\ ~RenewReplace(p)
      BY <1>4, <3>3 DEF PodStep, StartPod, Crash, AcquireRead, AcquireInspect, RenewRead, End
    <3>4. QED
      BY <3>1, <3>2, <3>3
  <2>6. ASSUME NEW q \in current', pc'[q] = "replace"
        PROVE  FALSE
    <3>1. CASE q \in current /\ pc[q] = "replace"
      BY <2>3, <3>1 DEF Inv, ClaimsFree
    <3>2. CASE q = p /\ (AcquireRead(p) \/ AcquireInspect(p))
      BY <2>3, <2>6, <3>2, ClaimsAreGood
    <3>3. q = p \/ q \in current
      BY DEF PodStep, StartPod, Crash, AcquireCreate, AcquireRead, AcquireInspect,
         AcquireReplace, RenewRead, RenewReplace, Release, Acquire, End, Put, Get
    <3>4. q = p => AcquireRead(p) \/ AcquireInspect(p)
      BY <1>1, <2>6 DEF PodStep, StartPod, Crash, AcquireCreate,
         AcquireReplace, RenewRead, RenewReplace, Release, Acquire, End, Put, Return, Goto, Over
    <3>5. QED
      BY <2>1, <2>6, <3>1, <3>2, <3>3, <3>4, <1>1
  <2>7. QED
    BY <2>2, <2>5, <2>6 DEF Kept, OneWorker, LeaseNamesWorker, ClaimsFree, Inv
<1>5. QED
  BY <1>2, <1>3, <1>4

LEMMA InvInit == Init => Inv
<1> SUFFICES ASSUME Init PROVE Inv
  OBVIOUS
<1> USE DEF Init
<1>1. 0 \in Time /\ NoLease \in Leases
  BY DEF Time, Leases, NoLease
<1>2. TypeOK
  BY <1>1 DEF TypeOK, PCs
<1>3. Idle
  BY DEF Idle, Working
<1>4. QED
  BY <1>2, <1>3 DEF Inv, ReadingsCurrent, SamplesPast, DisturbedRecorded, RecordCleared,
     OneWorker, LeaseNamesWorker, ClaimsFree, Disturbed, Idle, Time

LEMMA InvNext == Inv /\ [Next]_vars => Inv'
<1> SUFFICES ASSUME Inv, [Next]_vars PROVE Inv'
  OBVIOUS
<1>1. CASE UNCHANGED vars
  BY <1>1 DEF vars, calls, Inv, TypeOK, ReadingsCurrent, SamplesPast, DisturbedRecorded,
     RecordCleared, OneWorker, LeaseNamesWorker, ClaimsFree, Disturbed, Idle, Working, Running
<1>2. CASE Next
  <2>1. Act /\ Record /\ Typed
    BY <1>2 DEF Next, Act, Typed, Inv, TypeOK
  <2>2. TypeOK' /\ ReadingsCurrent' /\ SamplesPast'
    BY <2>1, ActTyped, ReadingsStayCurrent, SamplesStayPast
       DEF Typed, TypeOK, Inv, Record
  <2>3. DisturbedRecorded' /\ RecordCleared'
    BY <2>1 DEF Record, DisturbedRecorded, RecordCleared, Idle, Disturbed
  <2>4. Kept'
    <3>1. CASE Idle'
      BY <3>1 DEF Kept, OneWorker, LeaseNamesWorker, ClaimsFree, Idle
    <3>2. CASE disturbed' # {}
      BY <3>2 DEF Kept, OneWorker, LeaseNamesWorker, ClaimsFree
    <3>3. CASE ~Idle' /\ disturbed' = {}
      <4>1. disturbed = {}
        BY <2>1, <3>3 DEF Record
      <4>2. CASE \E p \in Pods : PodStep(p)
        BY <3>3, <4>1, <4>2, KeptOnSteps
      <4>3. CASE Tick \/ \E o \in Jobs \cup Pods : Delete(o)
        BY <3>3, <4>1, <4>3 DEF Tick, Delete, Kept, Inv, OneWorker, LeaseNamesWorker,
           ClaimsFree, Idle, Working
      <4>4. QED
        BY <2>1, <4>2, <4>3 DEF Act
    <3>4. QED
      BY <3>1, <3>2, <3>3
  <2>5. QED
    BY <2>2, <2>3, <2>4 DEF Inv, Kept
<1>3. QED
  BY <1>1, <1>2

LEMMA AlwaysInv == Spec => []Inv
  BY InvInit, InvNext, PTL DEF Spec

-----------------------------------------------------------------------------
(* The theorems.                                                           *)

\* Every variable of the lease protocol (worker.py) keeps its type.
THEOREM LeaseTyped == Spec => []TypeOK
<1>1. Inv => TypeOK
  BY DEF Inv
<1>2. QED
  BY <1>1, AlwaysInv, PTL

\* acquire_worker_lease, _renew_lease_loop and release_worker_lease keep the pods of a
\* generation apart unless one has been disturbed since the workflow was last idle.
THEOREM LeaseExcludes == Spec => []OneWorker
<1>1. Inv => OneWorker
  BY DEF Inv
<1>2. QED
  BY <1>1, AlwaysInv, PTL

\* The pod at work has the lease, in the name of its Job.
THEOREM LeaseIsWorkers == Spec => []LeaseNamesWorker
<1>1. Inv => LeaseNamesWorker
  BY DEF Inv
<1>2. QED
  BY <1>1, AlwaysInv, PTL

-----------------------------------------------------------------------------
(* Refinement.                                                             *)

W == {p \in Pods : Working(p)}

\* A step in which no pod begins or ends to work may only disturb one.
LEMMA SameWorkers ==
  ASSUME Inv, Record, W' = W
  PROVE  Mutex!Disturb \/ (disturbed' # {}) = (disturbed # {})
<1>1. Idle' <=> Idle
  BY DEF W, Idle
<1>2. CASE Idle
  BY <1>1, <1>2 DEF Record, Inv, RecordCleared
<1>3. CASE ~Idle /\ disturbed # {}
  BY <1>1, <1>3 DEF Record
<1>4. CASE ~Idle /\ disturbed = {}
  <2>1. CASE disturbed' = {}
    BY <1>4, <2>1
  <2>2. CASE disturbed' # {}
    BY <1>4, <2>2 DEF Mutex!Disturb, W, Idle
  <2>3. QED
    BY <2>1, <2>2
<1>5. QED
  BY <1>2, <1>3, <1>4

\* A step of a pod changes at most whether that pod is at work.
LEMMA OthersKeepWorking ==
  ASSUME Inv, NEW p \in Pods, PodStep(p), NEW q \in Pods \ {p}
  PROVE  Working(q)' <=> Working(q)
<1>1. pc \in [Pods -> PCs]
  BY DEF Inv, TypeOK
<1>2. pc'[q] = pc[q]
  BY <1>1 DEF PodStep, StartPod, Crash, AcquireCreate, AcquireRead, AcquireInspect,
     AcquireReplace, RenewRead, RenewReplace, Release, Acquire, Return, End, Goto
<1>3. QED
  BY <1>2 DEF Working

\* Every step of the lease protocol is a step of the mutual exclusion, or changes nothing
\* that it speaks of.
LEMMA StepRefines ==
  ASSUME Inv, Act, Record
  PROVE  [Mutex!Next]_<<W, disturbed # {}>>
<1>1. CASE W' = W
  BY <1>1, SameWorkers DEF Mutex!Next
<1>2. CASE W' # W
  <2>1. PICK p \in Pods : PodStep(p)
    BY <1>2 DEF Act, Tick, Delete, W, Working
  <2>2. \A q \in Pods \ {p} : Working(q)' <=> Working(q)
    BY <2>1, OthersKeepWorking
  <2>3. CASE Working(p)'
    <3>1. ~Working(p)
      BY <1>2, <2>2, <2>3 DEF W
    <3>2. W = {} \/ disturbed # {}
      BY <2>1, <2>3, <3>1, EntriesAreGood DEF W, Idle
    <3>3. W' = W \cup {p} /\ p \notin W
      BY <2>2, <2>3, <3>1 DEF W
    <3>4. (disturbed' # {}) \in {disturbed # {}, TRUE}
      BY <2>3 DEF Record, Idle
    <3>5. Mutex!Enter(p)
      BY <3>2, <3>3, <3>4 DEF Mutex!Enter, W
    <3>6. QED
      BY <3>5 DEF Mutex!Next
  <2>4. CASE ~Working(p)'
    <3>1. Working(p)
      BY <1>2, <2>2, <2>4 DEF W
    <3>2. W' = W \ {p} /\ p \in W
      BY <2>2, <2>4, <3>1 DEF W
    <3>3. W' = {} <=> Idle'
      BY DEF W, Idle
    <3>4. CASE W' = {}
      BY <3>2, <3>3, <3>4 DEF Mutex!Next, Mutex!Leave, Record, W
    <3>5. CASE W' # {}
      <4>1. disturbed # {}
        BY <3>1, <3>2, <3>5 DEF W, Inv, OneWorker
      <4>2. disturbed' # {}
        BY <3>3, <3>5, <4>1 DEF Record
      <4>3. Mutex!Leave(p)
        BY <3>2, <3>5, <4>1, <4>2 DEF Mutex!Leave, W
      <4>4. QED
        BY <4>3 DEF Mutex!Next
    <3>6. QED
      BY <3>4, <3>5
  <2>5. QED
    BY <2>3, <2>4
<1>3. QED
  BY <1>1, <1>2

\* The lease implements the mutual exclusion that the operator relies on when it creates
\* one Job before it cancels another (enqueue_workflow_job).
THEOREM LeaseImplementsMutex == Spec => MutexSpec
<1>1. Init => Mutex!Init
  BY DEF Init, Mutex!Init, Working
<1>2. Inv /\ [Next]_vars => [Mutex!Next]_<<W, disturbed # {}>>
  <2>1. CASE UNCHANGED vars
    BY <2>1 DEF vars, W, Working
  <2>2. ASSUME Inv, Next
        PROVE  [Mutex!Next]_<<W, disturbed # {}>>
    BY <2>2, StepRefines DEF Next, Act
  <2>3. QED
    BY <2>1, <2>2
<1>3. QED
  BY <1>1, <1>2, AlwaysInv, PTL DEF Spec, MutexSpec, Mutex!Spec, W

=============================================================================
