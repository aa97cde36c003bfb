---------------------------- MODULE WorkerLease ----------------------------
(***************************************************************************)
(* The Kubernetes Lease that keeps the workers of one workflow generation  *)
(* apart (operator/worker.py): acquire_worker_lease call by call, the      *)
(* renewal thread, and the release.  WorkflowLifecycle takes an            *)
(* acquisition for one step; here every call to the API server is a step,  *)
(* several pods may make theirs at once, and time passes.                  *)
(*                                                                         *)
(* The API server refuses to replace an object that has been written since *)
(* it was read.  A pod remembers whether its reading is still current      *)
(* instead of a resource version.                                          *)
(***************************************************************************)
EXTENDS Integers

CONSTANTS
  Pods,         \* worker pods
  Jobs,         \* the Jobs of one generation
  JobOf,        \* the Job of each pod: the holder identity it uses
  Duration,     \* lease_duration_seconds, in units of the clock
  MaxTime,      \* bound of the model: how far the clock runs
  NoJob         \* the holder of a lease that does not exist

ASSUME LeaseAssumption ==
  /\ JobOf \in [Pods -> Jobs]
  /\ Duration \in Nat
  /\ MaxTime \in Nat
  /\ NoJob \notin Jobs
  /\ Pods \cap Jobs = {}

VARIABLES
  now,          \* the clock
  lease,        \* the Lease object
  deleted,      \* Jobs that have been deleted, and running pods that have been, on their own
  pc,           \* where each pod is
  at,           \* the time a pod has sampled, to be written to the lease
  seen,         \* the Lease as a pod has read it
  current,      \* pods whose reading is current
  disturbed     \* history: pods disturbed since no pod was last at work

calls == <<at, seen>>
vars == <<now, lease, deleted, pc, calls, current, disturbed>>

Time == 0..MaxTime
NoLease == [holder |-> NoJob, renew |-> 0]
Leases == [holder : Jobs \cup {NoJob}, renew : Time]

Over == {"failed", "succeeded"}
PCs == {"none", "create", "read", "inspect", "replace", "work", "renew"} \cup Over

Working(p) == pc[p] \in {"work", "renew"}
Running(p) == pc[p] \notin {"none"} \cup Over
PodsOf(j) == {p \in Pods : JobOf[p] = j}

TypeOK ==
  /\ now \in Time
  /\ lease \in Leases
  /\ deleted \subseteq Jobs \cup Pods
  /\ pc \in [Pods -> PCs]
  /\ at \in [Pods -> Time]
  /\ seen \in [Pods -> Leases]
  /\ current \subseteq Pods
  /\ disturbed \subseteq Pods

Init ==
  /\ now = 0
  /\ lease = NoLease
  /\ deleted = {}
  /\ pc = [p \in Pods |-> "none"]
  /\ at = [p \in Pods |-> 0]
  /\ seen = [p \in Pods |-> NoLease]
  /\ current = {}
  /\ disturbed = {}

Goto(p, where) == pc' = [pc EXCEPT ![p] = where]

\* A call that returns, or is cut short, forgets what it has read.
Return(p, where) ==
  /\ Goto(p, where)
  /\ at' = [at EXCEPT ![p] = 0]
  /\ seen' = [seen EXCEPT ![p] = NoLease]

\* The pod ends or gives up: the lease stays as it is.
End(p, where) ==
  /\ Return(p, where)
  /\ current' = current \ {p}
  /\ deleted' = deleted \ {p}
  /\ UNCHANGED lease

\* A write of the Lease makes every reading of it old.
Put(new) == lease' = new /\ current' = {}

Acquire(p) == Return(p, "work") /\ Put([holder |-> JobOf[p], renew |-> at[p]])
Get(p) == seen' = [seen EXCEPT ![p] = lease] /\ current' = current \cup {p}

-----------------------------------------------------------------------------
(* Jobs and pods.                                                          *)

\* The Job controller starts a pod of a Job that has not succeeded; it may do so while
\* a deleted one is still terminating.
StartPod(p) ==
  /\ pc[p] = "none"
  /\ JobOf[p] \notin deleted
  /\ \A q \in PodsOf(JobOf[p]) : pc[q] # "succeeded"
  /\ Goto(p, "create")
  /\ at' = [at EXCEPT ![p] = now]
  /\ UNCHANGED <<now, lease, deleted, seen, current>>

\* cancel_worker_job, which deletes the pods of the Job with it, or the eviction of a pod alone:
\* a pod goes on until it has terminated.
Delete(o) ==
  /\ o \notin deleted
  /\ o \in Pods => Running(o) /\ JobOf[o] \notin deleted
  /\ deleted' = (deleted \ PodsOf(o)) \cup {o}
  /\ UNCHANGED <<now, lease, pc, calls, current>>

Crash(p) ==
  /\ Running(p)
  /\ End(p, "failed")
  /\ UNCHANGED now

Tick ==
  /\ now < MaxTime
  /\ now' = now + 1
  /\ UNCHANGED <<lease, deleted, pc, calls, current>>

-----------------------------------------------------------------------------
(* acquire_worker_lease.                                                   *)

\* create_namespaced_lease; the time was sampled when the function was entered.
AcquireCreate(p) ==
  /\ pc[p] = "create"
  /\ IF lease.holder = NoJob
     THEN Acquire(p)
     ELSE Goto(p, "read") /\ UNCHANGED <<lease, calls, current>>
  /\ UNCHANGED <<now, deleted>>

\* Mutant: a lease that has reached its duration counts as expired.
ExpiredEarly(time, l) == time - l.renew >= Duration

Expired(time, l) == time - l.renew > Duration

\* read_namespaced_lease; it fails if the lease has gone since.
AcquireRead(p) ==
  /\ pc[p] = "read"
  /\ IF lease.holder = NoJob
     THEN End(p, "failed")
     ELSE /\ Get(p)
          /\ Goto(p, IF Expired(at[p], lease) \/ lease.holder = JobOf[p]
                     THEN "replace" ELSE "inspect")
          /\ UNCHANGED <<lease, deleted, at>>
  /\ UNCHANGED now

\* Mutant: a Job one of whose pods has failed counts as over.
JobIsOverOnFailure(j) ==
  j \in deleted \/ \E p \in PodsOf(j) : pc[p] \in Over

\* lease_holder_job_is_active is false: no pod of the Job is active and one has ended.  A pod
\* that has been deleted is not active, although it may go on, and may count as failed.
JobIsOver(j) ==
  \/ j \in deleted
  \/ /\ \A p \in PodsOf(j) \ deleted : ~Running(p)
     /\ \E p \in PodsOf(j) : pc[p] \in Over \/ p \in deleted

\* The Job of the holder is looked up; when that fails it is taken to be active.
AcquireInspect(p) ==
  /\ pc[p] = "inspect"
  /\ \/ /\ JobIsOver(seen[p].holder)
        /\ Goto(p, "replace")
        /\ UNCHANGED <<lease, deleted, calls, current>>
     \/ End(p, "failed")
  /\ UNCHANGED now

\* Mutant: the lease is replaced whether or not it has been written since.
AcquireReplaceBlindly(p) ==
  /\ pc[p] = "replace"
  /\ Acquire(p)
  /\ UNCHANGED <<now, deleted>>

\* replace_namespaced_lease: a conflict means that the lease is not acquired.
AcquireReplace(p) ==
  /\ pc[p] = "replace"
  /\ IF p \in current THEN Acquire(p) /\ UNCHANGED deleted ELSE End(p, "failed")
  /\ UNCHANGED now

-----------------------------------------------------------------------------
(* _renew_lease_loop and release_worker_lease.                             *)

\* The renewal thread reads the lease, whoever holds it; a failure is logged.
RenewRead(p) ==
  /\ pc[p] = "work"
  /\ lease.holder # NoJob
  /\ Get(p)
  /\ at' = [at EXCEPT ![p] = now]
  /\ Goto(p, "renew")
  /\ UNCHANGED <<now, lease, deleted>>

\* Mutant: the time the lease will run out at is written.
RenewReplaceDeadline(p) ==
  /\ pc[p] = "renew"
  /\ IF p \in current
     THEN Put([lease EXCEPT !.renew = at[p] + Duration])
     ELSE current' = current \ {p} /\ UNCHANGED lease
  /\ Return(p, "work")
  /\ UNCHANGED <<now, deleted>>

RenewReplace(p) ==
  /\ pc[p] = "renew"
  /\ IF p \in current
     THEN Put([lease EXCEPT !.renew = at[p]])
     ELSE current' = current \ {p} /\ UNCHANGED lease
  /\ Return(p, "work")
  /\ UNCHANGED <<now, deleted>>

\* The workflow has come to an end in this pod; the lease is deleted, whoever holds it.
Release(p) ==
  /\ Working(p)
  /\ Put(NoLease)
  /\ \E end \in Over : Return(p, end)
  /\ deleted' = deleted \ {p}
  /\ UNCHANGED now

-----------------------------------------------------------------------------
(* What the lease does not protect a pod at work against: it or its Job    *)
(* has been deleted, another pod of its Job is running, or its lease has   *)
(* run out.                                                                *)
Disturbed(p) ==
  /\ Working(p)
  /\ \/ p \in deleted \/ JobOf[p] \in deleted
     \/ \E q \in PodsOf(JobOf[p]) \ {p} : Running(q)
     \/ lease.holder = JobOf[p] /\ now - lease.renew > Duration

Idle == \A p \in Pods : ~Working(p)

Record ==
  disturbed' = IF Idle' THEN {} ELSE disturbed \cup {p \in Pods : Disturbed(p)'}

PodStep(p) ==
  \/ StartPod(p) \/ Crash(p)
  \/ AcquireCreate(p) \/ AcquireRead(p) \/ AcquireInspect(p) \/ AcquireReplace(p)
  \/ RenewRead(p) \/ RenewReplace(p) \/ Release(p)

Next ==
  /\ Tick \/ (\E o \in Jobs \cup Pods : Delete(o)) \/ (\E p \in Pods : PodStep(p))
  /\ Record

Spec == Init /\ [][Next]_vars

-----------------------------------------------------------------------------
(* Properties.                                                             *)

\* The pods of a generation work one at a time (acquire_worker_lease), unless one at
\* work has been disturbed since the workflow was last idle.
OneWorker ==
  disturbed = {} => \A p, q \in Pods : Working(p) /\ Working(q) => p = q

\* An undisturbed pod at work has the lease in the name of its Job: nothing that
\* _renew_lease_loop, release_worker_lease and late acquisitions do takes it away.
LeaseNamesWorker ==
  disturbed = {} => \A p \in Pods : Working(p) => lease.holder = JobOf[p]

\* The lease as the mutual exclusion its users rely on (enqueue_workflow_job).
Mutex == INSTANCE WorkerMutex
           WITH working <- {p \in Pods : Working(p)}, excused <- disturbed # {}
MutexSpec == Mutex!Spec

\* A pod at work that has not been disturbed itself does not lose its lock
\* (_renew_lease_loop keeps it alive), whatever has happened to other pods.
WorkersKeepTheirLock ==
  \A p \in Pods \ disturbed : Working(p) => lease.holder = JobOf[p]

=============================================================================
