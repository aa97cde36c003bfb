--------------------------- MODULE MCWorkerLease ---------------------------
(* An instance of WorkerLease for TLC: two pods of one Job, one of another. *)
EXTENDS WorkerLease, TLC

CONSTANTS p1, p2, p3, j1, j2

TwoJobs == p1 :> j1 @@ p2 :> j1 @@ p3 :> j2

\* The pods of one Job are alike.
Alike == Permutations({p1, p2})

=============================================================================
