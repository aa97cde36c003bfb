---------------------------- MODULE WorkerMutex ----------------------------
(***************************************************************************)
(* What the worker lease promises, whatever it is made of: the pods of a   *)
(* workflow generation work one at a time, unless one at work has been     *)
(* disturbed; and once no pod is at work the promise holds again.          *)
(***************************************************************************)
CONSTANT Pods

VARIABLES
  working,    \* the pods that execute the workflow
  excused     \* a pod has been disturbed since the workflow was last idle

Init == working = {} /\ excused = FALSE

\* A pod begins to work; another one may be at work only after a disturbance.
Enter(p) ==
  /\ p \notin working
  /\ working = {} \/ excused
  /\ working' = working \cup {p}
  /\ excused' \in {excused, TRUE}

\* A pod ends, in whatever way; the last one to end leaves no disturbance behind.
Leave(p) ==
  /\ p \in working
  /\ working' = working \ {p}
  /\ excused' = (excused /\ working' # {})

\* Something happens that the lease does not protect against.
Disturb ==
  /\ working # {}
  /\ excused' = TRUE
  /\ UNCHANGED working

Next == Disturb \/ \E p \in Pods : Enter(p) \/ Leave(p)

Spec == Init /\ [][Next]_<<working, excused>>

=============================================================================
