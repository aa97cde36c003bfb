------------------------ MODULE MCWorkflowLifecycle ------------------------
(* Instances of WorkflowLifecycle for TLC: which of the rare events happen. *)
EXTENDS WorkflowLifecycle, TLC

Quiet(runs) == [e \in RareEvents \cup {"runs"} |-> IF e = "runs" THEN runs ELSE 0]
Once(events, runs) == [e \in events |-> 1] @@ Quiet(runs)

\* Which events meet in one behaviour: the watchdog, a pod that dies and one that
\* overtakes the handler; a failing call and a restart; a trigger and a failing call; a
\* cancellation and a retry; a trigger and a lease that expires under a worker; a trigger
\* with another spec.
Operations ==
  {Once({"tick", "crash", "overtake"}, 3), Once({"fault", "restart"}, 3),
   Once({"trigger", "fault"}, 3), Once({"cancel", "retry"}, 3), Once({"trigger", "lapse"}, 3),
   Once({"update"}, 2)}

OneDecision  == {Once({"decide"}, 1)}
TwoDecisions == {[Once({"lapse"}, 1) EXCEPT !["decide"] = 2]}
TwoTicks     == {[Quiet(3) EXCEPT !["tick"] = 2]}

=============================================================================
