-------------------------- MODULE MCStepScheduler --------------------------
(* Instances of StepScheduler for TLC: small workflows of every shape.     *)
EXTENDS StepScheduler, TLC

\* At most one step is gated, and at most one (c) conditional.
Workflow(deps, gated, c, then, else) ==
  [deps        |-> deps,
   gated       |-> {gated} \ {0},
   conditional |-> {c} \ {0},
   then        |-> [s \in Steps |-> IF s = c THEN then ELSE {}],
   else        |-> [s \in Steps |-> IF s = c THEN else ELSE {}]]

Dependencies == {d \in [1..3 -> SUBSET (1..3)] : \A s \in 1..3 : s \notin d[s]}

\* Every workflow of three steps that validate_workflow_graph accepts.
AllGraphs ==
  {g \in {Workflow(d, a, c, t, e) : d \in Dependencies, a \in 0..3, c \in 0..3,
                                   t \in SUBSET (1..3), e \in SUBSET (1..3)} :
     /\ N = 3
     /\ \A c \in g.conditional : g.then[c] \cap (g.else[c] \cup {c}) = {} /\ c \notin g.else[c]
     /\ ValidGraph(g)}

\* A condition, its two branches, and a step that does not depend on it.
Branching ==
  {Workflow((1 :> {}) @@ (2 :> {1}) @@ (3 :> {1}) @@ (4 :> {2}), 0, 1, {2}, {3})}

=============================================================================
