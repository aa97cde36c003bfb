-------------------------- MODULE CanvasAlgorithms --------------------------
(***************************************************************************)
(* The two algorithms of lib/composer-utils.ts, as the code computes them, *)
(* compared on every canvas of ComposerCanvas with what they are meant to  *)
(* compute.  The order in which nodes are taken does not matter to either  *)
(* result, so the stack and the list of nodes are sets here.  A loop is a  *)
(* recursion on the number of its iterations that do something, which is   *)
(* at most that of the names.                                              *)
(***************************************************************************)
EXTENDS ComposerCanvas, FiniteSetsExt

Iterations == 0 .. Cardinality(Names)

\* What is on the stack of hasCycle: its start and the targets of what has been visited, but
\* for nodes that it would only drop.
Stack(E, start, visited) ==
  ({start} \cup {e[2] : e \in {f \in E : f[1] \in visited}}) \ visited

\* The search ends when it takes the goal from the stack, or when that is empty.
Visit(E, start, goal, visited) ==
  LET stack == Stack(E, start, visited) IN
  IF goal \in visited \/ stack = {} THEN visited
  ELSE visited \cup {CHOOSE n \in stack : TRUE}

Finds(E, start, goal) ==
  LET visited[k \in Iterations] ==
        IF k = 0 THEN {} ELSE Visit(E, start, goal, visited[k - 1])
  IN  goal \in visited[Cardinality(Names)]

\* Mutant of SearchCycle: the search starts at the wrong end of the new edge.
SearchFromSource(E, s, t) == Finds(E, s, t)

\* hasCycle
SearchCycle(E, s, t) == Finds(E \cup {<<s, t>>}, t, s)

-----------------------------------------------------------------------------
Parents(E, n) == {e[1] : e \in {f \in E : f[2] = n}}

\* Mutant of Ready: one parent with a depth is enough.
ReadyEarly(E, depth) ==
  {n \in nodes : depth[n] = 0 /\ (Parents(E, n) = {} \/ \E m \in Parents(E, n) : depth[m] # 0)}

\* Nodes that a pass of autoLayout can place; 0 is no depth yet.
Ready(E, depth) == {n \in nodes : depth[n] = 0 /\ \A m \in Parents(E, n) : depth[m] # 0}

Below(E, n, depth) == 1 + Max({0} \cup {depth[m] : m \in Parents(E, n)})

Place(E, depth) ==
  IF Ready(E, depth) = {} THEN depth
  ELSE LET n == CHOOSE n \in Ready(E, depth) : TRUE IN [depth EXCEPT ![n] = Below(E, n, depth)]

Depths(E) ==
  LET depth[k \in Iterations] ==
        IF k = 0 THEN [n \in nodes |-> 0] ELSE Place(E, depth[k - 1])
  IN  depth[Cardinality(Names)]

\* autoLayout, with its fallback for nodes that it could not place.
Layout == [n \in nodes |-> IF Depths(edges)[n] = 0 THEN 1 ELSE Depths(edges)[n]]

-----------------------------------------------------------------------------
\* hasCycle, a search with a stack and a visited set, says of every connection of every
\* canvas whether it would close a cycle, as onConnect and isValidConnection rely on.
SearchFindsEveryCycle ==
  \A s, t \in nodes : s # t => SearchCycle(edges, s, t) = HasCycle(edges, s, t)

\* autoLayout ends, and puts every step one row below the lowest of its dependencies.
LayoutFollowsDependencies == \A n \in nodes : Layout[n] = Below(edges, n, Layout)
=============================================================================
