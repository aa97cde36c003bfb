------------------------ MODULE ComposerCanvasProofs ------------------------
(* Proofs about ComposerCanvas and CanvasAlgorithms, for every set of names *)
(* and every number of saves under way.                                     *)
EXTENDS CanvasAlgorithms, Recursion

\* Fewer edges make no cycle.
LEMMA AcyclicSubset ==
  ASSUME NEW E, Acyclic(E), NEW D \in SUBSET E
  PROVE  Acyclic(D)
BY DEF Acyclic

\* onConnect asks enough: an edge that the search does not refuse closes no cycle.  The set C
\* that the search has visited is closed under the edges and does not hold the new edge's
\* source, so outside C the new edge ends nowhere and no old one arrives from within.
LEMMA AcyclicConnected ==
  ASSUME NEW E, NEW s \in Names, NEW t \in Names, Acyclic(E), ~HasCycle(E, s, t)
  PROVE  Acyclic(E \cup {<<s, t>>})
<1> DEFINE with == E \cup {<<s, t>>}
<1>1. PICK C \in SUBSET Names :
         t \in C /\ s \notin C /\ \A e \in with : e[1] \in C => e[2] \in C
  BY DEF HasCycle
<1> SUFFICES ASSUME NEW S \in SUBSET Names, S # {}
             PROVE  \E n \in S : \A m \in S : <<m, n>> \notin with
  BY DEF Acyclic
<1>2. CASE S \subseteq C
  <2>1. PICK n \in S : \A m \in S : <<m, n>> \notin E
    BY DEF Acyclic
  <2>2. \A m \in S : <<m, n>> # <<s, t>>
    BY <1>1, <1>2
  <2> QED
    BY <2>1, <2>2
<1>3. CASE ~(S \subseteq C)
  <2>1. S \ C # {} /\ S \ C \in SUBSET Names
    BY <1>3
  <2>2. PICK n \in S \ C : \A m \in S \ C : <<m, n>> \notin E
    BY <2>1 DEF Acyclic
  <2>3. ASSUME NEW m \in S, <<m, n>> \in with PROVE FALSE
    <3>1. m \in C => n \in C
      BY <1>1, <2>3
    <3>2. m \in S \ C /\ <<m, n>> \notin E
      BY <3>1, <2>2
    <3> QED
      BY <3>2, <2>3, <1>1, <2>2
  <2> QED
    BY <2>2, <2>3
<1> QED
  BY <1>2, <1>3

\* A name that no step has takes the place of another in every edge: no cycle appears.
LEMMA AcyclicRenamed ==
  ASSUME NEW N \in SUBSET Names, NEW E \in SUBSET (N \X N), Acyclic(E),
         NEW n \in N, NEW m \in Names, m \notin N
  PROVE  Acyclic(Renamed(E, n, m))
<1> DEFINE new(x) == IF x = n THEN m ELSE x
<1>1. \A f \in Renamed(E, n, m) :
         \E a, b \in N : <<a, b>> \in E /\ f = <<new(a), new(b)>>
  <2> SUFFICES ASSUME NEW e \in E
               PROVE  \E a, b \in N : <<a, b>> \in E /\ <<new(e[1]), new(e[2])>> = <<new(a), new(b)>>
    BY SMTT(40) DEF Renamed
  <2>1. e[1] \in N /\ e[2] \in N /\ e = <<e[1], e[2]>>
    OBVIOUS
  <2> QED
    BY <2>1
<1> SUFFICES ASSUME NEW S \in SUBSET Names, S # {}
             PROVE  \E k \in S : \A j \in S : <<j, k>> \notin Renamed(E, n, m)
  BY DEF Acyclic
<1> DEFINE T == {x \in N : new(x) \in S}
<1>2. CASE T = {}
  <2> SUFFICES ASSUME NEW j \in S, NEW k \in S, <<j, k>> \in Renamed(E, n, m) PROVE FALSE
    OBVIOUS
  <2>1. PICK a \in N, b \in N : <<a, b>> \in E /\ <<j, k>> = <<new(a), new(b)>>
    BY <1>1
  <2>2. a \in T
    BY <2>1
  <2> QED
    BY <2>2, <1>2
<1>3. CASE T # {}
  <2>1. PICK k \in T : \A j \in T : <<j, k>> \notin E
    BY <1>3 DEF Acyclic
  <2>2. ASSUME NEW j \in S, <<j, new(k)>> \in Renamed(E, n, m) PROVE FALSE
    <3>1. PICK a \in N, b \in N : <<a, b>> \in E /\ <<j, new(k)>> = <<new(a), new(b)>>
      BY <1>1, <2>2
    <3>2. j = new(a) /\ new(k) = new(b)
      BY <3>1
    <3>3. a \in T /\ b = k
      BY <3>2
    <3> QED
      BY <3>1, <3>3, <2>1
  <2> QED
    BY <2>1, <2>2
<1> QED
  BY <1>2, <1>3

-----------------------------------------------------------------------------
\* The operator's checks hold of what is edited, saved and stored: the inductive invariant.
CanvasInv == TypeOK /\ CanvasIsDag

\* An edit leaves the canvas acceptable.
LEMMA EditInductive ==
  ASSUME CanvasInv, Edit
  PROVE  /\ nodes' \subseteq Names
         /\ edges' \subseteq nodes' \X nodes'
         /\ Acyclic(edges')
<1> USE DEF CanvasInv, TypeOK, CanvasIsDag, NotRefused, Payload
<1>1. ASSUME NEW n \in Names, AddStep(n)
      PROVE  nodes' \subseteq Names /\ edges' \subseteq nodes' \X nodes' /\ Acyclic(edges')
  BY <1>1 DEF AddStep, Acyclic
<1>2. ASSUME NEW s \in Names, NEW t \in Names, Connect(s, t)
      PROVE  nodes' \subseteq Names /\ edges' \subseteq nodes' \X nodes' /\ Acyclic(edges')
  <2>1. Acyclic(edges \cup {<<s, t>>})
    BY <1>2, AcyclicConnected DEF Connect
  <2> QED
    BY <1>2, <2>1 DEF Connect
<1>3. ASSUME NEW n \in Names, NEW m \in Names, Rename(n, m)
      PROVE  nodes' \subseteq Names /\ edges' \subseteq nodes' \X nodes' /\ Acyclic(edges')
  <2>1. Acyclic(Renamed(edges, n, m))
    BY <1>3, AcyclicRenamed DEF Rename
  <2>2. Renamed(edges, n, m) \subseteq ((nodes \ {n}) \cup {m}) \X ((nodes \ {n}) \cup {m})
    <3> SUFFICES ASSUME NEW e \in edges
                 PROVE  <<IF e[1] = n THEN m ELSE e[1], IF e[2] = n THEN m ELSE e[2]>>
                          \in ((nodes \ {n}) \cup {m}) \X ((nodes \ {n}) \cup {m})
      BY DEF Renamed
    <3>1. e[1] \in nodes /\ e[2] \in nodes
      OBVIOUS
    <3> QED
      BY <3>1
  <2> QED
    BY <1>3, <2>1, <2>2 DEF Rename
<1>4. ASSUME NEW e \in edges, DeleteEdge(e) \/ DeleteEdgeByKey(e)
      PROVE  nodes' \subseteq Names /\ edges' \subseteq nodes' \X nodes' /\ Acyclic(edges')
  BY <1>4, AcyclicSubset DEF DeleteEdge, DeleteEdgeByKey
<1>5. ASSUME NEW S \in SUBSET nodes, DeleteSteps(S)
      PROVE  nodes' \subseteq Names /\ edges' \subseteq nodes' \X nodes' /\ Acyclic(edges')
  <2>1. edges' \in SUBSET edges /\ nodes' = nodes \ S
    BY <1>5 DEF DeleteSteps
  <2>2. Acyclic(edges')
    BY <2>1, AcyclicSubset
  <2>3. ASSUME NEW e \in edges' PROVE e \in nodes' \X nodes'
    BY <1>5, <2>3 DEF DeleteSteps
  <2> QED
    BY <2>1, <2>2, <2>3
<1>6. CASE EditData
  BY <1>6 DEF EditData, canvas
<1> QED
  BY <1>1, <1>2, <1>3, <1>4, <1>5, <1>6 DEF Edit

\* So does a save, its answer, or nothing; what is stored was a canvas.
LEMMA CanvasInductive == CanvasInv /\ [Next]_vars => CanvasInv'
<1> SUFFICES ASSUME CanvasInv, [Next]_vars PROVE CanvasInv'
  OBVIOUS
<1> USE DEF CanvasInv, TypeOK, CanvasIsDag, NotRefused, Payload
<1>1. CASE Edit
  <2>1. UNCHANGED <<saving, stored, isNew>> /\ dirty' \in BOOLEAN /\ forgiven' \in BOOLEAN
    BY <1>1 DEF Edit, AddStep, Connect, Rename, DeleteEdge, DeleteEdgeByKey, DeleteSteps,
                EditData, Flagged
  <2>2. nodes' \subseteq Names /\ edges' \subseteq nodes' \X nodes' /\ Acyclic(edges')
    BY <1>1, EditInductive
  <2> QED
    BY <2>1, <2>2
<1>2. CASE Save
  BY <1>2 DEF Save, canvas
<1>3. ASSUME NEW p \in saving, Saved(p) PROVE CanvasInv'
  <2>1. (p # Payload) \in BOOLEAN
    OBVIOUS
  <2> QED
    BY <1>3, <2>1 DEF Saved, canvas
<1>4. ASSUME NEW p \in saving, Created(p) PROVE CanvasInv'
  BY <1>4 DEF Created
<1>5. ASSUME NEW p \in saving, SaveFails(p) PROVE CanvasInv'
  BY <1>5 DEF SaveFails, canvas
<1>6. CASE UNCHANGED vars
  BY <1>6 DEF vars
<1> QED
  BY <1>1, <1>2, <1>3, <1>4, <1>5, <1>6 DEF Next

LEMMA CanvasInvariant == Spec => []CanvasInv
<1>1. Init => CanvasInv
  BY DEF Init, CanvasInv, TypeOK, CanvasIsDag, Payload, Workflows, NotRefused
<1>2. QED
  BY <1>1, CanvasInductive, PTL DEF Spec

\* The variables of the page keep their types.
THEOREM CanvasTyped == Spec => []TypeOK
BY CanvasInvariant, PTL DEF CanvasInv

\* However many steps there are, no sequence of edits and saves makes a workflow that the
\* operator's validation of the graph refuses for a cycle or an unknown dependency.
THEOREM CanvasStaysDag == Spec => []CanvasIsDag
BY CanvasInvariant, PTL DEF CanvasInv

\* Without the flag, and without what the page forgives, the canvas is what is stored.
THEOREM CanvasFlagsWork == Spec => []UnsavedWorkIsFlagged
<1>1. Init => UnsavedWorkIsFlagged
  BY DEF Init, UnsavedWorkIsFlagged, Payload, Workflows
<1>2. CanvasInv /\ UnsavedWorkIsFlagged /\ [Next]_vars => UnsavedWorkIsFlagged'
  <2> SUFFICES ASSUME CanvasInv, UnsavedWorkIsFlagged, [Next]_vars
               PROVE  UnsavedWorkIsFlagged'
    OBVIOUS
  <2> USE DEF UnsavedWorkIsFlagged
  <2>1. CASE Edit
    BY <2>1 DEF Edit, AddStep, Connect, Rename, DeleteEdge, DeleteEdgeByKey, DeleteSteps,
                EditData, Flagged
  <2>2. CASE Save
    BY <2>2 DEF Save, Payload, canvas
  <2>3. ASSUME NEW p \in saving, Saved(p) \/ SaveFails(p) PROVE UnsavedWorkIsFlagged'
    BY <2>3 DEF Saved, SaveFails, Payload, canvas
  <2>4. ASSUME NEW p \in saving, Created(p) PROVE UnsavedWorkIsFlagged'
    BY <2>4 DEF Created, Payload, CanvasInv, TypeOK
  <2>5. CASE UNCHANGED vars
    BY <2>5 DEF vars, Payload
  <2> QED
    BY <2>1, <2>2, <2>3, <2>4, <2>5 DEF Next
<1>3. QED
  BY <1>1, <1>2, CanvasInvariant, PTL DEF Spec

-----------------------------------------------------------------------------
\* Canvases are finite, and there are as many iterations as names.
LEMMA NamesCounted == Cardinality(Names) \in Nat /\ IsFiniteSet(Names)
BY ComposerAssumption, FS_CardinalityType

-----------------------------------------------------------------------------
(* hasCycle.                                                               *)

VisitStep(E, start, goal) == [A \in SUBSET Names |-> Visit(E, start, goal, A)]

\* An iteration visits one node that was on the stack, unless the search has ended.
LEMMA VisitTakes ==
  ASSUME NEW E \in SUBSET (Names \X Names), NEW start \in Names, NEW goal, NEW A \in SUBSET Names
  PROVE  /\ Visit(E, start, goal, A) \in SUBSET Names
         /\ A \subseteq Visit(E, start, goal, A)
         /\ Visit(E, start, goal, A) \subseteq A \cup Stack(E, start, A)
         /\ Visit(E, start, goal, A) = A => goal \in A \/ Stack(E, start, A) = {}
<1>1. Stack(E, start, A) \subseteq Names /\ Stack(E, start, A) \cap A = {}
  BY DEF Stack
<1>2. CASE goal \in A \/ Stack(E, start, A) = {}
  BY <1>2 DEF Visit
<1>3. CASE ~(goal \in A \/ Stack(E, start, A) = {})
  <2> DEFINE n == CHOOSE n \in Stack(E, start, A) : TRUE
  <2>1. n \in Stack(E, start, A)
    BY <1>3
  <2>2. Visit(E, start, goal, A) = A \cup {n}
    BY <1>3 DEF Visit
  <2> HIDE DEF n
  <2> QED
    BY <1>1, <2>1, <2>2
<1> QED
  BY <1>2, <1>3

LEMMA VisitStepType ==
  ASSUME NEW E \in SUBSET (Names \X Names), NEW start \in Names, NEW goal
  PROVE  /\ VisitStep(E, start, goal) \in [SUBSET Names -> SUBSET Names]
         /\ \A A \in SUBSET Names : VisitStep(E, start, goal)[A] = Visit(E, start, goal, A)
BY VisitTakes DEF VisitStep

\* The recursion of the search has a solution, and the search takes one.
LEMMA FindsByVisits ==
  ASSUME NEW E \in SUBSET (Names \X Names), NEW start \in Names, NEW goal
  PROVE  \E visited :
           /\ Repeats(visited, Cardinality(Names), SUBSET Names, {}, VisitStep(E, start, goal))
           /\ Finds(E, start, goal) <=> goal \in visited[Cardinality(Names)]
<1> DEFINE N == Cardinality(Names)
           Body(visited, k) == IF k = 0 THEN {} ELSE Visit(E, start, goal, visited[k - 1])
           Solves(visited) == visited = [k \in Iterations |-> Body(visited, k)]
           Step == VisitStep(E, start, goal)
<1>1. N \in Nat /\ {} \in SUBSET Names /\ Step \in [SUBSET Names -> SUBSET Names]
  BY NamesCounted, VisitStepType
<1>2. Iterations = 0 .. N
  BY DEF Iterations
<1> HIDE DEF N, Step
<1>3. \A k \in 1 .. N : k \in 0 .. N /\ k - 1 \in 0 .. N /\ k # 0
  BY <1>1
<1>4. PICK f : Repeats(f, N, SUBSET Names, {}, Step)
  BY <1>1, RepeatsExists
<1>5. ASSUME NEW k \in 0 .. N PROVE f[k] = Body(f, k)
  <2>1. CASE k = 0
    BY <1>4, <2>1 DEF Repeats
  <2>2. CASE k # 0
    <3>1. k \in 1 .. N /\ k - 1 \in 0 .. N
      BY <1>1, <2>2
    <3>2. f[k] = Step[f[k - 1]] /\ f[k - 1] \in SUBSET Names
      BY <1>4, <3>1 DEF Repeats
    <3>3. Step[f[k - 1]] = Visit(E, start, goal, f[k - 1])
      BY <3>2, VisitStepType DEF Step
    <3> QED
      BY <2>2, <3>2, <3>3
  <2> QED
    BY <2>1, <2>2
<1>6. Solves(f)
  <2> HIDE DEF Body
  <2> QED
    BY <1>2, <1>4, <1>5, Zenon DEF Repeats
<1> DEFINE visited == CHOOSE visited : Solves(visited)
<1>7. Solves(visited)
  <2> HIDE DEF Solves
  <2> QED
    BY <1>6, Zenon
<1>8. Finds(E, start, goal) <=> goal \in visited[N]
  BY Zenon DEF Finds, N
<1> HIDE DEF visited
<1>9. visited = [k \in 0 .. N |-> visited[k]] /\ \A k \in 0 .. N : visited[k] = Body(visited, k)
  <2> HIDE DEF Body
  <2> QED
    BY <1>2, <1>7, Zenon
<1>10. visited[0] = {}
  <2>1. visited[0] = Body(visited, 0) /\ Body(visited, 0) = {}
    <3>1. 0 \in 0 .. N
      BY <1>1
    <3> QED
      BY <1>9, <3>1, Zenon
  <2> QED
    BY <2>1
<1>11. ASSUME NEW k \in 1 .. N, visited[k - 1] \in SUBSET Names
       PROVE  visited[k] = Step[visited[k - 1]]
  <2>1. visited[k] = Visit(E, start, goal, visited[k - 1])
    BY <1>3, <1>9
  <2>2. Step[visited[k - 1]] = Visit(E, start, goal, visited[k - 1])
    BY <1>11, VisitStepType DEF Step
  <2> QED
    BY <2>1, <2>2
<1> HIDE DEF Solves, Body
<1>12. Repeats(visited, N, SUBSET Names, {}, Step)
  BY <1>1, <1>9, <1>10, <1>11, RecursionRepeats
<1> QED
  BY <1>8, <1>12 DEF N, Step

\* The search finds the goal exactly if every closed set with the start has it.
LEMMA FindsReachable ==
  ASSUME NEW E \in SUBSET (Names \X Names), NEW start \in Names, NEW goal \in Names
  PROVE  Finds(E, start, goal) <=>
           \A C \in SUBSET Names :
             start \in C /\ (\A e \in E : e[1] \in C => e[2] \in C) => goal \in C
<1> DEFINE N == Cardinality(Names)
           Step == VisitStep(E, start, goal)
           W == SUBSET Names
<1>1. PICK visited : /\ Repeats(visited, N, W, {}, Step)
                     /\ Finds(E, start, goal) <=> goal \in visited[N]
  BY FindsByVisits
<1>2. N \in Nat /\ {} \in W /\ Step \in [W -> W]
  BY NamesCounted, VisitStepType
<1>3. Adds(Step, W, Names)
  <2> SUFFICES ASSUME NEW A \in SUBSET Names PROVE A \subseteq Step[A]
    BY DEF Adds
  <2>1. Step[A] = Visit(E, start, goal, A)
    BY VisitStepType
  <2>2. A \subseteq Visit(E, start, goal, A)
    BY VisitTakes
  <2> QED
    BY <2>1, <2>2
<1>4. ASSUME NEW C \in SUBSET Names, start \in C, \A e \in E : e[1] \in C => e[2] \in C,
             goal \in visited[N]
      PROVE  goal \in C
  <2> DEFINE P == SUBSET C
  <2>1. {} \in P
    OBVIOUS
  <2>2. \A A \in W : A \in P => Step[A] \in P
    <3> SUFFICES ASSUME NEW A \in SUBSET Names, A \subseteq C PROVE Step[A] \subseteq C
      OBVIOUS
    <3>1. Step[A] = Visit(E, start, goal, A)
      BY VisitStepType
    <3>2. Stack(E, start, A) \subseteq C
      BY <1>4 DEF Stack
    <3> QED
      BY <3>1, <3>2, VisitTakes
  <2> HIDE DEF P, W, Step, N
  <2>3. \A k \in 0 .. N : visited[k] \in P
    BY <1>1, <1>2, <2>1, <2>2, RepeatsKeep
  <2> QED
    BY <1>2, <1>4, <2>3 DEF P
<1>5. ASSUME \A C \in SUBSET Names :
               start \in C /\ (\A e \in E : e[1] \in C => e[2] \in C) => goal \in C,
             goal \notin visited[N]
      PROVE  FALSE
  <2> DEFINE last == visited[N]
  <2>1. last \in W /\ Step[last] = last
    <3> HIDE DEF W, Step, N
    <3>1. Cardinality(Names) = N /\ IsFiniteSet(Names)
      BY NamesCounted DEF N
    <3> QED
      BY <1>1, <1>2, <1>3, <3>1, AddingSettles
  <2>2. last \in SUBSET Names /\ goal \notin last
    BY <1>5, <2>1
  <2> HIDE DEF last
  <2>3. Visit(E, start, goal, last) = last
    BY <2>1, <2>2, VisitStepType
  <2>4. Stack(E, start, last) = {}
    BY <2>2, <2>3, VisitTakes
  <2>5. start \in last /\ \A e \in E : e[1] \in last => e[2] \in last
    BY <2>4 DEF Stack
  <2> QED
    BY <1>5, <2>2, <2>5
<1> QED
  BY <1>1, <1>4, <1>5

\* What the search says is what HasCycle asks, on every canvas.
LEMMA SearchIsExact ==
  ASSUME TypeOK
  PROVE  SearchFindsEveryCycle
<1> SUFFICES ASSUME NEW s \in nodes, NEW t \in nodes
             PROVE  SearchCycle(edges, s, t) = HasCycle(edges, s, t)
  BY DEF SearchFindsEveryCycle
<1> DEFINE with == edges \cup {<<s, t>>}
<1>1. with \in SUBSET (Names \X Names) /\ s \in Names /\ t \in Names
  BY DEF TypeOK
<1>2. SearchCycle(edges, s, t) <=> HasCycle(edges, s, t)
  BY <1>1, FindsReachable, Zenon DEF SearchCycle, HasCycle
<1>3. SearchCycle(edges, s, t) \in BOOLEAN /\ HasCycle(edges, s, t) \in BOOLEAN
  BY DEF SearchCycle, Finds, HasCycle
<1> QED
  BY <1>2, <1>3

-----------------------------------------------------------------------------
(* autoLayout.                                                             *)

LEMMA MaxOf ==
  ASSUME NEW S \in SUBSET Nat, S # {}, NEW b \in Nat, \A m \in S : m <= b
  PROVE  Max(S) \in S /\ Max(S) <= b
<1>1. PICK n \in S : \A m \in S : m <= n
  BY GreatestNumber
<1>2. \A m \in S : n >= m
  BY <1>1
<1>3. Max(S) \in S
  BY <1>2, Zenon DEF Max
<1> QED
  BY <1>3

Placed(d) == {n \in nodes : d[n] # 0}

\* Depths that nodes can have at some point of the loop.
DepthMaps == {d \in [nodes -> Nat] : \A n \in nodes : d[n] <= Cardinality(Placed(d))}

PlaceStep == [d \in DepthMaps |-> Place(edges, d)]

\* Edges lead between nodes of the canvas, and none of it is endless.
CanvasFinite == TypeOK /\ edges \subseteq nodes \X nodes

LEMMA PlacedCounted ==
  ASSUME CanvasFinite, NEW d
  PROVE  /\ IsFiniteSet(Placed(d)) /\ Cardinality(Placed(d)) \in Nat
         /\ Cardinality(Placed(d)) <= Cardinality(Names)
<1>1. Placed(d) \subseteq Names
  BY DEF CanvasFinite, TypeOK, Placed
<1> QED
  BY <1>1, NamesCounted, FS_Subset, FS_CardinalityType

LEMMA BelowBounded ==
  ASSUME CanvasFinite, NEW d \in DepthMaps, NEW n \in nodes
  PROVE  Below(edges, n, d) \in 1 .. Cardinality(Placed(d)) + 1
<1> DEFINE S == {0} \cup {d[m] : m \in Parents(edges, n)}
           b == Cardinality(Placed(d))
<1>1. b \in Nat
  BY PlacedCounted
<1> HIDE DEF b
<1>2. Parents(edges, n) \subseteq nodes
  BY DEF CanvasFinite, Parents
<1>3. d \in [nodes -> Nat] /\ \A m \in nodes : d[m] <= b
  BY DEF DepthMaps, b
<1>4. S \in SUBSET Nat /\ S # {} /\ \A m \in S : m <= b
  BY <1>1, <1>2, <1>3
<1>5. Below(edges, n, d) = 1 + Max(S)
  BY DEF Below
<1> HIDE DEF S
<1>6. Max(S) \in Nat /\ Max(S) <= b
  BY <1>1, <1>4, MaxOf
<1> QED
  BY <1>1, <1>5, <1>6 DEF b

\* A pass that places a node, places one that is ready, and one more node has a depth then.
LEMMA PlaceTakes ==
  ASSUME CanvasFinite, NEW d \in DepthMaps
  PROVE  /\ Ready(edges, d) = {} => Place(edges, d) = d
         /\ Ready(edges, d) # {} =>
              \E n \in Ready(edges, d) :
                /\ Place(edges, d) = [d EXCEPT ![n] = Below(edges, n, d)]
                /\ n \notin Placed(d) /\ Placed(Place(edges, d)) = Placed(d) \cup {n}
                /\ Cardinality(Placed(Place(edges, d))) = Cardinality(Placed(d)) + 1
<1>1. CASE Ready(edges, d) = {}
  BY <1>1 DEF Place
<1>2. CASE Ready(edges, d) # {}
  <2> DEFINE n == CHOOSE n \in Ready(edges, d) : TRUE
  <2>1. n \in Ready(edges, d) /\ Place(edges, d) = [d EXCEPT ![n] = Below(edges, n, d)]
    BY <1>2 DEF Place
  <2> HIDE DEF n
  <2>2. n \in nodes /\ n \notin Placed(d) /\ d \in [nodes -> Nat]
    BY <2>1 DEF Ready, Placed, DepthMaps
  <2>3. Below(edges, n, d) # 0
    BY <2>2, BelowBounded, PlacedCounted
  <2>4. Placed(Place(edges, d)) = Placed(d) \cup {n}
    BY <2>1, <2>2, <2>3 DEF Placed
  <2>5. Cardinality(Placed(Place(edges, d))) = Cardinality(Placed(d)) + 1
    BY <2>2, <2>4, PlacedCounted, FS_AddElement
  <2> QED
    BY <1>2, <2>1, <2>2, <2>4, <2>5
<1> QED
  BY <1>1, <1>2

LEMMA PlaceStepType ==
  ASSUME CanvasFinite
  PROVE  /\ PlaceStep \in [DepthMaps -> DepthMaps]
         /\ \A d \in DepthMaps : PlaceStep[d] = Place(edges, d)
<1>1. ASSUME NEW d \in DepthMaps PROVE Place(edges, d) \in DepthMaps
  <2>1. CASE Ready(edges, d) = {}
    BY <2>1, PlaceTakes
  <2>2. CASE Ready(edges, d) # {}
    <3> DEFINE e == Place(edges, d)
    <3>1. PICK n \in Ready(edges, d) :
            /\ e = [d EXCEPT ![n] = Below(edges, n, d)]
            /\ Cardinality(Placed(e)) = Cardinality(Placed(d)) + 1
      BY <2>2, PlaceTakes
    <3> HIDE DEF e
    <3>2. n \in nodes /\ d \in [nodes -> Nat] /\ \A m \in nodes : d[m] <= Cardinality(Placed(d))
      BY DEF Ready, DepthMaps
    <3>3. Cardinality(Placed(d)) \in Nat
      BY PlacedCounted
    <3>4. Below(edges, n, d) \in Nat /\ Below(edges, n, d) <= Cardinality(Placed(d)) + 1
      BY <3>2, <3>3, BelowBounded
    <3>5. e \in [nodes -> Nat]
      BY <3>1, <3>2, <3>4
    <3>6. \A m \in nodes : e[m] <= Cardinality(Placed(e))
      BY <3>1, <3>2, <3>3, <3>4
    <3>7. e \in DepthMaps
      BY <3>5, <3>6 DEF DepthMaps
    <3> QED
      BY <3>7 DEF e
  <2> QED
    BY <2>1, <2>2
<1> QED
  BY <1>1 DEF PlaceStep

\* What has a depth lies one below the lowest of its parents, and all those have one.
Tidy(d) ==
  \A n \in nodes : d[n] # 0 =>
    d[n] = Below(edges, n, d) /\ \A m \in Parents(edges, n) : d[m] # 0

LEMMA PlaceKeepsTidy ==
  ASSUME CanvasFinite, NEW d \in DepthMaps, Tidy(d)
  PROVE  Tidy(Place(edges, d))
<1>1. CASE Ready(edges, d) = {}
  BY <1>1, PlaceTakes
<1>2. CASE Ready(edges, d) # {}
  <2> DEFINE e == Place(edges, d)
  <2>1. PICK n \in Ready(edges, d) : e = [d EXCEPT ![n] = Below(edges, n, d)]
    BY <1>2, PlaceTakes
  <2> HIDE DEF e
  <2>2. n \in nodes /\ d[n] = 0 /\ d \in [nodes -> Nat] /\ \A m \in Parents(edges, n) : d[m] # 0
    BY DEF Ready, DepthMaps
  <2>3. \A k \in nodes : Parents(edges, k) \subseteq nodes
    BY DEF CanvasFinite, Parents
  <2>4. ASSUME NEW k \in nodes, e[k] # 0
        PROVE  e[k] = Below(edges, k, e) /\ \A m \in Parents(edges, k) : e[m] # 0
    <3>1. e[k] = Below(edges, k, d) /\ \A m \in Parents(edges, k) : d[m] # 0
      BY <2>1, <2>2, <2>4 DEF Tidy
    <3>2. \A m \in Parents(edges, k) : e[m] = d[m]
      BY <2>1, <2>2, <2>3, <3>1
    <3>3. {e[m] : m \in Parents(edges, k)} = {d[m] : m \in Parents(edges, k)}
      BY <3>2
    <3>4. Below(edges, k, e) = Below(edges, k, d)
      BY <3>3 DEF Below
    <3> QED
      BY <3>1, <3>2, <3>4
  <2>5. Tidy(e)
    BY <2>4 DEF Tidy
  <2> QED
    BY <2>5 DEF e
<1> QED
  BY <1>1, <1>2

Unplaced == [n \in nodes |-> 0]

LEMMA UnplacedTidy ==
  ASSUME CanvasFinite
  PROVE  Unplaced \in DepthMaps /\ Tidy(Unplaced)
<1>1. Unplaced \in [nodes -> Nat] /\ \A n \in nodes : Unplaced[n] = 0
  BY DEF Unplaced
<1>2. Cardinality(Placed(Unplaced)) \in Nat
  BY PlacedCounted
<1> QED
  BY <1>1, <1>2 DEF DepthMaps, Tidy

\* The recursion of the layout has a solution, and the layout takes one.
LEMMA DepthsByPlaces ==
  ASSUME CanvasFinite
  PROVE  \E depth :
           /\ Repeats(depth, Cardinality(Names), DepthMaps, Unplaced, PlaceStep)
           /\ Depths(edges) = depth[Cardinality(Names)]
<1> DEFINE N == Cardinality(Names)
           Body(depth, k) == IF k = 0 THEN [n \in nodes |-> 0] ELSE Place(edges, depth[k - 1])
           Solves(depth) == depth = [k \in Iterations |-> Body(depth, k)]
<1>1. N \in Nat /\ Unplaced \in DepthMaps /\ PlaceStep \in [DepthMaps -> DepthMaps]
  BY NamesCounted, UnplacedTidy, PlaceStepType
<1>2. Iterations = 0 .. N
  BY DEF Iterations
<1> HIDE DEF N
<1>3. \A k \in 1 .. N : k \in 0 .. N /\ k - 1 \in 0 .. N /\ k # 0
  BY <1>1
<1>4. PICK f : Repeats(f, N, DepthMaps, Unplaced, PlaceStep)
  BY <1>1, RepeatsExists
<1>5. ASSUME NEW k \in 0 .. N PROVE f[k] = Body(f, k)
  <2>1. CASE k = 0
    BY <1>4, <2>1 DEF Repeats, Unplaced
  <2>2. CASE k # 0
    <3>1. k \in 1 .. N /\ k - 1 \in 0 .. N
      BY <1>1, <2>2
    <3>2. f[k] = PlaceStep[f[k - 1]] /\ f[k - 1] \in DepthMaps
      BY <1>4, <3>1 DEF Repeats
    <3>3. PlaceStep[f[k - 1]] = Place(edges, f[k - 1])
      BY <3>2, PlaceStepType
    <3> QED
      BY <2>2, <3>2, <3>3
  <2> QED
    BY <2>1, <2>2
<1>6. Solves(f)
  <2> HIDE DEF Body
  <2> QED
    BY <1>2, <1>4, <1>5, Zenon DEF Repeats
<1> DEFINE depth == CHOOSE depth : Solves(depth)
<1>7. Solves(depth)
  <2> HIDE DEF Solves
  <2> QED
    BY <1>6, Zenon
<1>8. Depths(edges) = depth[N]
  BY Zenon DEF Depths, N
<1> HIDE DEF depth
<1>9. depth = [k \in 0 .. N |-> depth[k]] /\ \A k \in 0 .. N : depth[k] = Body(depth, k)
  <2> HIDE DEF Body
  <2> QED
    BY <1>2, <1>7, Zenon
<1>10. depth[0] = Unplaced
  <2>1. depth[0] = Body(depth, 0) /\ Body(depth, 0) = Unplaced
    <3>1. 0 \in 0 .. N
      BY <1>1
    <3> QED
      BY <1>9, <3>1, Zenon DEF Unplaced
  <2> QED
    BY <2>1
<1>11. ASSUME NEW k \in 1 .. N, depth[k - 1] \in DepthMaps
       PROVE  depth[k] = PlaceStep[depth[k - 1]]
  <2>1. depth[k] = Place(edges, depth[k - 1])
    BY <1>3, <1>9
  <2>2. PlaceStep[depth[k - 1]] = Place(edges, depth[k - 1])
    BY <1>11, PlaceStepType
  <2> QED
    BY <2>1, <2>2
<1> HIDE DEF Solves, Body
<1>12. Repeats(depth, N, DepthMaps, Unplaced, PlaceStep)
  BY <1>1, <1>9, <1>10, <1>11, RecursionRepeats
<1> QED
  BY <1>8, <1>12 DEF N

\* On a canvas without a cycle the loop gives every node its depth.
LEMMA LayoutIsExact ==
  ASSUME TypeOK, NotRefused(Payload)
  PROVE  LayoutFollowsDependencies
<1> DEFINE N == Cardinality(Names)
           Size == [d \in DepthMaps |-> Cardinality(Placed(d))]
           last == Depths(edges)
<1>1. CanvasFinite /\ Acyclic(edges)
  BY DEF CanvasFinite, NotRefused, Payload
<1>2. PICK depth : Repeats(depth, N, DepthMaps, Unplaced, PlaceStep) /\ last = depth[N]
  BY <1>1, DepthsByPlaces
<1>3. N \in Nat /\ Unplaced \in DepthMaps /\ PlaceStep \in [DepthMaps -> DepthMaps]
  BY <1>1, NamesCounted, UnplacedTidy, PlaceStepType
<1>4. Size \in [DepthMaps -> 0 .. N]
  <2>1. \A d \in DepthMaps : Cardinality(Placed(d)) \in 0 .. N
    BY <1>1, <1>3, PlacedCounted
  <2> QED
    BY <2>1
<1>5. ASSUME NEW d \in DepthMaps, PlaceStep[d] # d PROVE Size[d] < Size[PlaceStep[d]]
  <2>1. PlaceStep[d] = Place(edges, d) /\ PlaceStep[d] \in DepthMaps
    BY <1>1, PlaceStepType
  <2>2. Cardinality(Placed(Place(edges, d))) = Cardinality(Placed(d)) + 1
    BY <1>1, <1>5, <2>1, PlaceTakes
  <2>3. Cardinality(Placed(d)) \in Nat
    BY <1>1, PlacedCounted
  <2> QED
    BY <2>1, <2>2, <2>3
<1>6. last \in DepthMaps /\ PlaceStep[last] = last
  <2>1. \A d \in DepthMaps : PlaceStep[d] # d => Size[d] < Size[PlaceStep[d]]
    BY <1>5
  <2> HIDE DEF Size, last, N
  <2> QED
    BY <1>2, <1>3, <1>4, <2>1, RepeatsSettle
<1>7. Tidy(last)
  <2> DEFINE P == {d \in DepthMaps : Tidy(d)}
  <2>1. Unplaced \in P /\ \A d \in DepthMaps : d \in P => PlaceStep[d] \in P
    BY <1>1, <1>3, UnplacedTidy, PlaceStepType, PlaceKeepsTidy
  <2> HIDE DEF P, last, N
  <2>2. \A k \in 0 .. N : depth[k] \in P
    BY <1>2, <1>3, <2>1, RepeatsKeep
  <2> QED
    BY <1>2, <1>3, <2>2 DEF P
<1> HIDE DEF last
<1>8. Ready(edges, last) = {}
  <2> SUFFICES ASSUME Ready(edges, last) # {} PROVE FALSE
    OBVIOUS
  <2>1. PICK n \in Ready(edges, last) : n \notin Placed(last)
                                          /\ Placed(Place(edges, last)) = Placed(last) \cup {n}
    BY <1>1, <1>6, PlaceTakes
  <2>2. Place(edges, last) = last
    BY <1>1, <1>6, PlaceStepType
  <2> QED
    BY <2>1, <2>2
<1>9. \A n \in nodes : last[n] # 0
  <2> DEFINE Rest == {n \in nodes : last[n] = 0}
  <2> SUFFICES ASSUME Rest # {} PROVE FALSE
    OBVIOUS
  <2>1. Rest \in SUBSET Names
    BY DEF TypeOK
  <2>2. PICK n \in Rest : \A m \in Rest : <<m, n>> \notin edges
    BY <1>1, <2>1 DEF Acyclic
  <2>3. ASSUME NEW m \in Parents(edges, n) PROVE last[m] # 0
    <3>1. <<m, n>> \in edges /\ m \in nodes
      BY <1>1 DEF CanvasFinite, Parents
    <3> QED
      BY <2>2, <3>1
  <2>4. n \in Ready(edges, last)
    BY <2>3 DEF Ready
  <2> QED
    BY <1>8, <2>4
<1>10. Layout = last
  <2>1. last \in [nodes -> Nat]
    BY <1>6 DEF DepthMaps
  <2>2. Layout = [n \in nodes |-> last[n]]
    BY <1>9 DEF Layout, last
  <2> QED
    BY <2>1, <2>2
<1> QED
  BY <1>7, <1>9, <1>10 DEF Tidy, LayoutFollowsDependencies

\* hasCycle refuses a connection exactly if it closes a cycle, on every canvas that a user
\* can get to.
THEOREM CanvasSearchIsExact == Spec => []SearchFindsEveryCycle
BY SearchIsExact, CanvasTyped, PTL

\* autoLayout comes to an end with every step one row below the lowest of its dependencies.
THEOREM CanvasLayoutIsExact == Spec => []LayoutFollowsDependencies
BY LayoutIsExact, CanvasTyped, CanvasStaysDag, PTL DEF CanvasIsDag
=============================================================================
