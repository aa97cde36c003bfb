----------------------------- MODULE Recursion -----------------------------
(***************************************************************************)
(* Induction, and functions that are defined by recursion on 0 .. N.       *)
(*                                                                         *)
(* The induction theorems of the library take a predicate as a parameter;  *)
(* here a set takes its place: that of the numbers the predicate is true   *)
(* of.  A step of a recursion is a function for the same reason.           *)
(***************************************************************************)
EXTENDS Naturals, FiniteSetTheorems, WellFoundedInduction, TLAPS

\* A set of numbers has a least one.
LEMMA LeastNumber ==
  ASSUME NEW S \in SUBSET Nat, S # {}
  PROVE  \E n \in S : \A m \in S : n <= m
<1>1. PICK n \in S : \A m \in S : ~(<<m, n>> \in OpToRel(<, Nat))
  BY NatLessThanWellFounded, WFMin
<1>2. \A m \in S : ~(m < n)
  BY <1>1 DEF OpToRel
<1> QED
  BY <1>2

\* One that has an upper bound has a greatest one.
LEMMA GreatestNumber ==
  ASSUME NEW S \in SUBSET Nat, S # {}, NEW b \in Nat, \A m \in S : m <= b
  PROVE  \E n \in S : \A m \in S : m <= n
<1> DEFINE Bounds == {n \in Nat : \A m \in S : m <= n}
<1>1. Bounds \in SUBSET Nat /\ Bounds # {}
  OBVIOUS
<1> HIDE DEF Bounds
<1>2. PICK n \in Bounds : \A m \in Bounds : n <= m
  BY <1>1, LeastNumber
<1> USE DEF Bounds
<1>3. CASE n \in S
  BY <1>2, <1>3
<1>4. CASE n \notin S
  <2>1. PICK k \in S : TRUE
    OBVIOUS
  <2>2. n \in Nat /\ n # 0 /\ \A m \in S : m <= n - 1
    BY <1>2, <1>4, <2>1
  <2>3. n - 1 \in Bounds
    BY <2>2
  <2> QED
    BY <1>2, <2>2, <2>3
<1> QED
  BY <1>3, <1>4

LEMMA SetInduction ==
  ASSUME NEW S, 0 \in S, \A n \in Nat : n \in S => n + 1 \in S
  PROVE  Nat \subseteq S
<1> DEFINE Rest == Nat \ S
<1> SUFFICES ASSUME Rest # {} PROVE FALSE
  OBVIOUS
<1>1. Rest \in SUBSET Nat
  OBVIOUS
<1> HIDE DEF Rest
<1>2. PICK n \in Rest : \A m \in Rest : n <= m
  BY <1>1, LeastNumber
<1> USE DEF Rest
<1>3. n \in Nat /\ n # 0
  OBVIOUS
<1>4. n - 1 \in Nat /\ n - 1 \in S
  BY <1>2, <1>3
<1> QED
  BY <1>3, <1>4

\* Induction up to a bound.
LEMMA BoundedInduction ==
  ASSUME NEW N \in Nat, NEW S, 0 \in S, \A n \in 0 .. N : n < N /\ n \in S => n + 1 \in S
  PROVE  0 .. N \subseteq S
<1> DEFINE T == {n \in Nat : n <= N => n \in S}
<1>1. 0 \in T /\ \A n \in Nat : n \in T => n + 1 \in T
  OBVIOUS
<1> HIDE DEF T
<1>2. Nat \subseteq T
  BY <1>1, SetInduction
<1> QED
  BY <1>2 DEF T

\* f repeats a step, N times from a value on.
Repeats(f, N, V, init, Step) ==
  /\ f \in [0 .. N -> V]
  /\ f[0] = init
  /\ \A k \in 1 .. N : f[k] = Step[f[k - 1]]

\* Every step can be repeated: the recursion has a solution.
LEMMA RepeatsExists ==
  ASSUME NEW N \in Nat, NEW V, NEW init \in V, NEW Step \in [V -> V]
  PROVE  \E f : Repeats(f, N, V, init, Step)
<1> DEFINE Upto(f, n) == f[0] = init /\ \A k \in 1 .. n : f[k] = Step[f[k - 1]]
           S == {n \in Nat : \E f \in [0 .. N -> V] : Upto(f, n)}
<1>1. 0 \in S
  <2>1. [k \in 0 .. N |-> init] \in [0 .. N -> V]
    OBVIOUS
  <2>2. 0 \in 0 .. N /\ 1 .. 0 = {}
    OBVIOUS
  <2> QED
    BY <2>1, <2>2
<1>2. ASSUME NEW n \in 0 .. N, n < N, n \in S PROVE n + 1 \in S
  <2>1. PICK f \in [0 .. N -> V] : Upto(f, n)
    BY <1>2
  <2> DEFINE g == [f EXCEPT ![n + 1] = Step[f[n]]]
  <2>2. g \in [0 .. N -> V]
    BY <1>2
  <2>3. g[0] = init
    BY <2>1
  <2>4. \A k \in 1 .. n + 1 : g[k] = Step[g[k - 1]]
    BY <1>2, <2>1
  <2> HIDE DEF g
  <2>5. Upto(g, n + 1)
    BY <2>3, <2>4
  <2> HIDE DEF Upto
  <2> QED
    BY <2>2, <2>5
<1> HIDE DEF S
<1>3. 0 .. N \subseteq S
  BY <1>1, <1>2, BoundedInduction
<1>4. PICK f \in [0 .. N -> V] : Upto(f, N)
  BY <1>3, SMTT(40) DEF S
<1> QED
  BY <1>4 DEF Repeats

\* A function that is defined by the recursion repeats the step.
LEMMA RecursionRepeats ==
  ASSUME NEW N \in Nat, NEW V, NEW init \in V, NEW Step \in [V -> V], NEW f,
         f = [k \in 0 .. N |-> f[k]], f[0] = init,
         \A k \in 1 .. N : f[k - 1] \in V => f[k] = Step[f[k - 1]]
  PROVE  Repeats(f, N, V, init, Step)
<1> DEFINE S == {k \in 0 .. N : f[k] \in V}
<1>1. 0 \in S
  OBVIOUS
<1>2. ASSUME NEW k \in 0 .. N, k < N, k \in S PROVE k + 1 \in S
  <2>1. k + 1 \in 1 .. N /\ (k + 1) - 1 = k
    BY <1>2
  <2>2. f[k + 1] = Step[f[k]]
    BY <1>2, <2>1
  <2> QED
    BY <1>2, <2>1, <2>2
<1> HIDE DEF S
<1>3. \A k \in 0 .. N : f[k] \in V
  BY <1>1, <1>2, BoundedInduction DEF S
<1>4. f \in [0 .. N -> V]
  BY <1>3
<1>5. \A k \in 1 .. N : f[k] = Step[f[k - 1]]
  <2>1. \A k \in 1 .. N : k - 1 \in 0 .. N
    OBVIOUS
  <2> QED
    BY <1>3, <2>1
<1> QED
  BY <1>4, <1>5 DEF Repeats

\* A property of the first value that the step keeps is one of all.
LEMMA RepeatsKeep ==
  ASSUME NEW N \in Nat, NEW V, NEW init \in V, NEW Step \in [V -> V], NEW f,
         Repeats(f, N, V, init, Step),
         NEW P, init \in P, \A x \in V : x \in P => Step[x] \in P
  PROVE  \A k \in 0 .. N : f[k] \in P
<1> DEFINE S == {k \in 0 .. N : f[k] \in P}
<1>1. 0 \in S
  BY DEF Repeats
<1>2. ASSUME NEW k \in 0 .. N, k < N, k \in S PROVE k + 1 \in S
  <2>1. k + 1 \in 1 .. N /\ (k + 1) - 1 = k
    BY <1>2
  <2>2. f[k + 1] = Step[f[k]] /\ f[k] \in V
    BY <2>1 DEF Repeats
  <2> QED
    BY <1>2, <2>1, <2>2
<1> HIDE DEF S
<1> QED
  BY <1>1, <1>2, BoundedInduction DEF S

\* A step that makes something larger, which has a limit, has come to an end by then.
LEMMA RepeatsSettle ==
  ASSUME NEW N \in Nat, NEW V, NEW init \in V, NEW Step \in [V -> V], NEW f,
         Repeats(f, N, V, init, Step),
         NEW Size \in [V -> 0 .. N], \A x \in V : Step[x] # x => Size[x] < Size[Step[x]]
  PROVE  f[N] \in V /\ Step[f[N]] = f[N]
<1> DEFINE S == {k \in 0 .. N : Step[f[k]] = f[k] \/ k <= Size[f[k]]}
<1>1. \A k \in 0 .. N : f[k] \in V /\ Size[f[k]] \in 0 .. N
  BY DEF Repeats
<1>2. 0 \in S
  BY <1>1
<1>3. ASSUME NEW k \in 0 .. N, k < N, k \in S PROVE k + 1 \in S
  <2>1. k + 1 \in 1 .. N /\ k + 1 \in 0 .. N /\ (k + 1) - 1 = k
    BY <1>3
  <2>2. f[k + 1] = Step[f[k]]
    BY <2>1 DEF Repeats
  <2>3. CASE Step[f[k]] = f[k]
    BY <2>1, <2>2, <2>3
  <2>4. CASE Step[f[k]] # f[k]
    <3>1. k <= Size[f[k]] /\ Size[f[k]] < Size[f[k + 1]]
      BY <1>1, <1>3, <2>2, <2>4
    <3>2. k + 1 <= Size[f[k + 1]]
      BY <1>1, <2>1, <3>1
    <3> QED
      BY <2>1, <3>2
  <2> QED
    BY <2>3, <2>4
<1> HIDE DEF S
<1>4. N \in S
  BY <1>2, <1>3, BoundedInduction
<1>5. ASSUME Step[f[N]] # f[N] PROVE FALSE
  <2>1. N <= Size[f[N]] /\ Size[f[N]] < Size[Step[f[N]]]
    BY <1>1, <1>4, <1>5 DEF S
  <2>2. Size[f[N]] \in 0 .. N /\ Size[Step[f[N]]] \in 0 .. N
    BY <1>1
  <2> QED
    BY <2>1, <2>2
<1> QED
  BY <1>1, <1>5

\* W are the subsets of V, and the step takes nothing out of them.
Adds(Step, W, V) == W = SUBSET V /\ \A A \in W : A \subseteq Step[A]

\* A step that only adds elements of a finite set comes to an end.
LEMMA AddingSettles ==
  ASSUME NEW V, IsFiniteSet(V), NEW N \in Nat, Cardinality(V) = N,
         NEW W, NEW init \in W, NEW Step \in [W -> W], Adds(Step, W, V),
         NEW f, Repeats(f, N, W, init, Step)
  PROVE  f[N] \in W /\ Step[f[N]] = f[N]
<1> DEFINE Size == [A \in W |-> Cardinality(A)]
<1>1. \A A \in W : A \subseteq V /\ A \subseteq Step[A]
  BY DEF Adds
<1>2. Size \in [W -> 0 .. N]
  <2>1. \A A \in W : Cardinality(A) \in Nat /\ Cardinality(A) <= N
    BY <1>1, FS_Subset, FS_CardinalityType
  <2> QED
    BY <2>1
<1>3. ASSUME NEW A \in W, Step[A] # A PROVE Size[A] < Size[Step[A]]
  <2>1. Step[A] \in W /\ Step[A] \subseteq V /\ A \subseteq Step[A]
    BY <1>1
  <2>2. /\ IsFiniteSet(Step[A]) /\ IsFiniteSet(A)
        /\ Cardinality(A) \in Nat /\ Cardinality(Step[A]) \in Nat
    BY <2>1, FS_Subset, FS_CardinalityType
  <2>3. Cardinality(A) <= Cardinality(Step[A]) /\ Cardinality(A) # Cardinality(Step[A])
    BY <1>3, <2>1, <2>2, FS_Subset
  <2> QED
    BY <2>1, <2>2, <2>3
<1>4. \A A \in W : Step[A] # A => Size[A] < Size[Step[A]]
  BY <1>3
<1> HIDE DEF Size
<1> QED
  BY <1>2, <1>4, RepeatsSettle
=============================================================================
