--------------------------- MODULE ComposerCanvas ---------------------------
(***************************************************************************)
(* The workflow composer of the web console                                *)
(* (components/workflows/WorkflowComposer.tsx, lib/composer-utils.ts): a   *)
(* canvas of steps and dependencies that a user edits and saves.           *)
(*                                                                         *)
(* A step is its name, which is also the id of its node; the other data of *)
(* a step and the layout are left out.  So are the edges out of the        *)
(* trigger node: nothing leads into it, and no payload holds them.         *)
(* React Flow is external: it calls the handlers of the page.              *)
(*                                                                         *)
(* A save is stored and answered in one step (Saved), however long after   *)
(* it was sent: what the user does before the gateway has stored it and    *)
(* what before the page has the answer is not told apart, since no action  *)
(* reads what is stored.  The save button is off while a save is under     *)
(* way, but Ctrl+S is not; of two saves the model takes it that they are   *)
(* answered in the order in which they are stored.                         *)
(***************************************************************************)
EXTENDS FiniteSets, Naturals

CONSTANTS
  Names,     \* names that steps can have
  MaxSaves   \* bound of the model: saves under way at once

ASSUME ComposerAssumption == IsFiniteSet(Names) /\ MaxSaves \in Nat

VARIABLES
  nodes,     \* the steps on the canvas
  edges,     \* <<dependency, step>>
  dirty,     \* isDirty
  saving,    \* payloads whose save is awaited
  isNew,     \* the gateway has no workflow of the page yet
  stored,    \* the workflow that the gateway has, empty while there is none
  forgiven   \* history: the page has given up an edit that it does not flag

canvas == <<nodes, edges>>
vars == <<nodes, edges, dirty, saving, isNew, stored, forgiven>>

\* What canvasToPayload sends and workflowToCanvas reads: the steps and their depends_on.
Payload == [steps |-> nodes, deps |-> edges]

\* No set of steps in which each waits for another of the set.
Acyclic(E) ==
  \A S \in SUBSET Names : S # {} => \E n \in S : \A m \in S : <<m, n>> \notin E

\* validate_workflow_graph of the operator, apart from what it asks of the whole: that there
\* is a step and that all are connected.
NotRefused(p) == p.deps \subseteq p.steps \X p.steps /\ Acyclic(p.deps)

Workflows == {p \in [steps : SUBSET Names, deps : SUBSET (Names \X Names)] : NotRefused(p)}

TypeOK ==
  /\ nodes \subseteq Names
  /\ edges \subseteq Names \X Names
  /\ dirty \in BOOLEAN /\ forgiven \in BOOLEAN
  /\ saving \subseteq [steps : SUBSET Names, deps : SUBSET (Names \X Names)]
  /\ stored \in [steps : SUBSET Names, deps : SUBSET (Names \X Names)]
  /\ isNew \in BOOLEAN

\* The page opens on no workflow, or on one that the operator accepts.
Init ==
  /\ stored \in Workflows /\ nodes = stored.steps /\ edges = stored.deps
  /\ isNew \in BOOLEAN /\ (isNew => nodes = {})
  /\ dirty = FALSE /\ saving = {} /\ forgiven = FALSE

\* Mutant of Flagged: the call of setIsDirty is missing.
FlagForgotten == forgiven' = FALSE /\ UNCHANGED <<dirty, saving, isNew, stored>>

\* An edit that the page flags.
Flagged == dirty' = TRUE /\ forgiven' = FALSE /\ UNCHANGED <<saving, isNew, stored>>

-----------------------------------------------------------------------------
\* Mutant of HasCycle: only the edge back is looked for.
HasShortCycle(E, s, t) == <<t, s>> \in E

\* The search from t finds s once the edge from s to t is there.
HasCycle(E, s, t) ==
  LET with == E \cup {<<s, t>>} IN
  \A C \in SUBSET Names :
    t \in C /\ (\A e \in with : e[1] \in C => e[2] \in C) => s \in C

\* A step from the palette, by click or by drop: makeStepId finds a name that is free.
AddStep(n) ==
  /\ n \notin nodes
  /\ nodes' = nodes \cup {n}
  /\ UNCHANGED edges
  /\ Flagged

\* A connection that onConnect does not refuse.
Connect(s, t) ==
  /\ {s, t} \subseteq nodes /\ s # t
  /\ <<s, t>> \notin edges
  /\ ~HasCycle(edges, s, t)
  /\ edges' = edges \cup {<<s, t>>}
  /\ UNCHANGED nodes
  /\ Flagged

\* The button on an edge.
DeleteEdge(e) ==
  /\ e \in edges
  /\ edges' = edges \ {e}
  /\ UNCHANGED nodes
  /\ Flagged

\* The delete key on a selected edge: React Flow removes it through onEdgesChange, which
\* flags nothing.
DeleteEdgeByKey(e) ==
  /\ e \in edges
  /\ edges' = edges \ {e}
  /\ forgiven' = TRUE
  /\ UNCHANGED <<nodes, dirty, saving, isNew, stored>>

\* The delete key on selected steps.
DeleteSteps(S) ==
  /\ S # {} /\ S \subseteq nodes
  /\ nodes' = nodes \ S
  /\ edges' = {e \in edges : e[1] \notin S /\ e[2] \notin S}
  /\ Flagged

\* Mutant of Renamed: the edges out of the step keep its old name.
RenamedAsTarget(E, n, m) == {<<e[1], IF e[2] = n THEN m ELSE e[2]>> : e \in E}

Renamed(E, n, m) == {<<IF e[1] = n THEN m ELSE e[1], IF e[2] = n THEN m ELSE e[2]>> : e \in E}

\* A new name from the properties panel, one keystroke at a time; refused when taken.
Rename(n, m) ==
  /\ n \in nodes /\ m \notin nodes
  /\ nodes' = (nodes \ {n}) \cup {m}
  /\ edges' = Renamed(edges, n, m)
  /\ Flagged

\* Any other change of the properties panel, of the toolbar, or a connection from the trigger.
EditData == Flagged /\ UNCHANGED canvas

-----------------------------------------------------------------------------
\* The button or the shortcut, which does not wait for a save under way.
Save ==
  /\ Cardinality(saving) < MaxSaves
  /\ saving' = saving \cup {Payload}
  /\ UNCHANGED <<canvas, dirty, isNew, stored, forgiven>>

\* The update of a workflow is stored: the flag goes, whatever was edited meanwhile.
Saved(p) ==
  /\ p \in saving /\ ~isNew
  /\ stored' = p
  /\ saving' = saving \ {p}
  /\ dirty' = FALSE
  /\ forgiven' = (p # Payload)
  /\ UNCHANGED <<canvas, isNew>>

\* A workflow is created: the page is mounted anew on what the gateway has; other saves of
\* the page that is gone are refused, as the workflow exists.
Created(p) ==
  /\ p \in saving /\ isNew
  /\ isNew' = FALSE /\ stored' = p
  /\ nodes' = p.steps /\ edges' = p.deps
  /\ saving' = {} /\ dirty' = FALSE /\ forgiven' = FALSE

\* A save fails: its handler catches the error, and the page clears the flag all the same.
SaveFails(p) ==
  /\ p \in saving
  /\ saving' = saving \ {p}
  /\ dirty' = FALSE
  /\ forgiven' = TRUE
  /\ UNCHANGED <<canvas, isNew, stored>>

Edit ==
  \/ \E n \in Names : AddStep(n) \/ \E m \in Names : Connect(n, m) \/ Rename(n, m)
  \/ \E e \in edges : DeleteEdge(e) \/ DeleteEdgeByKey(e)
  \/ \E S \in SUBSET nodes : DeleteSteps(S)
  \/ EditData

Next == Edit \/ Save \/ \E p \in saving : Saved(p) \/ Created(p) \/ SaveFails(p)

Spec == Init /\ [][Next]_vars

-----------------------------------------------------------------------------
(* Properties.                                                             *)

\* The canvas, every save under way and the stored workflow name only steps of their own as
\* dependencies and have no cycle, so the operator never refuses a workflow of the composer
\* for either, whatever is renamed, deleted or connected in whatever order.
CanvasIsDag ==
  /\ NotRefused(Payload)
  /\ \A p \in saving : NotRefused(p)
  /\ NotRefused(stored)

\* A page that asks nobody before it is left shows what is stored, except after a failed
\* save, an edit during a save, or an edge deleted by key.
UnsavedWorkIsFlagged ==
  ~dirty /\ ~forgiven => stored = Payload
=============================================================================
