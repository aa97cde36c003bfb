--------------------------- MODULE WorkspaceSync ----------------------------
(***************************************************************************)
(* How the web console keeps its list of workflows up to date              *)
(* (contexts/WorkspaceContext.tsx): a poll of the list every ten seconds,  *)
(* a poll of the selected workflow every three while it is active, and the *)
(* answers to what the user does, all merged into one list by name as they *)
(* arrive, while the user may turn to another namespace.                   *)
(*                                                                         *)
(* The gateway is modelled from its answers.  Agents and policies, the     *)
(* modes in which a resource is created and the view are left out: the     *)
(* selection that depends on them is free.                                 *)
(***************************************************************************)
EXTENDS Naturals

CONSTANTS
  Namespaces,
  Names,         \* of workflows, in every namespace
  ListSlots,     \* bound of the model: list polls in flight
  MaxChanges     \* bound of the model: what users do, and requests that fail

None == "none"
Acts == {"trigger", "cancel", "create", "delete", "save"}
Slots == ListSlots \cup {"poll", "act"}
Phases == {"absent", "active", "ended"}

VARIABLES
  server,     \* the phase of every workflow
  namespace,  \* chosen by the user
  workflows,  \* the list shown
  selected,   \* selectedWorkflowName
  rendered,   \* namespace, selectedWorkflowName and its phase when effects last ran
  polling,    \* workflowPollingRef, with what its interval asks for
  request,    \* requests in flight
  changes     \* bound of the model: changes made so far

shown == <<workflows, selected>>
vars == <<server, namespace, workflows, selected, rendered, polling, request, changes>>

Off == [namespace |-> None, name |-> None]
NoRequest == [kind |-> None, namespace |-> None, name |-> None, answer |-> <<>>]
Lists == [Names -> Phases]
PhaseOf(name) == IF name = None THEN "absent" ELSE workflows[name]

TypeOK ==
  /\ server \in [Namespaces -> Lists] /\ namespace \in Namespaces
  /\ workflows \in Lists /\ selected \in Names \cup {None}
  /\ rendered \in [namespace : Namespaces, name : Names \cup {None}, phase : Phases]
  /\ polling \in {Off} \cup [namespace : Namespaces, name : Names]
  /\ request \in [Slots -> {NoRequest} \cup
       [kind : Acts \cup {"list", "poll"}, namespace : Namespaces, name : Names \cup {None},
        answer : {<<>>} \cup Lists]]
  /\ changes \in 0 .. MaxChanges

\* The user has signed in and has not seen a list yet.
Init ==
  /\ server \in [Namespaces -> Lists]
  /\ namespace \in Namespaces
  /\ workflows = [n \in Names |-> "absent"] /\ selected = None
  /\ rendered = [namespace |-> namespace, name |-> None, phase |-> "absent"]
  /\ polling = Off
  /\ request = [s \in Slots |-> NoRequest]
  /\ changes = 0

Free(s) == request[s] = NoRequest
Sent(kind, ns, name) == [kind |-> kind, namespace |-> ns, name |-> name, answer |-> <<>>]
Present(list) == {n \in Names : list[n] # "absent"}
Change == changes < MaxChanges /\ changes' = changes + 1

-----------------------------------------------------------------------------
\* The page is rendered and its effects run until nothing changes: a new namespace clears the
\* selection, an empty selection may be filled, and polling starts again or stops.
Render ==
  /\ rendered # [namespace |-> namespace, name |-> selected, phase |-> PhaseOf(selected)]
  /\ LET kept == IF rendered.namespace = namespace THEN selected ELSE None IN
     selected' \in IF kept = None THEN Present(workflows) \cup {None} ELSE {kept}
  /\ rendered' = [namespace |-> namespace, name |-> selected', phase |-> PhaseOf(selected')]
  /\ polling' = IF rendered'.phase = "active" THEN [namespace |-> namespace, name |-> selected']
                ELSE Off
  /\ UNCHANGED <<server, namespace, workflows, request, changes>>

\* The interval of the list, or its first call.
ListTick(s) ==
  /\ s \in ListSlots /\ Free(s)
  /\ request' = [request EXCEPT ![s] = Sent("list", rendered.namespace, None)]
  /\ UNCHANGED <<server, namespace, shown, rendered, polling, changes>>

\* The interval of the selected workflow.
PollTick ==
  /\ polling # Off /\ Free("poll")
  /\ request' = [request EXCEPT !["poll"] = Sent("poll", polling.namespace, polling.name)]
  /\ UNCHANGED <<server, namespace, shown, rendered, polling, changes>>

\* Mutant of Preserved: the selected workflow is always taken for the one that is polled.
PreservedIfSelected(list, n) ==
  n = rendered.name /\ n \in Present(workflows) /\ n \in Present(list)

\* The entry of the polled workflow is not overwritten by a list.
Preserved(list, n) ==
  polling # Off /\ n = rendered.name /\ n \in Present(workflows) /\ n \in Present(list)

\* refreshWorkspaceData has its answer, whatever namespace it asked about.
ListArrives(s) ==
  LET list == request[s].answer IN
  /\ request[s].kind = "list" /\ list # <<>>
  /\ workflows' = [n \in Names |-> IF Preserved(list, n) THEN workflows[n] ELSE list[n]]
  /\ IF rendered.name \in Present(list) THEN UNCHANGED selected
     ELSE selected' \in IF Present(list) = {} THEN {None} ELSE Present(list)
  /\ request' = [request EXCEPT ![s] = NoRequest]
  /\ UNCHANGED <<server, namespace, rendered, polling, changes>>

\* An answer about one workflow goes into the list if it shows one of that name.
Merge(name, list) ==
  workflows' = IF name \in Present(workflows) /\ name \in Present(list)
               THEN [workflows EXCEPT ![name] = list[name]] ELSE workflows

\* An answer that is not of an active workflow ends the polling, even one begun since.
PollArrives ==
  LET r == request["poll"] IN
  /\ r.answer # <<>>
  /\ Merge(r.name, r.answer)
  /\ polling' = IF r.answer[r.name] = "ended" THEN Off ELSE polling
  /\ request' = [request EXCEPT !["poll"] = NoRequest]
  /\ UNCHANGED <<server, namespace, selected, rendered, changes>>

-----------------------------------------------------------------------------
Turn(ns) ==
  /\ ns # namespace /\ namespace' = ns
  /\ Change
  /\ UNCHANGED <<server, shown, rendered, polling, request>>

Select(name) ==
  /\ name \in Present(workflows) \ {selected} /\ selected' = name
  /\ Change
  /\ UNCHANGED <<server, namespace, workflows, rendered, polling, request>>

Ask(act, name) ==
  /\ Free("act")
  /\ act = "create" \/ name \in Present(workflows)
  /\ request' = [request EXCEPT !["act"] = Sent(act, rendered.namespace, name)]
  /\ Change
  /\ UNCHANGED <<server, namespace, shown, rendered, polling>>

\* Trigger and cancel merge what they return; the others change the selection, and then
\* refresh the list of the namespace that they were asked in.
ActArrives ==
  LET r == request["act"] IN
  /\ r.kind \in Acts /\ r.answer # <<>>
  /\ \/ /\ r.kind \in {"trigger", "cancel"}
        /\ Merge(r.name, r.answer)
        /\ request' = [request EXCEPT !["act"] = NoRequest]
        /\ UNCHANGED selected
     \/ /\ r.kind \in {"create", "delete", "save"}
        /\ selected' = CASE r.kind = "create" -> r.name [] r.kind = "delete" -> None
                         [] OTHER -> selected
        /\ request' = [request EXCEPT !["act"] = Sent("list", r.namespace, None)]
        /\ UNCHANGED workflows
  /\ UNCHANGED <<server, namespace, rendered, polling, changes>>

-----------------------------------------------------------------------------
(* The gateway.                                                            *)

\* What an operation does to the phase of a workflow, if the gateway does not refuse it.
Effect(kind, phase) ==
  CASE kind = "trigger" /\ phase = "ended"  -> {"active"}
    [] kind = "cancel"  /\ phase = "active" -> {"ended"}
    [] kind = "create"  /\ phase = "absent" -> {"active"}
    [] kind = "delete"  /\ phase # "absent" -> {"absent"}
    [] kind = "save"    /\ phase # "absent" -> {phase}
    [] kind = "poll"    /\ phase # "absent" -> {phase}
    [] OTHER -> {}

Serve(s) ==
  LET r == request[s] IN
  /\ r # NoRequest /\ r.answer = <<>>
  /\ \/ /\ r.kind = "list"
        /\ request' = [request EXCEPT ![s].answer = server[r.namespace]]
        /\ UNCHANGED server
     \/ /\ r.kind # "list"
        /\ LET after == Effect(r.kind, server[r.namespace][r.name]) IN
           \/ /\ \E p \in after : server' = [server EXCEPT ![r.namespace][r.name] = p]
              /\ request' = [request EXCEPT ![s].answer = server'[r.namespace]]
           \/ /\ after = {}
              /\ request' = [request EXCEPT ![s] = NoRequest]
              /\ UNCHANGED server
  /\ UNCHANGED <<namespace, shown, rendered, polling, changes>>

\* A request or its answer is lost.
Fails(s) ==
  /\ ~Free(s)
  /\ request' = [request EXCEPT ![s] = NoRequest]
  /\ Change
  /\ UNCHANGED <<server, namespace, shown, rendered, polling>>

RunEnds(ns, n) ==
  /\ server[ns][n] = "active" /\ server' = [server EXCEPT ![ns][n] = "ended"]
  /\ UNCHANGED <<namespace, shown, rendered, polling, request, changes>>

\* Another user, or a trigger.
Others(ns, n) ==
  /\ \E p \in Phases \ {server[ns][n]} : server' = [server EXCEPT ![ns][n] = p]
  /\ Change
  /\ UNCHANGED <<namespace, shown, rendered, polling, request>>

Next ==
  \/ Render \/ PollTick \/ PollArrives \/ ActArrives
  \/ \E s \in Slots : ListTick(s) \/ ListArrives(s) \/ Serve(s) \/ Fails(s)
  \/ \E ns \in Namespaces : Turn(ns) \/ \E n \in Names : RunEnds(ns, n) \/ Others(ns, n)
  \/ \E n \in Names : Select(n) \/ \E a \in Acts : Ask(a, n)

\* What goes on in a slot: an interval asks, the gateway answers, the answer is merged.
Moves(s) ==
  \/ ListTick(s) \/ Serve(s) \/ ListArrives(s)
  \/ s = "poll" /\ (PollTick \/ PollArrives)
  \/ s = "act" /\ ActArrives

\* The page renders, its intervals go on, and every request is answered or fails.
Fairness == WF_vars(Render) /\ \A s \in Slots : WF_vars(Moves(s))

Spec == Init /\ [][Next]_vars /\ Fairness

-----------------------------------------------------------------------------
\* When the users and the runs come to rest, the list shown is that of the chosen namespace
\* for good: no late answer, of this namespace or another, and no polling left running or
\* stopped too early keeps it from that.
ShowsServerState == <>[](workflows = server[namespace])
=============================================================================
