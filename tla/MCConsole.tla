----------------------------- MODULE MCConsole -----------------------------
(* The parts of the web console that are modelled share no state, so a      *)
(* behaviour is one of the composer's canvas, the browser's session, the    *)
(* list of workflows, the notifications, a log panel or a diff, while the   *)
(* others stay as they start.                                               *)
EXTENDS CanvasAlgorithms, SessionRefresh, ResourceLogs, NotificationFeed, UnifiedDiff

CONSTANTS
  WorkflowNames, ListSlots, MaxChanges    \* of WorkspaceSync, with Namespaces

VARIABLES
  part,                                   \* the one that moves
  server, namespace, workflows, selected, rendered, polling, request, changes

workspaceVars == <<server, namespace, workflows, selected, rendered, polling, request, changes>>

Workspace == INSTANCE WorkspaceSync WITH Names <- WorkflowNames

\* A state in which nothing that is fair can happen.
WorkspaceAsleep ==
  /\ server = [none |-> <<>>] /\ namespace = "none" /\ workflows = <<>> /\ selected = "none" /\ changes = 0
  /\ rendered = [namespace |-> "none", name |-> "none", phase |-> "absent"]
  /\ polling = Workspace!Off
  /\ request = [s \in Workspace!Slots |->
                  [Workspace!NoRequest EXCEPT !.answer = IF s \in ListSlots THEN <<"lost">> ELSE <<>>]]

MCInit ==
  /\ part \in {"canvas", "session", "workspace", "feed", "logs", "diff"}
  /\ Init /\ SessionInit /\ FeedInit /\ LogsInit /\ DiffInit
  /\ part # "canvas" => stored.steps = {} /\ ~isNew
  /\ part # "feed" => phase \in [Namespaces -> {"gone"}] /\ chosen = CHOOSE ns \in Namespaces : TRUE
  /\ part # "logs" => source = CHOOSE s \in Sources : TRUE
  /\ IF part = "workspace" THEN Workspace!Init ELSE WorkspaceAsleep

MCNext ==
  /\ UNCHANGED part
  /\ IF part = "canvas" THEN Next ELSE UNCHANGED vars
  /\ IF part = "session" THEN SessionNext ELSE UNCHANGED sessionVars
  /\ IF part = "workspace" THEN Workspace!Next ELSE UNCHANGED workspaceVars
  /\ IF part = "feed" THEN FeedNext ELSE UNCHANGED feedVars
  /\ IF part = "logs" THEN LogsNext ELSE UNCHANGED logVars
  /\ IF part = "diff" THEN DiffNext ELSE UNCHANGED edit

MCSpec ==
  /\ MCInit
  /\ [][MCNext]_<<part, vars, sessionVars, workspaceVars, feedVars, logVars, edit>>
  /\ Workspace!Fairness

ShowsServerState == Workspace!ShowsServerState
=============================================================================
