------------------------- MODULE TriggerExecutions --------------------------
(***************************************************************************)
(* The executions that the webhooks of the gateway start, and the two      *)
(* endpoints through which clients claim them and report on them           *)
(* (api-gateway/routers/webhooks.py, auth_store.py).                       *)
(*                                                                         *)
(* Each request is one transaction that reads the row, without a lock, and *)
(* then writes it by its id: PostgreSQL, at its default isolation, lets    *)
(* others commit between the two.                                          *)
(*                                                                         *)
(* A caller is a client with a token of the role that the endpoints ask    *)
(* for.  The operator is none: its calls carry no token (operator/         *)
(* controllers/webhook_controller.py), the gateway answers them with 401,  *)
(* they change nothing, and so they and what would follow them are no part *)
(* of this module.  Nor is the replay of a dead letter, which imports a    *)
(* name that _core does not have and fails before its update.              *)
(***************************************************************************)
EXTENDS Naturals

CONSTANTS
  Executions,
  Callers,     \* authenticated clients of the two endpoints
  MaxTurns     \* bound of the model: how often an execution becomes pending

VARIABLES
  status,      \* of the row of every execution, "none" before there is one
  request,     \* what every caller has asked for, and how far it has got
  turn,        \* history: how often an execution has become pending
  answered     \* history: the claims that were answered "claimed": true

vars == <<status, request, turn, answered>>

Statuses == {"pending", "queued", "processing", "completed", "failed", "dead_letter"}

\* A request to claim an execution, or to give it a status; what it has read of the row,
\* and in which turn.
Idle == [at |-> "idle"]
Requests ==
  [at : {"asked", "read", "written"}, what : {"claim"} \cup Statuses, of : Executions,
   saw : {"none"} \cup Statuses, turn : 0..MaxTurns]

TypeOK ==
  /\ status \in [Executions -> {"none"} \cup Statuses]
  /\ request \in [Callers -> {Idle} \cup Requests]
  /\ turn \in [Executions -> 0..MaxTurns]
  /\ answered \subseteq Executions \X (0..MaxTurns) \X Callers

Init ==
  /\ status = [e \in Executions |-> "none"]
  /\ request = [c \in Callers |-> Idle]
  /\ turn = [e \in Executions |-> 0]
  /\ answered = {}

At(c, stage) == request[c].at = stage
Close(c) == request' = [request EXCEPT ![c] = Idle]

-----------------------------------------------------------------------------
\* An event matches a trigger: its execution is recorded, unless it is there.
Receive(e) ==
  /\ status[e] = "none"
  /\ status' = [status EXCEPT ![e] = "pending"]
  /\ turn' = [turn EXCEPT ![e] = 1]
  /\ UNCHANGED <<request, answered>>

Ask(c, what, e) ==
  /\ At(c, "idle")
  /\ status[e] # "none"
  /\ request' = [request EXCEPT ![c] =
                   [at |-> "asked", what |-> what, of |-> e, saw |-> "none", turn |-> 0]]
  /\ UNCHANGED <<status, turn, answered>>

\* _TRIGGER_TRANSITIONS
Transitions ==
  [ pending |-> {"queued", "failed", "dead_letter"},
    queued |-> {"processing", "failed", "dead_letter"},
    processing |-> {"completed", "failed", "dead_letter"},
    completed |-> {}, failed |-> {"pending"}, dead_letter |-> {"pending"} ]

\* A claim needs a pending row, a report a legal transition or no change.
Allowed(what, seen) ==
  IF what = "claim" THEN seen = "pending" ELSE what \in Transitions[seen] \cup {seen}

\* The transaction reads the row, and refuses with 409 ...
Read(c) ==
  LET r == request[c] IN
  /\ At(c, "asked")
  /\ IF Allowed(r.what, status[r.of])
     THEN request' = [request EXCEPT ![c] = [r EXCEPT !.at = "read", !.saw = status[r.of],
                                                      !.turn = turn[r.of]]]
     ELSE Close(c)
  /\ UNCHANGED <<status, turn, answered>>

\* ... or writes it, whatever others have committed since; a status that is the one read
\* is not among the columns that are written.
Write(c) ==
  LET r == request[c]
      new == IF r.what = "claim" THEN "queued"
             ELSE IF r.what = r.saw THEN status[r.of] ELSE r.what
      pending == new = "pending" /\ status[r.of] # "pending" IN
  /\ At(c, "read")
  /\ pending => turn[r.of] < MaxTurns
  /\ status' = [status EXCEPT ![r.of] = new]
  /\ turn' = [turn EXCEPT ![r.of] = IF pending THEN @ + 1 ELSE @]
  /\ request' = [request EXCEPT ![c].at = "written"]
  /\ UNCHANGED answered

\* The caller has its answer.
Answer(c) ==
  LET r == request[c] IN
  /\ At(c, "written")
  /\ answered' = IF r.what = "claim" THEN answered \cup {<<r.of, r.turn, c>>} ELSE answered
  /\ Close(c)
  /\ UNCHANGED <<status, turn>>

\* The caller gives up, or the gateway goes away.  A transaction that is under way goes on
\* without its caller, or is rolled back.
Lose(c) ==
  /\ ~At(c, "idle")
  /\ Close(c)
  /\ UNCHANGED <<status, turn, answered>>

Next ==
  \/ \E e \in Executions :
       \/ Receive(e)
       \/ \E c \in Callers, what \in {"claim"} \cup Statuses : Ask(c, what, e)
  \/ \E c \in Callers : Read(c) \/ Write(c) \/ Answer(c) \/ Lose(c)

Spec == Init /\ [][Next]_vars

-----------------------------------------------------------------------------
\* "Atomically claim a trigger execution for dispatch.  Only succeeds if the execution is
\* still pending" (claim_trigger_execution_endpoint): each time that an execution is
\* pending, at most one caller is told that it has claimed it.
OneClaimSucceeds ==
  \A a, b \in answered : a[1] = b[1] /\ a[2] = b[2] => a[3] = b[3]
=============================================================================
