------------------------------ MODULE PiBridge ------------------------------
(***************************************************************************)
(* The bridge of the Pi runtime (pi-runtime/pi_bridge.js and               *)
(* session_state.js): HTTP requests for one Pi process that is restarted   *)
(* when a request names another model.                                     *)
(*                                                                         *)
(* The bridge is one JavaScript thread.  An action runs from one await,    *)
(* timer or event of the code to the next, so the steps of two handlers    *)
(* interleave exactly there.  Pi itself is external: it reads the prompts  *)
(* of its pipe in order, accepts or refuses each, and writes text and the  *)
(* end of each accepted prompt.  It may end the prompt at work whenever it *)
(* likes, so an abort command needs no step of its own; it may also say    *)
(* nothing.  Assumed of Pi: it does not refuse an abort, for which the     *)
(* bridge would fail every invocation in its table (pi_bridge.js, 695).    *)
(* Of the text of an invocation the model keeps whether it holds           *)
(* text of another prompt.  A record that neither a handler, a timer nor   *)
(* the table refers to any more returns to its initial value.              *)
(***************************************************************************)
EXTENDS Naturals, Sequences, FiniteSets

CONSTANTS
  Requests,     \* the invocations that clients make, each once
  Streams,      \* those made to /invoke/stream; the others go to /invoke
  Threads,      \* conversation threads
  ThreadOf,     \* request -> thread
  Models,
  NoModel,      \* a request that names no model
  ModelOf,      \* request -> model or NoModel
  BootModel     \* the model Pi is started with at boot

Boot == "boot"
Actors == Requests \cup {Boot}
Starts == 1..(Cardinality(Requests) + 1)   \* each actor starts Pi at most once

ASSUME RequestsAssumption ==
  /\ IsFiniteSet(Requests)
  /\ Boot \notin Requests
  /\ Streams \subseteq Requests
  /\ ThreadOf \in [Requests -> Threads]
ASSUME ModelsAssumption ==
  /\ NoModel \notin Models
  /\ ModelOf \in [Requests -> Models \cup {NoModel}]
  /\ BootModel \in Models

VARIABLES
  \* What the bridge knows of its Pi process.
  up,           \* the bridge itself runs
  proc,         \* piProcess: the number of its start, 0 for null
  io,           \* stdinKeepAliveFd and stdoutReader are not null; they are those of the newest start
  fifos,        \* the FIFOs of the newest start are in the file system
  starting,     \* piStarting
  config,       \* currentConfig.model
  startCount,   \* the newest start
  \* Pi processes, by start.
  alive, doomed, pipe, running,
  \* The handlers, pendingResponses and ACTIVE_INVOCATIONS.
  pc,
  stops,        \* the process whose exit a handler awaits, or 0
  pending,      \* requests whose prompt awaits its response
  inv,          \* request -> its invocation record
  answer,
  gone,         \* streams whose client has disconnected
  \* The session store, and the cancel requests under way.
  session, cancelling,
  \* History: not in the code.
  misserved,    \* prompts written to a Pi of another model than found or started for them
  overlap,      \* Pi was started while an older process was running
  serial        \* each request found the bridge idle and the earlier ones answered well

bridge  == <<up, proc, io, fifos, starting, config, startCount>>
pis     == <<alive, doomed, pipe, running>>
calls   == <<pc, stops, pending, inv, answer, gone>>
stores  == <<session, cancelling>>
history == <<misserved, overlap, serial>>
vars    == <<bridge, pis, calls, stores, history>>

Invocation ==
  [ listed: BOOLEAN,     \* in ACTIVE_INVOCATIONS
    armed: BOOLEAN,      \* its model timer runs
    done: BOOLEAN,
    err: {"none", "restart", "refused", "pi", "timeout"},
    mixed: BOOLEAN ]     \* its chunks hold text of another prompt

NoRecord == [listed |-> FALSE, armed |-> FALSE, done |-> FALSE, err |-> "none", mixed |-> FALSE]

TypeOK ==
  /\ up \in BOOLEAN /\ io \in BOOLEAN /\ fifos \in BOOLEAN /\ starting \in BOOLEAN
  /\ proc \in {0} \cup Starts /\ startCount \in Starts
  /\ alive \subseteq Starts /\ doomed \subseteq alive
  /\ config \in Models
  /\ pipe \in [Starts -> Seq(Requests)] /\ running \in [Starts -> Seq(Requests)]
  /\ pc \in [Actors -> {"idle", "waiting", "stopping", "fifo", "spawned", "sent", "polling",
                        "streaming", "aborting", "rejected", "ended"}]
  /\ stops \in [Requests -> {0} \cup Starts]
  /\ pending \subseteq Requests
  /\ inv \in [Requests -> Invocation]
  /\ answer \in [Requests -> {"none", "ok", "mixed", "failed"}]
  /\ gone \subseteq Streams
  /\ session \in [Threads -> {"none", "active", "completed", "error", "cancelled"}]
  /\ cancelling \subseteq Threads
  /\ misserved \subseteq Requests /\ overlap \in BOOLEAN /\ serial \in BOOLEAN

\* The server listens and its own startPi has made the FIFOs.
Init ==
  /\ up = TRUE /\ proc = 0 /\ io = TRUE /\ fifos = TRUE
  /\ starting = TRUE /\ config = BootModel /\ startCount = 1
  /\ alive = {} /\ doomed = {}
  /\ pipe = [s \in Starts |-> <<>>] /\ running = [s \in Starts |-> <<>>]
  /\ pc = [a \in Actors |-> IF a = Boot THEN "fifo" ELSE "idle"]
  /\ stops = [r \in Requests |-> 0]
  /\ pending = {}
  /\ inv = [r \in Requests |-> NoRecord]
  /\ answer = [r \in Requests |-> "none"]
  /\ gone = {}
  /\ session = [t \in Threads |-> "none"] /\ cancelling = {}
  /\ misserved = {} /\ overlap = FALSE /\ serial = TRUE

-----------------------------------------------------------------------------
(* Pieces of several handlers.                                             *)

table == {r \in Requests : inv[r].listed}

ConfigChanged(r) == ModelOf[r] # NoModel /\ ModelOf[r] # config

WantedModelKept(r) == config   \* mutant of WantedModel: the model named is not used

WantedModel(r) == IF ModelOf[r] = NoModel THEN config ELSE ModelOf[r]

Over(r) == pc[r] \in {"rejected", "ended"}

\* Handlers answer, or streams get their first terminal event.
Answered(S, how) ==
  [r \in Requests |-> IF r \in S /\ answer[r] = "none" THEN how ELSE answer[r]]

Result(r) == IF inv[r].mixed THEN "mixed" ELSE "ok"

\* sessionStore.complete for some invocations: whatever the state of the session.
Completed(S, status) ==
  [t \in Threads |-> IF session[t] # "none" /\ \E r \in S : ThreadOf[r] = t
                     THEN status ELSE session[t]]

\* startPi up to its first timer; called only when no other start is under way.
BeginStart(a, model, older) ==
  /\ startCount' = startCount + 1
  /\ starting' = TRUE
  /\ config' = model
  /\ fifos' = TRUE /\ io' = TRUE
  /\ pc' = [pc EXCEPT ![a] = "fifo"]
  /\ overlap' = (overlap \/ older # {})

\* The catch of a handler: it answers; its entry stays in the table, its timer armed.
Reject(r) ==
  /\ pc' = [pc EXCEPT ![r] = "rejected"]
  /\ answer' = Answered({r}, "failed")

\* The handler after ensurePiWithConfig: the session begins, the invocation enters the
\* table and its prompt is written, unless there is no process or no pipe.
Send(r) ==
  /\ session' = [session EXCEPT ![ThreadOf[r]] = "active"]
  /\ inv' = [inv EXCEPT ![r].listed = TRUE, ![r].armed = (r \in Streams)]
  /\ IF proc # 0 /\ io
     THEN /\ pipe' = [pipe EXCEPT ![startCount] = Append(@, r)]
          /\ pending' = pending \cup {r}
          /\ pc' = [pc EXCEPT ![r] = "sent"]
          /\ UNCHANGED answer
     ELSE Reject(r) /\ UNCHANGED <<pipe, pending>>

\* History: a request that did not join a start meets its model, or does not.
NoteModel(r) == misserved' = IF ConfigChanged(r) THEN misserved \cup {r} ELSE misserved

\* History: a request arrives.
Arrive(r) ==
  /\ pc[r] = "idle"
  /\ serial' = (serial /\ \A q \in Requests \ {r} :
                            pc[q] = "idle" \/ (pc[q] = "ended" /\ answer[q] \in {"ok", "mixed"}))

-----------------------------------------------------------------------------
(* A request arrives: the first part of its handler and of                 *)
(* ensurePiWithConfig, by what that finds.                                 *)

\* Mutant of Dropped: its timer is cleared, but it is not failed.
DroppedSilently(r) == IF Over(r) THEN NoRecord ELSE [inv[r] EXCEPT !.listed = FALSE, !.armed = FALSE]

\* The record of an invocation that leaves the table because Pi is restarted.
Dropped(r) == IF Over(r) THEN NoRecord
              ELSE [inv[r] EXCEPT !.listed = FALSE, !.armed = FALSE, !.done = TRUE, !.err = "restart"]

KillForgotten(p) == doomed' = doomed   \* mutant of Kill

Kill(p) == doomed' = doomed \cup {p}

\* Pi runs with another model: every active invocation fails, the senders that wait for a
\* response are rejected, and Pi is told to stop.
RestartForModel(r) ==
  /\ Arrive(r)
  /\ proc # 0 /\ ConfigChanged(r)
  /\ inv' = [q \in Requests |-> IF q \in table THEN Dropped(q) ELSE inv[q]]
  /\ proc' = 0 /\ io' = FALSE
  /\ Kill(proc)
  /\ pending' = {}
  /\ answer' = Answered(pending \cup (table \cap Streams), "failed")
  /\ pc' = [a \in Actors |-> IF a = r THEN "stopping"
                             ELSE IF a \in pending THEN "rejected" ELSE pc[a]]
  /\ stops' = [stops EXCEPT ![r] = proc]
  /\ UNCHANGED <<up, fifos, starting, config, startCount, alive, pipe, running, gone,
                 stores, misserved, overlap>>

\* Pi does not run and nobody starts it.
StartForRequest(r) ==
  /\ Arrive(r)
  /\ proc = 0 /\ ~starting
  /\ BeginStart(r, WantedModel(r), alive)
  /\ UNCHANGED <<up, proc, pis, stops, pending, inv, answer, gone, stores, misserved>>

\* Somebody starts Pi: wait for that, whatever model it is.
WaitForStart(r) ==
  /\ Arrive(r)
  /\ starting
  /\ proc = 0 \/ ~ConfigChanged(r)
  /\ pc' = [pc EXCEPT ![r] = "waiting"]
  /\ UNCHANGED <<bridge, pis, stops, pending, inv, answer, gone, stores, misserved, overlap>>

\* Pi runs as wanted.
SendAtOnce(r) ==
  /\ Arrive(r)
  /\ proc # 0 /\ ~starting /\ ~ConfigChanged(r)
  /\ Send(r)
  /\ NoteModel(r)
  /\ UNCHANGED <<bridge, alive, doomed, running, stops, gone, cancelling, overlap>>

-----------------------------------------------------------------------------
(* Stopping and starting Pi.                                               *)

\* stopPi has resolved for r, which calls startPi: rejected when another start is under way.
StartAfterStop(r, older) ==
  /\ stops' = [stops EXCEPT ![r] = 0]
  /\ IF starting
     THEN /\ Reject(r)
          /\ UNCHANGED <<startCount, starting, config, io, overlap>>
     ELSE /\ BeginStart(r, ModelOf[r], older)
          /\ UNCHANGED answer

\* Mutant of Exits: the process still counts as told to stop.
ExitsStillDoomed(p) ==
  /\ alive' = alive \ {p} /\ doomed' = doomed
  /\ pipe' = [pipe EXCEPT ![p] = <<>>] /\ running' = [running EXCEPT ![p] = <<>>]
  /\ proc' = 0

\* What is left of a process that exits.
Exits(p) ==
  /\ alive' = alive \ {p}
  /\ doomed' = doomed \ {p}
  /\ pipe' = [pipe EXCEPT ![p] = <<>>]
  /\ running' = [running EXCEPT ![p] = <<>>]
  /\ proc' = 0

\* A process that was told to stop exits: piProcess becomes null whichever process it is,
\* and the FIFOs are unlinked whoever made them.  The request that waits for it goes on.
StoppedExit(p) ==
  /\ p \in doomed
  /\ Exits(p)
  /\ LET waiters == {r \in Requests : pc[r] = "stopping" /\ stops[r] = p} IN
     IF waiters = {}
     THEN /\ fifos' = FALSE
          /\ UNCHANGED <<pc, stops, answer, startCount, starting, config, io, overlap>>
     ELSE \E r \in waiters : /\ StartAfterStop(r, alive')
                             /\ starting => fifos' = FALSE
  /\ UNCHANGED <<up, pending, inv, gone, stores, misserved, serial>>

\* Eight seconds after stopPi the process still runs; the request goes on without it.
StopGivesUp(r) ==
  /\ pc[r] = "stopping"
  /\ StartAfterStop(r, alive)
  /\ starting => UNCHANGED fifos
  /\ UNCHANGED <<up, proc, pis, pending, inv, gone, stores, misserved, serial>>

\* A process exits of itself.
OwnExit(p) ==
  /\ p \in alive \ doomed
  /\ Exits(p)
  /\ UNCHANGED <<up, io, fifos, starting, config, startCount, calls, stores, history>>

\* The first timer of startPi: Pi is spawned on the FIFOs.  When they have been unlinked
\* meanwhile, opening them throws in the timer and ends the bridge.
Spawn(a) ==
  /\ pc[a] = "fifo"
  /\ IF fifos
     THEN /\ proc' = startCount
          /\ alive' = alive \cup {startCount}
          /\ pc' = [pc EXCEPT ![a] = "spawned"]
          /\ UNCHANGED up
     ELSE /\ up' = FALSE
          /\ UNCHANGED <<proc, alive, pc>>
  /\ UNCHANGED <<io, fifos, starting, config, startCount, doomed, pipe, running,
                 stops, pending, inv, answer, gone, stores, history>>

\* The second timer of startPi: the starter goes on, or fails when Pi is gone again.
Ready(a) ==
  /\ pc[a] = "spawned"
  /\ starting' = FALSE
  /\ IF a \in Requests /\ proc # 0
     THEN Send(a) /\ NoteModel(a)
     ELSE Reject(a) /\ UNCHANGED <<session, inv, pipe, pending, misserved>>
  /\ UNCHANGED <<up, proc, io, fifos, config, startCount, alive, doomed, running,
                 stops, gone, cancelling, overlap, serial>>

\* The poll of a request that waits for the start of another: it looks at the process
\* only, not at its model.  (The poll gives up after ten seconds; a start takes two.)
WaitOver(r) ==
  /\ pc[r] = "waiting"
  /\ ~starting
  /\ IF proc # 0
     THEN Send(r)
     ELSE Reject(r) /\ UNCHANGED <<session, inv, pipe, pending>>
  /\ UNCHANGED <<bridge, alive, doomed, running, stops, gone, cancelling, history>>

-----------------------------------------------------------------------------
(* Output of Pi: handlePiOutput.  None of it names an invocation, so each  *)
(* line goes to the whole table.                                           *)

\* The output of a process is read until it is stopped or replaced.
Heard(p) == p \in alive /\ p = startCount /\ io

\* Pi takes the next prompt of its pipe.
Takes(p, r) ==
  /\ p \in alive /\ pipe[p] # <<>>
  /\ r = Head(pipe[p])
  /\ pipe' = [pipe EXCEPT ![p] = Tail(@)]

\* It accepts the prompt; the sender, if it still waits for the response, goes on.
Accept(p, r) ==
  /\ Takes(p, r)
  /\ running' = [running EXCEPT ![p] = Append(@, r)]
  /\ IF Heard(p) /\ r \in pending
     THEN /\ pending' = pending \ {r}
          /\ pc' = [pc EXCEPT ![r] = IF r \in Streams THEN "streaming" ELSE "polling"]
     ELSE UNCHANGED <<pending, pc>>
  /\ UNCHANGED <<bridge, alive, doomed, stops, inv, answer, gone, stores, history>>

\* Every invocation of the table is over, and so is its session.
EndTable(status, error) ==
  /\ inv' = [q \in Requests |->
       IF q \notin table THEN inv[q]
       ELSE [inv[q] EXCEPT !.done = TRUE, !.armed = FALSE,
                           !.err = IF error = "none" THEN @ ELSE error]]
  /\ session' = Completed(table, status)

\* It refuses the prompt: every active invocation fails, the sender is rejected.
Refuse(p, r) ==
  /\ Takes(p, r)
  /\ IF Heard(p) /\ r \in pending
     THEN /\ pending' = pending \ {r}
          /\ EndTable("error", "refused")
          /\ pc' = [pc EXCEPT ![r] = "rejected"]
          /\ answer' = Answered({r} \cup (table \cap Streams), "failed")
     ELSE UNCHANGED <<pending, inv, session, pc, answer>>
  /\ UNCHANGED <<bridge, alive, doomed, running, stops, gone, cancelling, history>>

Speaks(p) == Heard(p) /\ running[p] # <<>>

\* message_update adds text to every invocation of the table; message_end replaces theirs.
Text(p, replace) ==
  /\ Speaks(p)
  /\ inv' = [q \in Requests |->
       IF q \notin table THEN inv[q]
       ELSE [inv[q] EXCEPT !.mixed = (@ /\ ~replace) \/ q # Head(running[p])]]
  /\ UNCHANGED <<bridge, pis, pc, stops, pending, answer, gone, stores, history>>

Delta(p)      == Text(p, FALSE)
MessageEnd(p) == Text(p, TRUE)

Finishes(p) == Speaks(p) /\ running' = [running EXCEPT ![p] = Tail(@)]

\* agent_end: every invocation of the table is complete.
AgentEnd(p) ==
  /\ Finishes(p)
  /\ EndTable("completed", "none")
  /\ answer' = [r \in Requests |-> IF r \in table \cap Streams /\ answer[r] = "none"
                                   THEN Result(r) ELSE answer[r]]
  /\ UNCHANGED <<bridge, alive, doomed, pipe, pc, stops, pending, gone, cancelling, history>>

\* An error event: every invocation of the table fails; Pi drops its prompt.
PiError(p) ==
  /\ Finishes(p)
  /\ EndTable("error", "pi")
  /\ answer' = Answered(table \cap Streams, "failed")
  /\ UNCHANGED <<bridge, alive, doomed, pipe, pc, stops, pending, gone, cancelling, history>>

-----------------------------------------------------------------------------
(* The end of a handler.                                                   *)

\* No response to the prompt within five minutes.
AckTimeout(r) ==
  /\ r \in pending
  /\ pending' = pending \ {r}
  /\ Reject(r)
  /\ UNCHANGED <<bridge, pis, stops, inv, gone, stores, history>>

\* Mutant of Leaves: the entry stays in the table.
LeavesListed(r, how) ==
  /\ pc' = [pc EXCEPT ![r] = "ended"]
  /\ answer' = Answered({r}, how)
  /\ UNCHANGED inv

\* A handler returns: its entry leaves the table, and nothing refers to it any more.
Leaves(r, how) ==
  /\ pc' = [pc EXCEPT ![r] = "ended"]
  /\ inv' = [inv EXCEPT ![r] = NoRecord]
  /\ answer' = Answered({r}, how)

\* Mutant of Finish: the response to the prompt is taken for the end of it.
FinishOnResponse(r) ==
  /\ pc[r] = "polling"
  /\ Leaves(r, Result(r))
  /\ session' = Completed({r}, "completed")
  /\ UNCHANGED <<bridge, pis, stops, pending, gone, cancelling, history>>

\* /invoke: its poll finds the invocation done.
Finish(r) ==
  /\ pc[r] = "polling" /\ inv[r].done
  /\ IF inv[r].err = "none"
     THEN Leaves(r, Result(r)) /\ session' = Completed({r}, "completed")
     ELSE Leaves(r, "failed") /\ UNCHANGED session
  /\ UNCHANGED <<bridge, pis, stops, pending, gone, cancelling, history>>

\* /invoke: the poll gives up and sends an abort, whose response it awaits.
PollTimeout(r) ==
  /\ pc[r] = "polling" /\ ~inv[r].done
  /\ pc' = [pc EXCEPT ![r] = "aborting"]
  /\ UNCHANGED <<bridge, pis, stops, pending, inv, answer, gone, stores, history>>

\* /invoke: the abort has been answered, refused or timed out.
AbortOver(r) ==
  /\ pc[r] = "aborting"
  /\ Leaves(r, "failed")
  /\ session' = Completed({r}, "error")
  /\ UNCHANGED <<bridge, pis, stops, pending, gone, cancelling, history>>

\* /invoke/stream: the timer set when the invocation entered the table.
ModelTimer(r) ==
  /\ inv[r].armed
  /\ IF ~inv[r].done /\ inv[r].err = "none"
     THEN /\ inv' = [inv EXCEPT ![r].armed = FALSE, ![r].done = TRUE, ![r].err = "timeout"]
          /\ session' = Completed({r}, "error")
          /\ answer' = Answered({r}, "failed")
     ELSE /\ inv' = [inv EXCEPT ![r].armed = FALSE]
          /\ UNCHANGED <<session, answer>>
  /\ UNCHANGED <<bridge, pis, pc, stops, pending, gone, cancelling, history>>

\* /invoke/stream: the keep-alive interval ends the response when it is complete.
Keepalive(r) ==
  /\ pc[r] = "streaming"
  /\ inv[r].done \/ r \in gone
  /\ Leaves(r, "failed")
  /\ UNCHANGED <<bridge, pis, stops, pending, gone, stores, history>>

\* /invoke/stream: the connection of the client closes; the listener of the request cleans
\* up, whether the handler still runs or was rejected.
ClientLeaves(r) ==
  /\ r \in table \cap Streams
  /\ gone' = gone \cup {r}
  /\ inv' = IF Over(r) THEN [inv EXCEPT ![r] = NoRecord]
            ELSE [inv EXCEPT ![r].listed = FALSE, ![r].armed = FALSE]
  /\ UNCHANGED <<bridge, pis, pc, stops, pending, answer, stores, history>>

-----------------------------------------------------------------------------
(* POST /cancel and /abort of a thread with a session: Pi is sent an       *)
(* abort; when that is over, an active session becomes cancelled.          *)

Cancel(t) ==
  /\ session[t] # "none"
  /\ cancelling' = cancelling \cup {t}
  /\ UNCHANGED <<bridge, pis, calls, session, history>>

CancelSession(t) ==
  /\ t \in cancelling
  /\ cancelling' = cancelling \ {t}
  /\ session' = [session EXCEPT ![t] = IF @ = "active" THEN "cancelled" ELSE @]
  /\ UNCHANGED <<bridge, pis, calls, history>>

-----------------------------------------------------------------------------
Arrival(r) == RestartForModel(r) \/ StartForRequest(r) \/ WaitForStart(r) \/ SendAtOnce(r)

Handler(r) ==
  \/ StopGivesUp(r) \/ WaitOver(r) \/ AckTimeout(r)
  \/ Finish(r) \/ PollTimeout(r) \/ AbortOver(r)
  \/ ModelTimer(r) \/ Keepalive(r)

Starter(a) == Spawn(a) \/ Ready(a)

PiOutput(p) ==
  \/ \E r \in Requests : Accept(p, r) \/ Refuse(p, r)
  \/ Delta(p) \/ MessageEnd(p) \/ AgentEnd(p) \/ PiError(p)

Next ==
  /\ up
  /\ \/ \E r \in Requests : Arrival(r) \/ Handler(r) \/ ClientLeaves(r)
     \/ \E a \in Actors : Starter(a)
     \/ \E p \in Starts : PiOutput(p) \/ StoppedExit(p) \/ OwnExit(p)
     \/ \E t \in Threads : Cancel(t) \/ CancelSession(t)

\* The timers and polls of the bridge come round.  Pi owes the bridge nothing, not even
\* the exit that a signal asks for, and clients owe it neither requests nor patience.
Fairness ==
  /\ \A r \in Requests : WF_vars(up /\ Handler(r))
  /\ \A a \in Actors : WF_vars(up /\ Starter(a))

Spec == Init /\ [][Next]_vars /\ Fairness

-----------------------------------------------------------------------------
(* Properties.                                                             *)

\* Requests made one after the other to an idle bridge, each after a good answer to the
\* last, get an answer with text of their own prompt only, and leave their session
\* completed until the next one: restarts for another model, aborted prompts and late exits of an older Pi
\* do not leak from one into the next.  (Concurrent requests do get text of each other:
\* no line of Pi names its invocation.)
SerialRequestsAreServed ==
  serial => \A r \in Requests :
    /\ answer[r] # "mixed"
    /\ pc[r] = "ended" /\ answer[r] = "ok" /\ (\A q \in Requests \ {r} : ThreadOf[q] = ThreadOf[r] => pc[q] = "idle")
         => session[ThreadOf[r]] = "completed"

\* A request that finds Pi running, or starts it, has its prompt written to a Pi of the
\* model it names, whatever other requests restart meanwhile.  (One that joins the start
\* of another takes what it gets.)
ServedByRequestedModel == misserved = {}

\* Unless Pi was started while an older process still ran, every Pi that runs is the one
\* the bridge knows, or has been told to stop: none runs on that nobody will stop.
NoStrayProcess == ~overlap => alive \subseteq {proc} \cup doomed

\* Only a handler that was rejected leaves its invocation in the table, to receive and be
\* completed by the output of later prompts.
OnlyUnacceptedLeak == \A r \in table : pc[r] # "ended"

\* Every request ends while the bridge runs, whatever Pi does, restarts and clients
\* included: each wait of a handler has a timer or a poll of its own.
EveryRequestAnswered ==
  \A r \in Requests : pc[r] # "idle" ~> Over(r) \/ ~up
=============================================================================
