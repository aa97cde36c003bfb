---------------------------- MODULE ResourceLogs ----------------------------
(***************************************************************************)
(* The log panel of the web console (components/shared/                    *)
(* ResourceLogsPanel.tsx).  An effect asks for the tail of the log of its  *)
(* source, then opens a stream that begins with the same tail; lines of    *)
(* the stream wait for a timer that adds them in batches.  The effect runs *)
(* again for another source, and whenever the page around the panel is     *)
(* rendered, which makes the source another object.                        *)
(*                                                                         *)
(* The gateway is external; a tail is as long as the log here.  Filters,   *)
(* labels and messages are left out, and a denial is a failure.            *)
(***************************************************************************)
EXTENDS Naturals, Sequences

CONSTANTS
  Sources,
  MaxShownLines,  \* MAX_BUFFERED_LINES
  MaxWritten,     \* bound of the model: lines of a log
  MaxRuns         \* bound of the model: runs of the effect

ASSUME ShownLinesAssumption == MaxShownLines \in Nat

VARIABLES
  log,      \* how many lines every source has
  source,   \* the one that the panel shows
  lines,    \* shown
  pending,  \* pendingRef: received and not shown
  timer,    \* the timer that flushes: whether flushTimerRef names one, and whether it is due
  paused,
  run,      \* what the runs of the effect are about; the last one is the current one
  complete  \* history: no line was dropped for a pause since the current run began

logVars == <<log, source, lines, pending, timer, paused, run, complete>>

LinesOf(s, n) == [i \in 1 .. n |-> [source |-> s, n |-> i]]
Suffix(list, n) == IF Len(list) > n THEN SubSeq(list, Len(list) - n + 1, Len(list)) ELSE list

NewRun(s) == [source |-> s, at |-> "loading", tail |-> 0, read |-> 0, cancelled |-> FALSE]
RunAt(r, stage) == run[r].at = stage
Current == run[Len(run)]

LogsInit ==
  /\ log = [s \in Sources |-> 0] /\ source \in Sources
  /\ lines = <<>> /\ pending = <<>> /\ paused = FALSE /\ complete = TRUE
  /\ timer = [named |-> FALSE, due |-> FALSE]
  /\ run = <<NewRun(source)>>

-----------------------------------------------------------------------------
\* Mutant of TimerCleared: the timer is cleared, its name is not.
TimerForgotten == [timer EXCEPT !.due = FALSE]

TimerCleared == [named |-> FALSE, due |-> FALSE]

\* The clean-up of a run and the beginning of the next: a request under way is cancelled, a
\* stream is aborted.
Show(s) ==
  /\ Len(run) < MaxRuns
  /\ source' = s
  /\ lines' = <<>> /\ pending' = <<>> /\ timer' = TimerCleared /\ complete' = TRUE
  /\ run' = Append([run EXCEPT ![Len(run)].cancelled = TRUE,
                               ![Len(run)].at = IF @ = "streaming" THEN "over" ELSE @], NewRun(s))
  /\ UNCHANGED <<log, paused>>

\* The gateway reads the log, and answers.
Answer(r) ==
  /\ RunAt(r, "loading")
  /\ run' = [run EXCEPT ![r].at = "answered", ![r].tail = log[run[r].source]]
  /\ UNCHANGED <<log, source, lines, pending, timer, paused, complete>>

\* Mutant of Wanted: the answer is not ignored after the clean-up.
WantedAlways(r) == TRUE

Wanted(r) == ~run[r].cancelled

Load(r) ==
  /\ RunAt(r, "answered")
  /\ IF Wanted(r)
     THEN /\ lines' = Suffix(LinesOf(run[r].source, run[r].tail), MaxShownLines)
          /\ run' = [run EXCEPT ![r].at = "streaming"]
     ELSE run' = [run EXCEPT ![r].at = "over"] /\ UNCHANGED lines
  /\ UNCHANGED <<log, source, pending, timer, paused, complete>>

LoadFails(r) ==
  /\ run[r].at \in {"loading", "answered"} /\ run' = [run EXCEPT ![r].at = "over"]
  /\ UNCHANGED <<log, source, lines, pending, timer, paused, complete>>

\* onLine
ReceiveLine(r) ==
  /\ RunAt(r, "streaming") /\ run[r].read < log[run[r].source]
  /\ run' = [run EXCEPT ![r].read = @ + 1]
  /\ IF paused THEN complete' = FALSE /\ UNCHANGED <<pending, timer>>
     ELSE /\ pending' = Append(pending, [source |-> run[r].source, n |-> run'[r].read])
          /\ timer' = IF timer.named THEN timer ELSE [named |-> TRUE, due |-> TRUE]
          /\ UNCHANGED complete
  /\ UNCHANGED <<log, source, lines, paused>>

Flushed == lines' = Suffix(lines \o pending, MaxShownLines) /\ pending' = <<>>

Flush ==
  /\ timer.due /\ timer' = [named |-> FALSE, due |-> FALSE]
  /\ Flushed
  /\ UNCHANGED <<log, source, paused, run, complete>>

\* onStopped
StreamStops(r) ==
  /\ RunAt(r, "streaming") /\ run' = [run EXCEPT ![r].at = "over"]
  /\ Flushed
  /\ UNCHANGED <<log, source, timer, paused, complete>>

StreamFails(r) ==
  /\ RunAt(r, "streaming") /\ run' = [run EXCEPT ![r].at = "over"]
  /\ UNCHANGED <<log, source, lines, pending, timer, paused, complete>>

Pause ==
  /\ ~paused /\ paused' = TRUE
  /\ UNCHANGED <<log, source, lines, pending, timer, run, complete>>

\* What has not been shown yet is dropped, also what came before the pause.
Resume ==
  /\ paused /\ paused' = FALSE
  /\ pending' = <<>> /\ complete' = (complete /\ pending = <<>>)
  /\ UNCHANGED <<log, source, lines, timer, run>>

Writes(s) ==
  /\ log[s] < MaxWritten /\ log' = [log EXCEPT ![s] = @ + 1]
  /\ UNCHANGED <<source, lines, pending, timer, paused, run, complete>>

LogsNext ==
  \/ \E s \in Sources : Show(s) \/ Writes(s)
  \/ \E r \in DOMAIN run :
       \/ Answer(r) \/ Load(r) \/ LoadFails(r)
       \/ ReceiveLine(r) \/ StreamStops(r) \/ StreamFails(r)
  \/ Flush \/ Pause \/ Resume

LogsSpec == LogsInit /\ [][LogsNext]_logVars

-----------------------------------------------------------------------------
\* Whatever answers and streams of earlier sources are still under way, the panel shows, and is
\* about to show, what came for the current one, in that order: the tail that was fetched, then
\* what the stream has sent.  Only a pause drops lines, and only the length of the panel hides them.
LinesAreOfSource ==
  LET known == lines \o pending IN
  /\ \A i \in DOMAIN known : known[i].source = source
  /\ complete => LET came == LinesOf(source, Current.tail) \o LinesOf(source, Current.read) IN
       RunAt(Len(run), "streaming") => Suffix(known, MaxShownLines) = Suffix(came, MaxShownLines)

\* A line that has been received never waits without a timer that is going to show it.
NothingWaitsUnseen == pending # <<>> => timer.due
=============================================================================
