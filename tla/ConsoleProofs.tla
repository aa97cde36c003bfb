--------------------------- MODULE ConsoleProofs ---------------------------
(***************************************************************************)
(* Proofs about four parts of the web console that share no state: the     *)
(* sessions of the browser, for every set of callers and number of         *)
(* sessions, the log panel, for every set of sources, length and number of *)
(* runs of its effect, the notifications, for every set of namespaces,     *)
(* length of the list and number of changes, and the text before a         *)
(* session, for every edit and context of a diff.                          *)
(***************************************************************************)
EXTENDS SessionRefresh, ResourceLogs, NotificationFeed, UnifiedDiff,
        Recursion, FiniteSetTheorems, SequenceTheorems, TLAPS

-----------------------------------------------------------------------------
(* SessionRefresh.                                                          *)

\* No session is named before it is created.
KnownSessions ==
  /\ cookie <= created
  /\ revoked \subseteq Sessions
  /\ \A c \in Callers : call[c].sent <= created /\ call[c].made <= created

\* A session that an answer is to hand out is alive and known to nobody else yet: it is not
\* the cookie's, no request names it, and no other answer does.
Fresh(c) ==
  /\ call[c].made \in Sessions \ revoked
  /\ call[c].made # cookie
  /\ \A d \in Callers :
       /\ call[d].sent # call[c].made
       /\ At(d, "answered") /\ d # c => call[d].made # call[c].made

\* The inductive invariant.
SessionInv ==
  /\ SessionTypeOK
  /\ KnownSessions
  /\ \A c \in Callers : At(c, "answered") => Fresh(c)
  /\ \A c \in Callers : call[c].at \in {"leaving", "left"} => over
  /\ AlwaysRenewable

\* Every step preserves it.
LEMMA SessionInductive == SessionInv /\ [SessionNext]_sessionVars => SessionInv'
<1> SUFFICES ASSUME SessionInv, [SessionNext]_sessionVars PROVE SessionInv'
  OBVIOUS
<1> USE DEF SessionInv, SessionTypeOK, KnownSessions, Fresh, AlwaysRenewable, At, Step, Ends, Idle,
            Sessions, NoSession, Stages
<1>1. ASSUME NEW c \in Callers, Send(c) PROVE SessionInv'
  BY <1>1 DEF Send
<1>2. ASSUME NEW c \in Callers, Verify(c) PROVE SessionInv'
  BY <1>2 DEF Verify
<1>3. ASSUME NEW c \in Callers, Revoke(c) PROVE SessionInv'
  <2>1. revoked \subseteq revoked' /\ revoked' \subseteq revoked \cup ({call[c].sent} \ {0})
    BY <1>3 DEF Revoke, RevokedBy
  <2>2. SessionTypeOK'
    BY <1>3, <2>1 DEF Revoke
  <2>3. KnownSessions'
    BY <1>3, <2>1 DEF Revoke
  <2>4. ASSUME NEW b \in Callers, At(b, "answered")' PROVE Fresh(b)'
    BY <1>3, <2>1, <2>4 DEF Revoke
  <2>5. (\A b \in Callers : call[b].at \in {"leaving", "left"} => over)'
    BY <1>3 DEF Revoke
  <2>6. AlwaysRenewable'
    BY <1>3 DEF Revoke
  <2> QED
    BY <2>2, <2>3, <2>4, <2>5, <2>6
<1>4. ASSUME NEW c \in Callers, Create(c) PROVE SessionInv'
  BY <1>4 DEF Create
<1>5. ASSUME NEW c \in Callers, Renewed(c) PROVE SessionInv'
  BY <1>5 DEF Renewed
<1>6. ASSUME NEW c \in Callers, Refused(c) PROVE SessionInv'
  BY <1>6 DEF Refused
<1>7. ASSUME NEW c \in Callers, CutShort(c) PROVE SessionInv'
  BY <1>7 DEF CutShort
<1>8. ASSUME NEW c \in Callers, Logout(c) PROVE SessionInv'
  BY <1>8 DEF Logout
<1>9. ASSUME NEW c \in Callers, LogoutServed(c) PROVE SessionInv'
  <2>1. SessionTypeOK' /\ over
    BY <1>9 DEF LogoutServed, RevokedBy
  <2>2. KnownSessions'
    BY <1>9, <2>1 DEF LogoutServed, RevokedBy
  <2>3. ASSUME NEW b \in Callers, At(b, "answered")' PROVE Fresh(b)'
    BY <1>9, <2>3 DEF LogoutServed, RevokedBy
  <2>4. (\A b \in Callers : call[b].at \in {"leaving", "left"} => over)'
    BY <1>9 DEF LogoutServed
  <2>5. AlwaysRenewable'
    BY <1>9, <2>1 DEF LogoutServed
  <2> QED
    BY <2>1, <2>2, <2>3, <2>4, <2>5
<1>10. ASSUME NEW c \in Callers, LoggedOut(c) PROVE SessionInv'
  BY <1>10 DEF LoggedOut
<1>11. CASE Login
  BY <1>11 DEF Login
<1>12. CASE UNCHANGED sessionVars
  BY <1>12 DEF sessionVars
<1> QED
  BY <1>1, <1>2, <1>3, <1>4, <1>5, <1>6, <1>7, <1>8, <1>9, <1>10, <1>11, <1>12 DEF SessionNext

LEMMA SessionInvariant == SessionSpec => []SessionInv
<1>1. SessionInit => SessionInv
  <2> SUFFICES ASSUME SessionInit PROVE SessionInv
    OBVIOUS
  <2> USE DEF SessionInit, Idle, NoSession
  <2>1. SessionTypeOK
    BY DEF SessionTypeOK, Stages
  <2>2. KnownSessions
    BY DEF KnownSessions
  <2>3. \A c \in Callers : ~At(c, "answered") /\ call[c].at \notin {"leaving", "left"}
    BY DEF At
  <2>4. AlwaysRenewable
    BY DEF AlwaysRenewable, Sessions
  <2> QED
    BY <2>1, <2>2, <2>3, <2>4 DEF SessionInv
<1>2. QED
  BY <1>1, SessionInductive, PTL DEF SessionSpec

\* The variables keep their types.
THEOREM SessionTyped == SessionSpec => []SessionTypeOK
BY SessionInvariant, PTL DEF SessionInv

\* Any number of tabs that renew and sign in at once leave a cookie that can be renewed, or
\* one that is about to be set.
THEOREM SessionStaysRenewable == SessionSpec => []AlwaysRenewable
BY SessionInvariant, PTL DEF SessionInv

-----------------------------------------------------------------------------
(* ResourceLogs.                                                            *)

(* The last lines of a sequence.                                           *)

LEMMA SuffixProperties ==
  ASSUME NEW S, NEW s \in Seq(S), NEW m \in Nat
  PROVE  /\ Suffix(s, m) \in Seq(S)
         /\ Len(Suffix(s, m)) = IF Len(s) > m THEN m ELSE Len(s)
         /\ \A i \in 1 .. Len(Suffix(s, m)) : Suffix(s, m)[i] = s[Len(s) - Len(Suffix(s, m)) + i]
<1>0. Len(s) \in Nat
  BY LenProperties
<1>1. CASE Len(s) > m
  <2>1. \A i \in Len(s) - m + 1 .. Len(s) : s[i] \in S
    BY <1>0, <1>1, ElementOfSeq
  <2>2. /\ SubSeq(s, Len(s) - m + 1, Len(s)) \in Seq(S)
        /\ Len(SubSeq(s, Len(s) - m + 1, Len(s))) = m
        /\ \A i \in 1 .. m : SubSeq(s, Len(s) - m + 1, Len(s))[i] = s[Len(s) - m + i]
    BY <1>0, <1>1, <2>1, SubSeqProperties
  <2>3. QED
    BY <1>1, <2>2 DEF Suffix
<1>2. CASE ~(Len(s) > m)
  BY <1>0, <1>2 DEF Suffix
<1>3. QED
  BY <1>1, <1>2

LEMMA SuffixOfSuffix ==
  ASSUME NEW S, NEW s \in Seq(S), NEW m \in Nat
  PROVE  Suffix(Suffix(s, m), m) = Suffix(s, m)
<1>1. ~(Len(Suffix(s, m)) > m)
  BY SuffixProperties, LenProperties
<1>2. QED
  BY <1>1 DEF Suffix

\* Sequences that agree in their last lines go on to do so when the same line is appended.
LEMMA SuffixAppended ==
  ASSUME NEW S, NEW s \in Seq(S), NEW t \in Seq(S), NEW e \in S, NEW m \in Nat,
         Suffix(s, m) = Suffix(t, m)
  PROVE  Suffix(Append(s, e), m) = Suffix(Append(t, e), m)
<1> DEFINE k == Len(Suffix(s, m))
           l == IF k < m THEN k + 1 ELSE m
<1>0. k \in Nat /\ l \in Nat /\ l <= k + 1
  BY SuffixProperties, LenProperties
<1> HIDE DEF k, l
<1>1. ASSUME NEW u \in Seq(S), Suffix(u, m) = Suffix(s, m)
      PROVE  /\ Suffix(Append(u, e), m) \in Seq(S)
             /\ Len(Suffix(Append(u, e), m)) = l
             /\ \A i \in 1 .. l : Suffix(Append(u, e), m)[i] =
                                    IF i = l THEN e ELSE Suffix(s, m)[k - l + 1 + i]
  <2>1. /\ Append(u, e) \in Seq(S) /\ Len(Append(u, e)) = Len(u) + 1 /\ Len(u) \in Nat
        /\ \A i \in 1 .. Len(u) + 1 : Append(u, e)[i] = IF i = Len(u) + 1 THEN e ELSE u[i]
    BY LenProperties
  <2>2. /\ k = (IF Len(u) > m THEN m ELSE Len(u))
        /\ \A i \in 1 .. k : Suffix(s, m)[i] = u[Len(u) - k + i]
    <3>1. /\ Len(Suffix(u, m)) = IF Len(u) > m THEN m ELSE Len(u)
          /\ \A i \in 1 .. Len(Suffix(u, m)) : Suffix(u, m)[i] = u[Len(u) - Len(Suffix(u, m)) + i]
      BY SuffixProperties
    <3>2. k = Len(Suffix(u, m))
      BY <1>1 DEF k
    <3>3. QED
      BY <1>1, <3>1, <3>2, Zenon
  <2>3. /\ Suffix(Append(u, e), m) \in Seq(S)
        /\ Len(Suffix(Append(u, e), m)) = l
        /\ \A i \in 1 .. l : Suffix(Append(u, e), m)[i] = Append(u, e)[Len(u) + 1 - l + i]
    <3>1. PICK v \in Seq(S) : v = Append(u, e)
      BY <2>1
    <3>2. Len(v) = Len(u) + 1
      BY <2>1, <3>1
    <3>3. /\ Suffix(v, m) \in Seq(S)
          /\ Len(Suffix(v, m)) = IF Len(v) > m THEN m ELSE Len(v)
          /\ \A i \in 1 .. Len(Suffix(v, m)) : Suffix(v, m)[i] = v[Len(v) - Len(Suffix(v, m)) + i]
      BY SuffixProperties
    <3>4. l = IF Len(u) + 1 > m THEN m ELSE Len(u) + 1
      BY <2>1, <2>2 DEF l
    <3>5. Len(Suffix(v, m)) = l
      BY <3>2, <3>3, <3>4
    <3>6. ASSUME NEW i \in 1 .. l
          PROVE  Suffix(v, m)[i] = v[Len(u) + 1 - l + i]
      <4>1. Suffix(v, m)[i] = v[Len(v) - Len(Suffix(v, m)) + i]
        BY <3>3, <3>5
      <4>2. Len(v) - Len(Suffix(v, m)) + i = Len(u) + 1 - l + i
        BY <3>2, <3>5
      <4>3. QED
        BY <4>1, <4>2, Zenon
    <3>7. QED
      BY <3>1, <3>3, <3>5, <3>6
  <2>4. ASSUME NEW i \in 1 .. l
        PROVE  Suffix(Append(u, e), m)[i] = IF i = l THEN e ELSE Suffix(s, m)[k - l + 1 + i]
    <3>1. k \in Nat /\ l \in Nat /\ k <= Len(u) /\ l <= Len(u) + 1 /\ l <= k + 1
      BY <1>0, <2>1, <2>2
    <3>2. Suffix(Append(u, e), m)[i] = Append(u, e)[Len(u) + 1 - l + i]
      BY <2>3
    <3>3. CASE i = l
      BY <2>1, <3>1, <3>2, <3>3
    <3>4. CASE i # l
      <4>1. Len(u) + 1 - l + i \in 1 .. Len(u) /\ k - l + 1 + i \in 1 .. k
        BY <2>1, <3>1, <3>4, SMTT(40)
      <4>2. Append(u, e)[Len(u) + 1 - l + i] = u[Len(u) + 1 - l + i]
        BY <2>1, <4>1
      <4>3. Suffix(s, m)[k - l + 1 + i] = u[Len(u) - k + (k - l + 1 + i)]
        BY <2>2, <4>1
      <4>4. Len(u) - k + (k - l + 1 + i) = Len(u) + 1 - l + i
        BY <2>1, <3>1
      <4>5. QED
        BY <3>2, <3>4, <4>2, <4>3, <4>4
    <3>5. QED
      BY <3>3, <3>4
  <2>5. QED
    BY <2>3, <2>4
<1>2. QED
  BY <1>1, SeqEqual

-----------------------------------------------------------------------------
(* The inductive invariant.                                                *)

LineType == [source : Sources, n : Nat]
RunType ==
  [ source : Sources, at : {"loading", "answered", "streaming", "over"},
    tail : Nat, read : Nat, cancelled : BOOLEAN ]

LogsTyped ==
  /\ log \in [Sources -> Nat] /\ source \in Sources
  /\ lines \in Seq(LineType) /\ pending \in Seq(LineType)
  /\ timer \in [named : BOOLEAN, due : BOOLEAN]
  /\ paused \in BOOLEAN /\ complete \in BOOLEAN
  /\ run \in Seq(RunType) /\ Len(run) >= 1

\* Runs that are over are cancelled and read no stream; the current one shows the source.
RunsTidy ==
  /\ \A r \in 1 .. Len(run) - 1 : run[r].cancelled /\ run[r].at # "streaming"
  /\ Current.source = source /\ ~Current.cancelled

\* Until the tail has been loaded nothing is shown or received.
LoadsFirst ==
  Current.at \in {"loading", "answered"} => Current.read = 0 /\ lines = <<>> /\ pending = <<>>

OfSource ==
  /\ \A i \in DOMAIN lines : lines[i].source = source
  /\ \A i \in DOMAIN pending : pending[i].source = source

\* What came for the current run.
Came == LinesOf(source, Current.tail) \o LinesOf(source, Current.read)

ShowsWhatCame ==
  complete /\ Current.at = "streaming" =>
    Suffix(lines \o pending, MaxShownLines) = Suffix(Came, MaxShownLines)

TimerRuns ==
  /\ timer.named => timer.due
  /\ pending # <<>> => timer.due

LogsInv == LogsTyped /\ RunsTidy /\ LoadsFirst /\ OfSource /\ ShowsWhatCame /\ TimerRuns

-----------------------------------------------------------------------------

LEMMA LinesTyped ==
  ASSUME NEW s \in Sources, NEW n \in Nat
  PROVE  /\ LinesOf(s, n) \in Seq(LineType)
         /\ [source |-> s, n |-> n + 1] \in LineType
         /\ LinesOf(s, n + 1) = Append(LinesOf(s, n), [source |-> s, n |-> n + 1])
<1>1. ASSUME NEW m \in Nat
      PROVE  /\ LinesOf(s, m) \in Seq(LineType) /\ Len(LinesOf(s, m)) = m
             /\ \A i \in 1 .. m : LinesOf(s, m)[i] = [source |-> s, n |-> i]
  <2>1. LinesOf(s, m) \in [1 .. m -> LineType]
    BY DEF LinesOf, LineType
  <2>2. LinesOf(s, m) \in Seq(LineType)
    BY <2>1, SeqDef
  <2>3. QED
    BY <2>1, <2>2, LenProperties DEF LinesOf
<1>2. [source |-> s, n |-> n + 1] \in LineType
  BY DEF LineType
<1>3. PICK u : u = Append(LinesOf(s, n), [source |-> s, n |-> n + 1])
  OBVIOUS
<1>4. ASSUME NEW w \in Seq(LineType), NEW e \in LineType, Len(w) = n
      PROVE  /\ Append(w, e) \in Seq(LineType) /\ Len(Append(w, e)) = n + 1
             /\ \A i \in 1 .. n + 1 : Append(w, e)[i] = IF i = n + 1 THEN e ELSE w[i]
  BY <1>4, LenProperties
<1>5. /\ u \in Seq(LineType) /\ Len(u) = n + 1
      /\ \A i \in 1 .. n + 1 : u[i] = IF i = n + 1 THEN [source |-> s, n |-> n + 1] ELSE LinesOf(s, n)[i]
  BY <1>1, <1>2, <1>3, <1>4
<1>6. /\ u \in Seq(LineType) /\ Len(u) = n + 1
      /\ \A i \in 1 .. n + 1 : u[i] = [source |-> s, n |-> i]
  <2>1. ASSUME NEW i \in 1 .. n + 1
        PROVE  u[i] = [source |-> s, n |-> i]
    <3>1. CASE i = n + 1
      BY <1>5, <3>1
    <3>2. CASE i # n + 1
      <4>1. i \in 1 .. n
        BY <3>2
      <4>2. u[i] = LinesOf(s, n)[i]
        BY <1>5, <3>2
      <4>3. QED
        BY <1>1, <4>1, <4>2
    <3>3. QED
      BY <3>1, <3>2
  <2>2. QED
    BY <1>5, <2>1
<1>7. LinesOf(s, n + 1) = u
  <2>1. /\ LinesOf(s, n + 1) \in Seq(LineType) /\ Len(LinesOf(s, n + 1)) = n + 1
        /\ \A i \in 1 .. n + 1 : LinesOf(s, n + 1)[i] = [source |-> s, n |-> i]
    BY <1>1, SMTT(40)
  <2>2. QED
    BY <1>6, <2>1, SeqEqual
<1>8. QED
  BY <1>1, <1>2, <1>3, <1>7

LEMMA ConcatAppend ==
  ASSUME NEW S, NEW s \in Seq(S), NEW t \in Seq(S), NEW e \in S
  PROVE  s \o Append(t, e) = Append(s \o t, e) /\ s \o t \in Seq(S)
<1>1. s \o t \in Seq(S) /\ Append(t, e) = t \o <<e>> /\ <<e>> \in Seq(S)
  BY ConcatProperties
<1>2. (s \o t) \o <<e>> = s \o (t \o <<e>>)
  BY <1>1, ConcatAssociative
<1>3. Append(s \o t, e) = (s \o t) \o <<e>>
  BY <1>1
<1>4. QED
  BY <1>1, <1>2, <1>3

LEMMA LogsInvInit == LogsInit => LogsInv
<1> SUFFICES ASSUME LogsInit PROVE LogsInv
  OBVIOUS
<1>1. NewRun(source) \in RunType /\ source \in Sources
  BY DEF LogsInit, NewRun, RunType
<1>2. run \in Seq(RunType) /\ Len(run) = 1 /\ Current = NewRun(source)
  BY <1>1 DEF LogsInit, Current
<1>3. LogsTyped
  <2>1. lines \in Seq(LineType) /\ pending \in Seq(LineType)
    BY EmptySeq DEF LogsInit
  <2>2. log \in [Sources -> Nat] /\ timer \in [named : BOOLEAN, due : BOOLEAN]
        /\ paused \in BOOLEAN /\ complete \in BOOLEAN
    BY DEF LogsInit
  <2>3. QED
    BY <1>1, <1>2, <2>1, <2>2 DEF LogsTyped
<1>4. RunsTidy /\ LoadsFirst /\ OfSource /\ ShowsWhatCame /\ TimerRuns
  BY <1>2 DEF LogsInit, RunsTidy, LoadsFirst, OfSource, ShowsWhatCame, TimerRuns, NewRun
<1>5. QED
  BY <1>3, <1>4 DEF LogsInv

\* Steps that concern one run of the effect and leave it in the sequence.
LEMMA RunMoves ==
  ASSUME LogsTyped, NEW r \in DOMAIN run, NEW new \in RunType, run' = [run EXCEPT ![r] = new]
  PROVE  /\ run' \in Seq(RunType) /\ Len(run') = Len(run) /\ Len(run) \in 1 .. Len(run)
         /\ \A q \in 1 .. Len(run) : run'[q] = IF q = r THEN new ELSE run[q]
         /\ Current' = IF r = Len(run) THEN new ELSE Current
         /\ r \in 1 .. Len(run)
<1>1. Len(run) \in Nat /\ r \in 1 .. Len(run) /\ Len(run) \in 1 .. Len(run)
  BY LenProperties DEF LogsTyped
<1>2. /\ run' \in Seq(RunType) /\ Len(run') = Len(run)
      /\ \A q \in 1 .. Len(run) : run'[q] = IF q = r THEN new ELSE run[q]
  BY <1>1, ExceptSeq DEF LogsTyped
<1>3. QED
  BY <1>1, <1>2 DEF Current

\* An earlier run of the effect ends or is answered, and touches nothing else.
LEMMA EarlierRuns ==
  ASSUME LogsInv, NEW r \in DOMAIN run, r # Len(run), NEW new \in RunType, run' = [run EXCEPT ![r] = new],
         new.cancelled, new.at # "streaming",
         UNCHANGED <<source, lines, pending, timer, complete, log, paused>>
  PROVE  LogsInv'
<1>1. /\ run' \in Seq(RunType) /\ Len(run') = Len(run) /\ Current' = Current
      /\ \A q \in 1 .. Len(run) : run'[q] = IF q = r THEN new ELSE run[q]
  BY RunMoves DEF LogsInv
<1>2. LogsTyped'
  BY <1>1 DEF LogsInv, LogsTyped
<1>3. RunsTidy'
  <2>1. Len(run) \in Nat
    BY LenProperties DEF LogsInv, LogsTyped
  <2>2. QED
    BY <1>1, <2>1 DEF LogsInv, RunsTidy
<1>4. LoadsFirst' /\ OfSource' /\ TimerRuns' /\ ShowsWhatCame'
  BY <1>1 DEF LogsInv, LoadsFirst, OfSource, TimerRuns, ShowsWhatCame, Came
<1>5. QED
  BY <1>2, <1>3, <1>4 DEF LogsInv

\* The current run goes on.
LEMMA CurrentRun ==
  ASSUME LogsInv, NEW new \in RunType, run' = [run EXCEPT ![Len(run)] = new],
         new.source = source, ~new.cancelled, source' = source
  PROVE  RunsTidy' /\ run' \in Seq(RunType) /\ Len(run') = Len(run) /\ Current' = new
<1>1. Len(run) \in DOMAIN run /\ Len(run) \in Nat
  BY LenProperties DEF LogsInv, LogsTyped
<1>2. /\ run' \in Seq(RunType) /\ Len(run') = Len(run) /\ Current' = new
      /\ \A q \in 1 .. Len(run) : run'[q] = IF q = Len(run) THEN new ELSE run[q]
  BY <1>1, RunMoves DEF LogsInv
<1>3. RunsTidy'
  <2>1. ASSUME NEW q \in 1 .. Len(run) - 1
        PROVE  run'[q] = run[q]
    <3>1. q \in 1 .. Len(run) /\ q # Len(run)
      BY <1>1
    <3>2. QED
      BY <1>2, <3>1
  <2>2. QED
    BY <1>1, <1>2, <2>1, ZenonT(60) DEF LogsInv, RunsTidy
<1>4. QED
  BY <1>2, <1>3

LEMMA ShowTidies ==
  ASSUME LogsInv, NEW s \in Sources, Show(s)
  PROVE  LogsInv'
<1> DEFINE n == Len(run)
           old == [Current EXCEPT !.cancelled = TRUE, !.at = IF @ = "streaming" THEN "over" ELSE @]
<1>1. n \in Nat /\ n \in DOMAIN run /\ Current \in RunType /\ run \in Seq(RunType)
  BY LenProperties, ElementOfSeq DEF LogsInv, LogsTyped, Current
<1>2. old \in RunType /\ old.cancelled /\ old.at # "streaming"
  BY <1>1 DEF RunType
<1>3. NewRun(s) \in RunType
  BY DEF NewRun, RunType
<1>4. PICK past : past = [run EXCEPT ![n].cancelled = TRUE, ![n].at = IF @ = "streaming" THEN "over" ELSE @]
  OBVIOUS
<1>5. past = [run EXCEPT ![n] = old]
  BY <1>1, <1>4 DEF Current
<1>6. /\ past \in Seq(RunType) /\ Len(past) = n
      /\ \A q \in 1 .. n : past[q] = IF q = n THEN old ELSE run[q]
  BY <1>1, <1>2, <1>5, ExceptSeq, LenProperties
<1>7. run' = Append(past, NewRun(s))
  BY <1>4 DEF Show
<1>8. /\ run' \in Seq(RunType) /\ Len(run') = n + 1 /\ Current' = NewRun(s)
      /\ \A q \in 1 .. n : run'[q] = past[q]
  BY <1>1, <1>3, <1>6, <1>7, LenProperties DEF Current
<1>9. RunsTidy'
  <2>1. ASSUME NEW q \in 1 .. n
        PROVE  run'[q].cancelled /\ run'[q].at # "streaming"
    <3>1. run'[q] = IF q = n THEN old ELSE run[q]
      BY <1>6, <1>8
    <3>2. CASE q = n
      BY <1>2, <3>1, <3>2
    <3>3. CASE q # n
      <4>1. q \in 1 .. n - 1
        BY <1>1, <3>3
      <4>2. QED
        BY <3>1, <3>3, <4>1 DEF LogsInv, RunsTidy
    <3>4. QED
      BY <3>2, <3>3
  <2>2. Current'.source = s /\ ~Current'.cancelled
    BY <1>8 DEF NewRun
  <2>3. source' = s
    BY DEF Show
  <2>4. QED
    BY <1>1, <1>8, <2>1, <2>2, <2>3 DEF RunsTidy
<1>10. LogsTyped'
  <2>1. lines' \in Seq(LineType) /\ pending' \in Seq(LineType)
    BY EmptySeq DEF Show
  <2>2. timer' \in [named : BOOLEAN, due : BOOLEAN] /\ complete' \in BOOLEAN
    BY DEF Show, TimerCleared
  <2>3. UNCHANGED <<log, paused>> /\ source' = s
    BY DEF Show
  <2>4. QED
    BY <1>1, <1>8, <2>1, <2>2, <2>3 DEF LogsInv, LogsTyped
<1>11. LoadsFirst' /\ OfSource' /\ TimerRuns' /\ ShowsWhatCame'
  BY <1>8 DEF Show, LoadsFirst, OfSource, TimerRuns, ShowsWhatCame, NewRun, TimerCleared
<1>12. QED
  BY <1>9, <1>10, <1>11 DEF LogsInv

\* The gateway answers a run, or the run ends without having loaded anything.
LEMMA AnswerTidies ==
  ASSUME LogsInv, NEW r \in DOMAIN run, Answer(r) \/ LoadFails(r)
  PROVE  LogsInv'
<1>1. /\ run \in Seq(RunType) /\ r \in 1 .. Len(run) /\ run[r] \in RunType /\ log \in [Sources -> Nat]
      /\ run[r].source \in Sources
  <2>1. run \in Seq(RunType) /\ log \in [Sources -> Nat]
    BY DEF LogsInv, LogsTyped
  <2>2. r \in 1 .. Len(run)
    BY <2>1, LenProperties
  <2>3. run[r] \in RunType
    BY <2>1, <2>2, ElementOfSeq
  <2>4. QED
    BY <2>1, <2>2, <2>3 DEF RunType
<1>2. PICK new \in RunType :
        /\ run' = [run EXCEPT ![r] = new]
        /\ new.source = run[r].source /\ new.cancelled = run[r].cancelled /\ new.read = run[r].read
        /\ new.at \in {"answered", "over"}
  <2>1. CASE Answer(r)
    <3>1. run' = [run EXCEPT ![r] = [run[r] EXCEPT !.at = "answered", !.tail = log[run[r].source]]]
      BY <1>1, <2>1 DEF Answer
    <3>2. [run[r] EXCEPT !.at = "answered", !.tail = log[run[r].source]] \in RunType
      BY <1>1 DEF RunType
    <3>3. QED
      BY <1>1, <3>1, <3>2 DEF RunType
  <2>2. CASE LoadFails(r)
    <3>1. run' = [run EXCEPT ![r] = [run[r] EXCEPT !.at = "over"]]
      BY <1>1, <2>2 DEF LoadFails
    <3>2. [run[r] EXCEPT !.at = "over"] \in RunType
      BY <1>1 DEF RunType
    <3>3. QED
      BY <1>1, <3>1, <3>2 DEF RunType
  <2>3. QED
    BY <2>1, <2>2
<1>3. UNCHANGED <<log, source, lines, pending, timer, paused, complete>>
      /\ run[r].at \in {"loading", "answered"}
  BY DEF Answer, LoadFails, RunAt
<1>4. CASE r # Len(run)
  <2>1. new.cancelled /\ new.at # "streaming"
    BY <1>1, <1>2, <1>4 DEF LogsInv, RunsTidy
  <2>2. QED
    BY <1>2, <1>3, <1>4, <2>1, EarlierRuns
<1>5. CASE r = Len(run)
  <2>1. Current = run[r] /\ new.source = source /\ ~new.cancelled
    BY <1>2, <1>5 DEF LogsInv, RunsTidy, Current
  <2>2. RunsTidy' /\ run' \in Seq(RunType) /\ Len(run') = Len(run) /\ Current' = new
    BY <1>2, <1>3, <1>5, <2>1, CurrentRun
  <2>3. LogsTyped'
    BY <1>3, <2>2 DEF LogsInv, LogsTyped
  <2>4. LoadsFirst' /\ OfSource' /\ TimerRuns' /\ ShowsWhatCame'
    BY <1>2, <1>3, <2>1, <2>2 DEF LogsInv, LoadsFirst, OfSource, TimerRuns, ShowsWhatCame
  <2>5. QED
    BY <2>2, <2>3, <2>4 DEF LogsInv
<1>6. QED
  BY <1>4, <1>5

\* The lines of a panel that has been filled up are of the source if those added are.
LEMMA SuffixOfSource ==
  ASSUME NEW s \in Seq(LineType), \A i \in DOMAIN s : s[i].source = source
  PROVE  /\ Suffix(s, MaxShownLines) \in Seq(LineType)
         /\ \A i \in DOMAIN Suffix(s, MaxShownLines) : Suffix(s, MaxShownLines)[i].source = source
<1>0. Len(s) \in Nat /\ DOMAIN s = 1 .. Len(s) /\ MaxShownLines \in Nat
  BY LenProperties, ShownLinesAssumption
<1>1. PICK u \in Seq(LineType) :
        /\ u = Suffix(s, MaxShownLines) /\ Len(u) <= Len(s) /\ Len(u) \in Nat
        /\ \A i \in 1 .. Len(u) : u[i] = s[Len(s) - Len(u) + i]
  BY <1>0, SuffixProperties
<1>2. ASSUME NEW i \in 1 .. Len(u)
      PROVE  u[i].source = source
  <2>1. Len(s) - Len(u) + i \in 1 .. Len(s)
    BY <1>0, <1>1
  <2>2. QED
    BY <1>0, <1>1, <2>1
<1>3. DOMAIN u = 1 .. Len(u)
  BY LenProperties
<1>4. QED
  BY <1>1, <1>2, <1>3

\* Everything that the panel knows is of its source.
LEMMA KnownOfSource ==
  ASSUME LogsInv, NEW i \in DOMAIN (lines \o pending)
  PROVE  (lines \o pending)[i].source = source
<1>1. PICK known \in Seq(LineType) : known = lines \o pending
  BY ConcatProperties DEF LogsInv, LogsTyped
<1>2. /\ lines \in Seq(LineType) /\ pending \in Seq(LineType)
      /\ Len(lines) \in Nat /\ Len(pending) \in Nat
      /\ DOMAIN lines = 1 .. Len(lines) /\ DOMAIN pending = 1 .. Len(pending)
      /\ DOMAIN known = 1 .. Len(known)
  BY LenProperties DEF LogsInv, LogsTyped
<1>3. /\ i \in 1 .. Len(lines) + Len(pending)
      /\ known[i] = IF i <= Len(lines) THEN lines[i] ELSE pending[i - Len(lines)]
  BY <1>1, <1>2, ConcatProperties
<1>4. CASE i <= Len(lines)
  <2>1. i \in DOMAIN lines
    BY <1>2, <1>3, <1>4
  <2>2. QED
    BY <1>3, <1>4, <2>1 DEF LogsInv, OfSource
<1>5. CASE ~(i <= Len(lines))
  <2>1. i - Len(lines) \in DOMAIN pending
    BY <1>2, <1>3, <1>5
  <2>2. QED
    BY <1>3, <1>5, <2>1 DEF LogsInv, OfSource
<1>6. QED
  BY <1>4, <1>5

\* What flush shows of what is known.
LEMMA FlushShows ==
  ASSUME LogsInv, Flushed
  PROVE  /\ lines' \in Seq(LineType) /\ pending' = <<>>
         /\ \A i \in DOMAIN lines' : lines'[i].source = source
         /\ lines' \o pending' = Suffix(lines \o pending, MaxShownLines)
<1>1. PICK known \in Seq(LineType) : known = lines \o pending
  BY ConcatProperties DEF LogsInv, LogsTyped
<1>2. \A i \in DOMAIN known : known[i].source = source
  BY <1>1, KnownOfSource
<1>3. lines' = Suffix(known, MaxShownLines) /\ pending' = <<>>
  BY <1>1 DEF Flushed
<1>4. lines' \in Seq(LineType) /\ \A i \in DOMAIN lines' : lines'[i].source = source
  BY <1>2, <1>3, SuffixOfSource
<1>5. lines' \o pending' = lines'
  BY <1>3, <1>4, ConcatEmptySeq
<1>6. QED
  BY <1>1, <1>3, <1>4, <1>5

LEMMA FlushTidies ==
  ASSUME LogsInv, Flush
  PROVE  LogsInv'
<1>1. /\ lines' \in Seq(LineType) /\ pending' = <<>>
      /\ \A i \in DOMAIN lines' : lines'[i].source = source
      /\ lines' \o pending' = Suffix(lines \o pending, MaxShownLines)
      /\ timer' = [named |-> FALSE, due |-> FALSE] /\ UNCHANGED <<log, source, paused, run, complete>>
  BY FlushShows DEF Flush
<1>2. lines \o pending \in Seq(LineType)
  BY ConcatProperties DEF LogsInv, LogsTyped
<1>3. LogsTyped'
  BY <1>1, EmptySeq DEF LogsInv, LogsTyped
<1>4. RunsTidy'
  BY <1>1 DEF LogsInv, RunsTidy, Current
<1>5. LoadsFirst'
  <2>1. ASSUME Current.at \in {"loading", "answered"}
        PROVE  Current.read = 0 /\ lines' = <<>>
    <3>1. lines = <<>> /\ pending = <<>> /\ Current.read = 0
      BY <2>1 DEF LogsInv, LoadsFirst
    <3>2. lines \o pending = <<>>
      BY <3>1, ConcatEmptySeq, EmptySeq
    <3>3. Len(<<>>) = 0 /\ ~(0 > MaxShownLines)
      BY ShownLinesAssumption
    <3>4. Suffix(<<>>, MaxShownLines) = <<>>
      BY <3>3 DEF Suffix
    <3>5. QED
      BY <3>1, <3>2, <3>4 DEF Flush, Flushed
  <2>2. QED
    BY <1>1, <2>1 DEF LoadsFirst, Current
<1>6. OfSource'
  <2>1. DOMAIN pending' = {}
    BY <1>1
  <2>2. QED
    BY <1>1, <2>1 DEF OfSource
<1>7. ShowsWhatCame'
  <2>1. Suffix(lines' \o pending', MaxShownLines) = Suffix(lines \o pending, MaxShownLines)
    BY <1>1, <1>2, SuffixOfSuffix, ShownLinesAssumption
  <2>2. QED
    BY <1>1, <2>1 DEF LogsInv, ShowsWhatCame, Came, Current
<1>8. TimerRuns'
  BY <1>1 DEF TimerRuns
<1>9. QED
  BY <1>3, <1>4, <1>5, <1>6, <1>7, <1>8 DEF LogsInv

\* A stream that goes on is that of the current run.
LEMMA StreamingIsCurrent ==
  ASSUME LogsInv, NEW r \in DOMAIN run, RunAt(r, "streaming")
  PROVE  /\ r = Len(run) /\ run[r] = Current /\ Current \in RunType
         /\ Current.source = source /\ ~Current.cancelled /\ Current.at = "streaming"
<1>1. run \in Seq(RunType)
  BY DEF LogsInv, LogsTyped
<1>2. r \in 1 .. Len(run) /\ Len(run) \in Nat /\ run[r] \in RunType
  BY <1>1, LenProperties, ElementOfSeq
<1>3. r = Len(run)
  <2>1. ~(r \in 1 .. Len(run) - 1)
    BY DEF LogsInv, RunsTidy, RunAt
  <2>2. QED
    BY <1>2, <2>1
<1>4. QED
  BY <1>2, <1>3 DEF LogsInv, RunsTidy, Current, RunAt

\* A tail that is still wanted is all that is known.
LEMMA LoadTidies ==
  ASSUME LogsInv, NEW r \in DOMAIN run, Load(r)
  PROVE  LogsInv'
<1>1. /\ run \in Seq(RunType) /\ r \in 1 .. Len(run) /\ run[r] \in RunType /\ run[r].at = "answered"
      /\ UNCHANGED <<log, source, pending, timer, paused, complete>>
  <2>1. run \in Seq(RunType)
    BY DEF LogsInv, LogsTyped
  <2>2. r \in 1 .. Len(run)
    BY <2>1, LenProperties
  <2>3. QED
    BY <2>1, <2>2, ElementOfSeq DEF Load, RunAt
<1>2. ASSUME NEW stage \in {"streaming", "over"}, run' = [run EXCEPT ![r].at = stage]
      PROVE  \E new \in RunType :
               /\ run' = [run EXCEPT ![r] = new] /\ new = [run[r] EXCEPT !.at = stage]
               /\ new.at = stage /\ new.source = run[r].source /\ new.cancelled = run[r].cancelled
               /\ new.tail = run[r].tail /\ new.read = run[r].read
  <2>1. run' = [run EXCEPT ![r] = [run[r] EXCEPT !.at = stage]]
    BY <1>1, <1>2
  <2>2. [run[r] EXCEPT !.at = stage] \in RunType
    BY <1>1 DEF RunType
  <2>3. QED
    BY <1>1, <2>1, <2>2 DEF RunType
<1>3. CASE r # Len(run)
  <2>1. run[r].cancelled
    BY <1>1, <1>3 DEF LogsInv, RunsTidy
  <2>2. run' = [run EXCEPT ![r].at = "over"] /\ UNCHANGED lines
    BY <2>1 DEF Load, Wanted
  <2>3. PICK new \in RunType : run' = [run EXCEPT ![r] = new] /\ new.at = "over" /\ new.cancelled
    BY <1>2, <2>1, <2>2
  <2>4. QED
    BY <1>1, <1>3, <2>2, <2>3, EarlierRuns
<1>4. CASE r = Len(run)
  <2>1. /\ run[r] = Current /\ Current.source = source /\ ~Current.cancelled /\ Current.read = 0
        /\ pending = <<>>
    BY <1>1, <1>4 DEF LogsInv, RunsTidy, LoadsFirst, Current
  <2>2. /\ lines' = Suffix(LinesOf(source, Current.tail), MaxShownLines)
        /\ run' = [run EXCEPT ![r].at = "streaming"]
    BY <2>1 DEF Load, Wanted
  <2>3. PICK new \in RunType :
          /\ run' = [run EXCEPT ![r] = new] /\ new.at = "streaming" /\ new.source = source
          /\ ~new.cancelled /\ new.tail = Current.tail /\ new.read = 0
    BY <1>2, <2>1, <2>2
  <2>4. RunsTidy' /\ run' \in Seq(RunType) /\ Len(run') = Len(run) /\ Current' = new
    BY <1>1, <1>4, <2>3, CurrentRun
  <2>5. PICK tail \in Seq(LineType) :
          /\ tail = LinesOf(source, Current.tail)
          /\ \A i \in DOMAIN tail : tail[i].source = source
    <3>1. Current.tail \in Nat /\ source \in Sources
      BY <1>1, <2>1 DEF LogsInv, LogsTyped, RunType
    <3>2. LinesOf(source, Current.tail) \in Seq(LineType)
      BY <3>1, LinesTyped
    <3>3. QED
      BY <3>2 DEF LinesOf
  <2>6. lines' \in Seq(LineType) /\ \A i \in DOMAIN lines' : lines'[i].source = source
    BY <2>2, <2>5, SuffixOfSource
  <2>7. LogsTyped'
    BY <1>1, <2>4, <2>6 DEF LogsInv, LogsTyped
  <2>8. LoadsFirst' /\ OfSource' /\ TimerRuns'
    BY <1>1, <2>1, <2>3, <2>4, <2>6 DEF LogsInv, LoadsFirst, OfSource, TimerRuns
  <2>9. ShowsWhatCame'
    <3>1. LinesOf(source, 0) = <<>>
      BY DEF LinesOf
    <3>2. Came' = tail
      BY <1>1, <2>3, <2>4, <2>5, <3>1, ConcatEmptySeq DEF Came
    <3>3. lines' \o pending' = Suffix(tail, MaxShownLines)
      BY <1>1, <2>1, <2>2, <2>5, <2>6, ConcatEmptySeq
    <3>4. Suffix(Suffix(tail, MaxShownLines), MaxShownLines) = Suffix(tail, MaxShownLines)
      BY SuffixOfSuffix, ShownLinesAssumption
    <3>5. QED
      BY <3>2, <3>3, <3>4 DEF ShowsWhatCame
  <2>10. QED
    BY <2>4, <2>7, <2>8, <2>9 DEF LogsInv
<1>5. QED
  BY <1>3, <1>4

\* A line that is received is the next that came, and the next that is known, or is dropped.
LEMMA ReceiveTidies ==
  ASSUME LogsInv, NEW r \in DOMAIN run, ReceiveLine(r)
  PROVE  LogsInv'
<1>1. /\ r = Len(run) /\ run[r] = Current /\ Current \in RunType
      /\ Current.source = source /\ ~Current.cancelled /\ Current.at = "streaming"
      /\ Current.tail \in Nat /\ Current.read \in Nat /\ source \in Sources
  BY StreamingIsCurrent DEF ReceiveLine, RunType, LogsInv, LogsTyped
<1>2. UNCHANGED <<log, source, lines, paused>>
  BY DEF ReceiveLine
<1>3. PICK new \in RunType :
        /\ run' = [run EXCEPT ![r] = new] /\ new.at = "streaming" /\ new.source = source
        /\ ~new.cancelled /\ new.tail = Current.tail /\ new.read = Current.read + 1
  <2>1. run' = [run EXCEPT ![r] = [Current EXCEPT !.read = @ + 1]]
    BY <1>1 DEF ReceiveLine
  <2>2. [Current EXCEPT !.read = @ + 1] \in RunType
    BY <1>1 DEF RunType
  <2>3. QED
    BY <1>1, <2>1, <2>2 DEF RunType
<1>4. /\ RunsTidy' /\ run' \in Seq(RunType) /\ Len(run') = Len(run) /\ Current' = new
      /\ run'[r].read = Current.read + 1
  <2>1. RunsTidy' /\ run' \in Seq(RunType) /\ Len(run') = Len(run) /\ Current' = new
    BY <1>1, <1>2, <1>3, CurrentRun
  <2>2. QED
    BY <1>1, <1>3, <2>1 DEF Current
<1>5. LoadsFirst'
  BY <1>3, <1>4 DEF LoadsFirst
<1>6. CASE paused
  <2>1. complete' = FALSE /\ UNCHANGED <<pending, timer>>
    BY <1>6 DEF ReceiveLine
  <2>2. LogsTyped'
    BY <1>2, <1>4, <2>1 DEF LogsInv, LogsTyped
  <2>3. OfSource' /\ TimerRuns' /\ ShowsWhatCame'
    BY <1>2, <2>1 DEF LogsInv, OfSource, TimerRuns, ShowsWhatCame
  <2>4. QED
    BY <1>4, <1>5, <2>2, <2>3 DEF LogsInv
<1>7. CASE ~paused
  <2> DEFINE l == [source |-> source, n |-> Current.read + 1]
  <2>1. /\ pending' = Append(pending, l) /\ complete' = complete
        /\ timer' = IF timer.named THEN timer ELSE [named |-> TRUE, due |-> TRUE]
    BY <1>1, <1>4, <1>7 DEF ReceiveLine
  <2>2. /\ l \in LineType /\ LinesOf(source, Current.read) \in Seq(LineType)
        /\ LinesOf(source, Current.tail) \in Seq(LineType)
        /\ LinesOf(source, Current.read + 1) = Append(LinesOf(source, Current.read), l)
    BY <1>1, LinesTyped
  <2>3. lines \in Seq(LineType) /\ pending \in Seq(LineType)
    BY DEF LogsInv, LogsTyped
  <2>4. pending' \in Seq(LineType) /\ \A i \in DOMAIN pending' : pending'[i].source = source
    <3>1. /\ pending' \in Seq(LineType) /\ Len(pending') = Len(pending) + 1 /\ Len(pending) \in Nat
          /\ \A i \in 1 .. Len(pending) + 1 : pending'[i] = IF i = Len(pending) + 1 THEN l ELSE pending[i]
      BY <2>1, <2>2, <2>3, LenProperties, SMTT(40)
    <3>2. ASSUME NEW i \in 1 .. Len(pending) + 1
          PROVE  pending'[i].source = source
      <4>1. CASE i = Len(pending) + 1
        BY <3>1, <4>1
      <4>2. CASE i # Len(pending) + 1
        <5>1. i \in DOMAIN pending
          BY <2>3, <3>1, <4>2, LenProperties
        <5>2. QED
          BY <3>1, <4>2, <5>1 DEF LogsInv, OfSource
      <4>3. QED
        BY <4>1, <4>2
    <3>3. DOMAIN pending' = 1 .. Len(pending) + 1
      BY <3>1, LenProperties
    <3>4. QED
      BY <3>1, <3>2, <3>3
  <2>5. LogsTyped'
    BY <1>2, <1>4, <2>1, <2>4 DEF LogsInv, LogsTyped
  <2>6. OfSource' /\ TimerRuns'
    BY <1>2, <2>1, <2>4 DEF LogsInv, OfSource, TimerRuns
  <2>7. ShowsWhatCame'
    <3>1. SUFFICES ASSUME complete
                   PROVE  Suffix(lines \o pending', MaxShownLines) = Suffix(Came', MaxShownLines)
      BY <1>2, <2>1 DEF ShowsWhatCame
    <3>2. Suffix(lines \o pending, MaxShownLines) = Suffix(Came, MaxShownLines)
      BY <1>1, <3>1 DEF LogsInv, ShowsWhatCame
    <3>3. lines \o pending' = Append(lines \o pending, l) /\ lines \o pending \in Seq(LineType)
      BY <2>1, <2>2, <2>3, ConcatAppend, SMTT(40)
    <3>4. Came' = LinesOf(source, Current.tail) \o Append(LinesOf(source, Current.read), l)
      BY <1>2, <1>3, <1>4, <2>2 DEF Came
    <3>5. Came' = Append(Came, l) /\ Came \in Seq(LineType)
      BY <2>2, <3>4, ConcatAppend DEF Came
    <3>6. ASSUME NEW known \in Seq(LineType), NEW came \in Seq(LineType), NEW e \in LineType,
                 Suffix(known, MaxShownLines) = Suffix(came, MaxShownLines)
          PROVE  Suffix(Append(known, e), MaxShownLines) = Suffix(Append(came, e), MaxShownLines)
      BY <3>6, SuffixAppended, ShownLinesAssumption
    <3>7. Suffix(Append(lines \o pending, l), MaxShownLines) = Suffix(Append(Came, l), MaxShownLines)
      BY <2>2, <3>2, <3>3, <3>5, <3>6
    <3>8. QED
      BY <3>3, <3>5, <3>7, Zenon
  <2>8. QED
    BY <1>4, <1>5, <2>5, <2>6, <2>7 DEF LogsInv
<1>8. QED
  BY <1>6, <1>7

LEMMA StreamEnds ==
  ASSUME LogsInv, NEW r \in DOMAIN run, StreamStops(r) \/ StreamFails(r)
  PROVE  LogsInv'
<1>1. /\ r = Len(run) /\ run[r] = Current /\ Current \in RunType
      /\ Current.source = source /\ ~Current.cancelled
  BY StreamingIsCurrent DEF StreamStops, StreamFails
<1>2. UNCHANGED <<log, source, timer, paused, complete>>
  BY DEF StreamStops, StreamFails
<1>3. PICK new \in RunType :
        run' = [run EXCEPT ![r] = new] /\ new.at = "over" /\ new.source = source /\ ~new.cancelled
  <2>1. run' = [run EXCEPT ![r] = [Current EXCEPT !.at = "over"]]
    BY <1>1 DEF StreamStops, StreamFails
  <2>2. [Current EXCEPT !.at = "over"] \in RunType
    BY <1>1 DEF RunType
  <2>3. QED
    BY <1>1, <2>1, <2>2 DEF RunType
<1>4. RunsTidy' /\ run' \in Seq(RunType) /\ Len(run') = Len(run) /\ Current' = new
  BY <1>1, <1>2, <1>3, CurrentRun
<1>5. LoadsFirst' /\ ShowsWhatCame'
  BY <1>3, <1>4 DEF LoadsFirst, ShowsWhatCame
<1>6. /\ lines' \in Seq(LineType) /\ pending' \in Seq(LineType)
      /\ \A i \in DOMAIN lines' : lines'[i].source = source
      /\ \A i \in DOMAIN pending' : pending'[i].source = source
      /\ pending' # <<>> => pending # <<>>
  <2>1. CASE StreamFails(r)
    BY <2>1 DEF StreamFails, LogsInv, LogsTyped, OfSource
  <2>2. CASE StreamStops(r)
    <3>1. /\ lines' \in Seq(LineType) /\ pending' = <<>>
          /\ \A i \in DOMAIN lines' : lines'[i].source = source
      BY <2>2, FlushShows DEF StreamStops
    <3>2. pending' \in Seq(LineType) /\ DOMAIN pending' = {}
      BY <3>1, EmptySeq
    <3>3. QED
      BY <3>1, <3>2
  <2>3. QED
    BY <2>1, <2>2
<1>7. LogsTyped' /\ OfSource' /\ TimerRuns'
  BY <1>2, <1>4, <1>6 DEF LogsInv, LogsTyped, OfSource, TimerRuns
<1>8. QED
  BY <1>4, <1>5, <1>7 DEF LogsInv

LEMMA LogsInvNext ==
  ASSUME LogsInv, [LogsNext]_logVars
  PROVE  LogsInv'
<1>1. ASSUME NEW s \in Sources, Writes(s)
      PROVE  LogsInv'
  BY <1>1 DEF Writes, LogsInv, LogsTyped, RunsTidy, LoadsFirst, OfSource, ShowsWhatCame, TimerRuns, Came, Current
<1>2. CASE Pause
  BY <1>2 DEF Pause, LogsInv, LogsTyped, RunsTidy, LoadsFirst, OfSource, ShowsWhatCame, TimerRuns, Came, Current
<1>3. CASE Resume
  <2>1. /\ UNCHANGED <<log, source, lines, timer, run>> /\ paused' = FALSE
        /\ pending' = <<>> /\ complete' = (complete /\ pending = <<>>)
    BY <1>3 DEF Resume
  <2>2. pending' \in Seq(LineType) /\ DOMAIN pending' = {} /\ complete' \in BOOLEAN
    BY <2>1, EmptySeq DEF LogsInv, LogsTyped
  <2>3. complete' => complete /\ pending = <<>>
    BY <2>1 DEF LogsInv, LogsTyped
  <2>4. LogsTyped' /\ OfSource'
    BY <2>1, <2>2 DEF LogsInv, LogsTyped, OfSource
  <2>5. RunsTidy' /\ LoadsFirst' /\ TimerRuns'
    BY <2>1 DEF LogsInv, RunsTidy, LoadsFirst, TimerRuns, Current
  <2>6. ShowsWhatCame'
    BY <2>1, <2>3 DEF LogsInv, ShowsWhatCame, Came, Current
  <2>7. QED
    BY <2>4, <2>5, <2>6 DEF LogsInv
<1>4. CASE UNCHANGED logVars
  BY <1>4 DEF logVars, LogsInv, LogsTyped, RunsTidy, LoadsFirst, OfSource, ShowsWhatCame, TimerRuns, Came, Current
<1>5. QED
  BY <1>1, <1>2, <1>3, <1>4, ShowTidies, AnswerTidies, LoadTidies, ReceiveTidies, StreamEnds, FlushTidies
     DEF LogsNext

LEMMA LogsInvariant == LogsSpec => []LogsInv
BY LogsInvInit, LogsInvNext, PTL DEF LogsSpec

\* Whatever answers and streams of earlier sources are still under way, the panel shows what came
\* for the source it is about, in that order and up to its length.
THEOREM LogsShowTheirSource == LogsSpec => []LinesAreOfSource
<1>1. LogsInv => LinesAreOfSource
  <2> SUFFICES ASSUME LogsInv PROVE LinesAreOfSource
    OBVIOUS
  <2>1. ASSUME NEW i \in DOMAIN (lines \o pending)
        PROVE  (lines \o pending)[i].source = source
    BY <2>1, KnownOfSource
  <2>2. complete /\ RunAt(Len(run), "streaming") =>
          Suffix(lines \o pending, MaxShownLines)
            = Suffix(LinesOf(source, Current.tail) \o LinesOf(source, Current.read), MaxShownLines)
    BY DEF LogsInv, ShowsWhatCame, Came, RunAt, Current
  <2>3. QED
    BY <2>1, <2>2 DEF LinesAreOfSource
<1>2. QED
  BY <1>1, LogsInvariant, PTL

\* A line that waits to be shown has a timer that is going to show it: no clean-up, pause or end of
\* a stream leaves the name of a timer behind that is no longer due.
THEOREM LogsAreFlushed == LogsSpec => []NothingWaitsUnseen
<1>1. LogsInv => NothingWaitsUnseen
  BY DEF LogsInv, TimerRuns, NothingWaitsUnseen
<1>2. QED
  BY <1>1, LogsInvariant, PTL

-----------------------------------------------------------------------------
(* NotificationFeed.                                                        *)

(* The list of notifications.                                               *)

LEMMA AddedInFront ==
  ASSUME NEW list \in Seq(Events), NEW event \in Events, ~Contains(list, event)
  PROVE  LET more == Added(list, event)
             n == IF Len(list) < MaxShown THEN Len(list) + 1 ELSE MaxShown IN
         /\ more \in Seq(Events) /\ Len(more) = n /\ n \in Nat \ {0}
         /\ \A i \in 1 .. n : more[i] = IF i = 1 THEN event ELSE list[i - 1]
<1> DEFINE all == <<event>> \o list
           n == IF Len(list) < MaxShown THEN Len(list) + 1 ELSE MaxShown
<1>1. n \in Nat \ {0} /\ n <= Len(list) + 1 /\ Len(list) \in Nat
  BY FeedAssumption, LenProperties
<1>2. /\ all \in Seq(Events) /\ Len(all) = Len(list) + 1
      /\ \A i \in 1 .. Len(list) + 1 : all[i] = IF i = 1 THEN event ELSE list[i - 1]
  <2>1. <<event>> \in Seq(Events) /\ Len(<<event>>) = 1 /\ <<event>>[1] = event
    OBVIOUS
  <2>2. QED
    BY <2>1, ConcatProperties
<1>3. Added(list, event) = SubSeq(all, 1, n)
  BY DEF Added
<1>4. /\ SubSeq(all, 1, n) \in Seq(Events) /\ Len(SubSeq(all, 1, n)) = n
      /\ \A i \in 1 .. n : SubSeq(all, 1, n)[i] = all[i]
  <2> HIDE DEF all, n
  <2>1. n <= Len(all) /\ 1 <= n /\ n \in Nat
    BY <1>1, <1>2
  <2>2. QED
    BY <1>2, <2>1
<1>5. \A i \in 1 .. n : all[i] = IF i = 1 THEN event ELSE list[i - 1]
  <2> HIDE DEF all, n
  <2> QED BY <1>1, <1>2
<1>6. QED
  <2> HIDE DEF all
  <2> QED BY <1>1, <1>3, <1>4, <1>5

\* An event that comes a second time is dropped.
LEMMA AddedOnce ==
  ASSUME NEW list \in Seq(Events), NEW event \in Events
  PROVE  /\ Added(list, event) \in Seq(Events)
         /\ Added(Added(list, event), event) = Added(list, event)
<1>1. Added(list, event) \in Seq(Events) /\ Contains(Added(list, event), event)
  <2>1. CASE Contains(list, event)
    BY <2>1 DEF Added
  <2>2. CASE ~Contains(list, event)
    <3> DEFINE more == Added(list, event)
    <3>1. more \in Seq(Events) /\ 1 \in DOMAIN more /\ more[1] = event
      BY <2>2, AddedInFront, LenProperties
    <3>2. QED
      BY <3>1 DEF Contains
  <2>3. QED
    BY <2>1, <2>2
<1>2. QED
  BY <1>1 DEF Added

LEMMA NewestAdded ==
  ASSUME NEW list \in Seq(Events), NEW events \in SUBSET Events, IsFiniteSet(events),
         NEW event \in Events, \A k \in events : k.time < event.time,
         IsNewest(list, events)
  PROVE  IsNewest(Added(list, event), events \cup {event})
<1> DEFINE more == Added(list, event)
           n == IF Len(list) < MaxShown THEN Len(list) + 1 ELSE MaxShown
<1>1. /\ Shown(list) \subseteq events /\ Len(list) \in Nat /\ DOMAIN list = 1 .. Len(list)
      /\ \A i \in 1 .. Len(list) : list[i] \in events /\ list[i] \in Events
      /\ \A i, j \in 1 .. Len(list) : i < j => list[i].time > list[j].time
      /\ \A x \in events \ Shown(list) : list[Len(list)].time > x.time
  BY LenProperties DEF IsNewest, Shown
<1>2. event \notin events /\ \A x \in Events : x.time \in Nat
  BY DEF Events
<1>3. ~Contains(list, event)
  BY <1>1, <1>2 DEF Contains
<1>4. /\ more \in Seq(Events) /\ Len(more) = n /\ n \in Nat \ {0} /\ DOMAIN more = 1 .. n
      /\ \A i \in 1 .. n : more[i] = IF i = 1 THEN event ELSE list[i - 1]
  BY <1>3, AddedInFront, LenProperties
<1>5. /\ Cardinality(events) \in Nat /\ Cardinality(events \cup {event}) = Cardinality(events) + 1
      /\ Cardinality(events) = 0 <=> events = {}
  BY <1>2, FS_CardinalityType, FS_AddElement, FS_EmptySet
<1>6. /\ Len(list) = IF Cardinality(events) < MaxShown THEN Cardinality(events) ELSE MaxShown
      /\ MaxShown \in Nat \ {0}
  BY FeedAssumption DEF IsNewest
<1>7. Len(more) = IF Cardinality(events \cup {event}) < MaxShown
                  THEN Cardinality(events \cup {event}) ELSE MaxShown
  <2> HIDE DEF more
  <2> QED BY <1>4, <1>5, <1>6
<1> HIDE DEF more
<1>8. \A i, j \in 1 .. n : i < j => more[i].time > more[j].time
  <2> SUFFICES ASSUME NEW i \in 1 .. n, NEW j \in 1 .. n, i < j PROVE more[i].time > more[j].time
    OBVIOUS
  <2>1. more[j] = list[j - 1] /\ j - 1 \in 1 .. Len(list) /\ list[j - 1] \in events
    BY <1>1, <1>4, <1>6
  <2>2. CASE i = 1
    BY <1>2, <1>4, <2>1, <2>2
  <2>3. CASE i # 1
    <3>1. more[i] = list[i - 1] /\ i - 1 \in 1 .. Len(list) /\ i - 1 < j - 1
      BY <1>1, <1>4, <1>6, <2>3
    <3>2. QED
      BY <1>1, <2>1, <3>1
  <2>4. QED
    BY <2>2, <2>3
<1>9. Shown(more) \subseteq events \cup {event}
  <2> SUFFICES ASSUME NEW i \in 1 .. n PROVE more[i] \in events \cup {event}
    BY <1>4 DEF Shown
  <2>1. i # 1 => i - 1 \in 1 .. Len(list)
    BY <1>4, <1>6
  <2>2. QED
    BY <1>1, <1>4, <2>1
<1>10. ASSUME NEW x \in (events \cup {event}) \ Shown(more)
       PROVE  more[n].time > x.time
  <2>1. more[1] \in Shown(more)
    <3>1. 1 \in DOMAIN more
      BY <1>4
    <3>2. QED
      BY <3>1 DEF Shown
  <2>2. x \in events /\ x \in Events
    BY <1>4, <1>10, <2>1
  <2>3. Len(list) # 0
    BY <1>5, <1>6, <2>2
  <2>4. ASSUME NEW i \in 1 .. Len(list), list[i] = x
        PROVE  i = Len(list) /\ n = Len(list)
    <3>1. ~(i + 1 \in 1 .. n)
      <4>1. i + 1 \in 1 .. n => more[i + 1] = x
        BY <1>4, <2>4
      <4>2. QED
        BY <1>4, <1>10, <4>1 DEF Shown
    <3>2. QED
      BY <1>1, <1>6, <3>1
  <2>5. CASE n = 1
    <3>1. more[n] = event
      BY <1>4, <2>5
    <3>2. QED
      BY <1>2, <2>2, <3>1
  <2>6. CASE n # 1
    <3>1. more[n] = list[n - 1] /\ n - 1 \in 1 .. Len(list)
      BY <1>4, <1>6, <2>6
    <3>2. CASE x \in Shown(list)
      <4>1. PICK i \in 1 .. Len(list) : list[i] = x
        BY <1>1, <3>2 DEF Shown
      <4>2. i = Len(list) /\ n = Len(list)
        BY <2>4, <4>1
      <4>3. n - 1 < i
        BY <1>4, <4>2
      <4>4. QED
        BY <1>1, <3>1, <4>1, <4>3
    <3>3. CASE x \notin Shown(list)
      <4>1. list[Len(list)].time > x.time
        BY <1>1, <2>2, <3>3
      <4>2. list[Len(list)].time \in Nat /\ list[n - 1].time \in Nat /\ x.time \in Nat
        BY <1>1, <1>2, <2>2, <2>3, <3>1
      <4>3. n - 1 = Len(list) \/ (Len(list) \in 1 .. Len(list) /\ n - 1 < Len(list))
        BY <1>1, <1>4, <1>6, <2>3, <3>1
      <4>4. n - 1 = Len(list) \/ list[n - 1].time > list[Len(list)].time
        BY <1>1, <3>1, <4>3
      <4>5. QED
        BY <3>1, <4>1, <4>2, <4>4
    <3>4. QED
      BY <3>2, <3>3
  <2>7. QED
    BY <2>5, <2>6
<1>11. QED
  BY <1>4, <1>7, <1>8, <1>9, <1>10 DEF IsNewest, more

-----------------------------------------------------------------------------
(* The inductive invariant.                                                 *)

Following == "load" \notin effects /\ chosen = shownIn

\* An effect that has not run is of the page as the user sees it, and only a change of the
\* namespace or a load of the page loads a feed and leaves a stream of another namespace.
EffectsTidy ==
  /\ effects # {} => chosen = shownIn
  /\ stream.namespace # None => ("load" \in effects <=> stream.namespace # shownIn)

\* What the namespace shown has kept is what its feed is about to be; that of the others is in
\* the storage, and so is that of the namespace shown until its load has run.
ListsInStep ==
  /\ ~due => next = feed \/ "load" \in effects
  /\ "save" \notin effects => storage[shownIn] = feed
  /\ Following => IsNewest(next, kept[shownIn])
  /\ \A ns \in Namespaces :
       ns # shownIn \/ ~Following => IsNewest(storage[ns], kept[ns])

\* Events are numbered as they are sent, and those on their way come after all that were kept.
WireInOrder ==
  /\ \A ns \in Namespaces : IsFiniteSet(kept[ns]) /\ \A e \in kept[ns] : e.time <= sent
  /\ stream.since <= sent
  /\ \A i \in DOMAIN stream.wire :
       LET e == stream.wire[i] IN
       /\ e.namespace = stream.namespace /\ e.time <= sent
       /\ \A k \in kept[stream.namespace] : k.time < e.time
       /\ \A j \in DOMAIN stream.wire : j < i => stream.wire[j].time < e.time

\* The last event of a stream has the phase that was seen last.
LastIsLast ==
  /\ stream.namespace = None => stream = Closed
  /\ stream.last = None <=> stream.first = None
  /\ stream.last = None => stream.wire = <<>> /\ (stream.namespace # None => sent = stream.since)
  /\ sent = stream.since => stream.last = stream.first
  /\ stream.wire # <<>> => stream.wire[Len(stream.wire)].phase = stream.last
  /\ stream.wire = <<>> /\ stream.last # None /\ Following =>
       (next # <<>> /\ next[1].time > stream.since => next[1].phase = stream.last)

FeedInv == FeedTypeOK /\ EffectsTidy /\ ListsInStep /\ WireInOrder /\ LastIsLast

-----------------------------------------------------------------------------
(* Every step keeps it.                                                     *)

LEMMA NothingIsNewest ==
  /\ IsNewest(<<>>, {}) /\ <<>> \in Seq(Events) /\ IsFiniteSet({})
<1>1. Cardinality({}) = 0 /\ IsFiniteSet({})
  BY FS_EmptySet
<1>2. <<>> \in Seq(Events) /\ Len(<<>>) = 0 /\ DOMAIN <<>> = {}
  BY EmptySeq
<1>3. QED
  BY <1>1, <1>2, FeedAssumption DEF IsNewest, Shown

LEMMA FeedInvInit == FeedInit => FeedInv
<1> SUFFICES ASSUME FeedInit PROVE FeedInv
  OBVIOUS
<1>1. FeedTypeOK
  BY NothingIsNewest DEF FeedInit, FeedTypeOK, Closed, Stream
<1>2. EffectsTidy
  BY DEF FeedInit, EffectsTidy, Closed, Stream, AllEffects
<1>3. ListsInStep
  BY NothingIsNewest DEF FeedInit, ListsInStep, Following, AllEffects, FeedTypeOK
<1>4. WireInOrder
  BY NothingIsNewest, EmptySeq DEF FeedInit, WireInOrder, Closed, Stream
<1>5. LastIsLast
  BY DEF FeedInit, LastIsLast, Closed, Stream
<1>6. QED
  BY <1>1, <1>2, <1>3, <1>4, <1>5 DEF FeedInv

LEMMA PollTidies ==
  ASSUME FeedInv, Poll
  PROVE  FeedInv'
<1> DEFINE ns == stream.namespace
           now == phase[ns]
<1>1. /\ ns \in Namespaces /\ now \in ResourcePhases /\ now # None
      /\ UNCHANGED <<phase, chosen, shownIn, effects, feed, next, due, storage, happened, kept>>
  BY FeedAssumption DEF Poll, FeedInv, FeedTypeOK, page
<1>2. CASE Noticed(stream.last, now)
  <2> DEFINE e == [namespace |-> ns, phase |-> now, time |-> sent + 1]
             wire == stream.wire
  <2>1. /\ sent' = sent + 1 /\ sent \in Nat
        /\ stream' = [stream EXCEPT !.last = now, !.wire = Append(wire, e)]
    BY <1>2 DEF Poll, FeedInv, FeedTypeOK
  <2>2. e \in Events /\ wire \in Seq(Events)
    BY <1>1, <2>1 DEF Events, FeedInv, FeedTypeOK
  <2>3. /\ Append(wire, e) \in Seq(Events) /\ Len(Append(wire, e)) = Len(wire) + 1
        /\ Len(wire) \in Nat /\ DOMAIN wire = 1 .. Len(wire)
        /\ DOMAIN Append(wire, e) = 1 .. Len(wire) + 1
        /\ \A i \in 1 .. Len(wire) + 1 : Append(wire, e)[i] = IF i = Len(wire) + 1 THEN e ELSE wire[i]
    BY <2>2, LenProperties
  <2>4. /\ stream'.wire = Append(wire, e) /\ stream'.last = now /\ stream'.first = stream.first
        /\ stream'.namespace = ns /\ stream'.since = stream.since
    BY <2>1 DEF FeedInv, FeedTypeOK
  <2>5. FeedTypeOK'
    <3> DEFINE new == [namespace |-> ns, last |-> now, wire |-> Append(wire, e),
                       first |-> stream.first, since |-> stream.since]
    <3>1. stream' = new
      BY <2>1 DEF FeedInv, FeedTypeOK
    <3>2. new \in [namespace : Namespaces \cup {None}, last : ResourcePhases \cup {None},
                   wire : Seq(Events), first : ResourcePhases \cup {None}, since : Nat]
      BY <1>1, <2>3 DEF FeedInv, FeedTypeOK
    <3> HIDE DEF new
    <3>3. QED
      BY <1>1, <2>1, <3>1, <3>2, SMTT(40) DEF FeedInv, FeedTypeOK
  <2>6. EffectsTidy' /\ ListsInStep'
    BY <1>1, <2>4 DEF FeedInv, EffectsTidy, ListsInStep, Following
  <2>7. WireInOrder'
    <3>1. \A m \in Namespaces : IsFiniteSet(kept[m]) /\ \A k \in kept[m] : k.time <= sent /\ k.time \in Nat
      BY DEF FeedInv, WireInOrder, FeedTypeOK, Events
    <3>2. \A m \in Namespaces : IsFiniteSet(kept'[m]) /\ \A k \in kept'[m] : k.time <= sent'
      BY <1>1, <2>1, <3>1
    <3>3. stream'.since <= sent'
      BY <2>1, <2>4 DEF FeedInv, WireInOrder, FeedTypeOK
    <3>4. \A i \in 1 .. Len(wire) : wire[i].time \in Nat /\ wire[i].time <= sent
      <4>1. \A i \in 1 .. Len(wire) : wire[i] \in Events
        BY <2>2, <2>3
      <4>2. \A i \in 1 .. Len(wire) : wire[i].time <= sent
        BY <2>3 DEF FeedInv, WireInOrder
      <4>3. QED
        BY <4>1, <4>2 DEF Events
    <3>5. ASSUME NEW i \in 1 .. Len(wire) + 1
          PROVE  LET x == Append(wire, e)[i] IN
                 /\ x.namespace = ns /\ x.time <= sent + 1
                 /\ \A k \in kept[ns] : k.time < x.time
                 /\ \A j \in 1 .. Len(wire) + 1 : j < i => Append(wire, e)[j].time < x.time
      <4>1. CASE i = Len(wire) + 1
        <5>1. Append(wire, e)[i] = e /\ e.namespace = ns /\ e.time = sent + 1
          BY <2>3, <4>1
        <5>2. \A k \in kept[ns] : k.time < sent + 1
          BY <1>1, <2>1, <3>1
        <5>3. \A j \in 1 .. Len(wire) + 1 : j < i => j \in 1 .. Len(wire) /\ Append(wire, e)[j] = wire[j]
          BY <2>3, <4>1
        <5>4. QED
          BY <2>1, <3>4, <5>1, <5>2, <5>3
      <4>2. CASE i # Len(wire) + 1
        <5>1. i \in 1 .. Len(wire) /\ Append(wire, e)[i] = wire[i]
          BY <2>3, <4>2
        <5>2. \A j \in 1 .. Len(wire) + 1 : j < i => j \in 1 .. Len(wire) /\ Append(wire, e)[j] = wire[j]
          BY <2>3, <4>2
        <5>3. wire[i].time <= sent + 1
          BY <2>1, <3>4, <5>1
        <5>4. QED
          BY <2>3, <5>1, <5>2, <5>3 DEF FeedInv, WireInOrder
      <4>3. QED
        BY <4>1, <4>2
    <3>6. QED
      BY <1>1, <2>1, <2>3, <2>4, <3>2, <3>3, <3>5, Zenon DEF WireInOrder
  <2>8. LastIsLast'
    <3>1. stream'.wire # <<>> /\ stream'.wire[Len(stream'.wire)].phase = now
      BY <2>3, <2>4
    <3>2. stream.last # None /\ stream.first # None
      BY <1>2 DEF Noticed, FeedInv, LastIsLast
    <3>3. stream.since <= sent /\ stream.since \in Nat
      BY DEF FeedInv, WireInOrder, FeedTypeOK
    <3>4. sent' # stream'.since
      BY <2>1, <2>4, <3>3
    <3>5. QED
      BY <1>1, <2>4, <3>1, <3>2, <3>4, FeedAssumption DEF LastIsLast
  <2>9. QED
    BY <2>5, <2>6, <2>7, <2>8 DEF FeedInv
<1>3. CASE ~Noticed(stream.last, now)
  <2>1. /\ sent' = sent /\ stream.last \in {None, now}
        /\ stream' = [stream EXCEPT !.last = now, !.first = IF @ = None THEN now ELSE @]
    BY <1>3 DEF Poll, Noticed
  <2>2. /\ stream'.wire = stream.wire /\ stream'.last = now
        /\ stream'.first = IF stream.first = None THEN now ELSE stream.first
        /\ stream'.namespace = ns /\ stream'.since = stream.since
    BY <2>1 DEF FeedInv, FeedTypeOK
  <2>3. FeedTypeOK'
    BY <1>1, <2>1 DEF FeedInv, FeedTypeOK
  <2>4. EffectsTidy' /\ ListsInStep' /\ WireInOrder'
    BY <1>1, <2>1, <2>2 DEF FeedInv, EffectsTidy, ListsInStep, Following, WireInOrder
  <2>5. LastIsLast'
    <3>1. CASE stream.last = None
      <4>1. stream.wire = <<>> /\ sent = stream.since /\ stream.first = None
        BY <1>1, <3>1, FeedAssumption DEF FeedInv, LastIsLast
      <4>2. Following => (next # <<>> => next[1].time <= sent)
        <5> SUFFICES ASSUME Following, next # <<>> PROVE next[1].time <= sent
          OBVIOUS
        <5>1. 1 \in DOMAIN next /\ IsNewest(next, kept[shownIn]) /\ shownIn \in Namespaces
          BY EmptySeq, LenProperties DEF FeedInv, FeedTypeOK, ListsInStep
        <5>2. next[1] \in kept[shownIn]
          BY <5>1 DEF IsNewest, Shown
        <5>3. QED
          BY <5>1, <5>2 DEF FeedInv, WireInOrder
      <4>3. Following /\ next # <<>> => ~(next[1].time > sent)
        <5>1. next # <<>> => next[1].time \in Nat /\ sent \in Nat
          <6>1. next # <<>> => next[1] \in Events
            BY EmptySeq, LenProperties DEF FeedInv, FeedTypeOK
          <6>2. QED
            BY <6>1 DEF Events, FeedInv, FeedTypeOK
        <5>2. QED
          BY <4>2, <5>1
      <4>4. QED
        BY <1>1, <2>1, <2>2, <4>1, <4>3, FeedAssumption DEF LastIsLast, Following
    <3>2. CASE stream.last = now
      <4>1. stream' = stream
        BY <1>1, <2>1, <3>2 DEF FeedInv, FeedTypeOK, LastIsLast
      <4>2. QED
        BY <1>1, <2>1, <4>1 DEF FeedInv, LastIsLast, Following
    <3>3. QED
      BY <2>1, <3>1, <3>2
  <2>6. QED
    BY <2>3, <2>4, <2>5 DEF FeedInv
<1>4. QED
  BY <1>2, <1>3

LEMMA EventTidies ==
  ASSUME FeedInv, Receive
  PROVE  FeedInv'
<1> DEFINE wire == stream.wire
           event == Head(wire)
           ns == stream.namespace
<1>1. /\ wire \in Seq(Events) /\ wire # <<>> /\ Len(wire) \in Nat \ {0} /\ DOMAIN wire = 1 .. Len(wire)
      /\ event = wire[1] /\ event \in Events
  <2>1. wire \in Seq(Events) /\ wire # <<>>
    BY DEF Receive, FeedInv, FeedTypeOK
  <2>2. QED
    BY <2>1, EmptySeq, LenProperties
<1>2. /\ Tail(wire) \in Seq(Events) /\ Len(Tail(wire)) = Len(wire) - 1
      /\ DOMAIN Tail(wire) = 1 .. Len(wire) - 1
      /\ \A i \in 1 .. Len(wire) - 1 : Tail(wire)[i] = wire[i + 1] /\ i + 1 \in DOMAIN wire
  BY <1>1, HeadTailProperties, LenProperties
<1>3. /\ UNCHANGED <<phase, chosen, shownIn, effects, feed, storage, sent, happened>>
      /\ due' = TRUE /\ stream' = [stream EXCEPT !.wire = Tail(wire)]
      /\ next' = Added(Added(next, event), event)
      /\ kept' = IF chosen = shownIn /\ event.namespace = shownIn
                 THEN [kept EXCEPT ![shownIn] = @ \cup {event}] ELSE kept
  BY DEF Receive
<1>4. /\ stream'.wire = Tail(wire) /\ stream'.last = stream.last /\ stream'.first = stream.first
      /\ stream'.namespace = ns /\ stream'.since = stream.since
      /\ stream' \in [namespace : Namespaces \cup {None}, last : ResourcePhases \cup {None},
                    wire : Seq(Events), first : ResourcePhases \cup {None}, since : Nat]
  BY <1>2, <1>3 DEF FeedInv, FeedTypeOK
<1>5. next \in Seq(Events) /\ next' = Added(next, event) /\ next' \in Seq(Events)
  <2>1. next \in Seq(Events)
    BY DEF FeedInv, FeedTypeOK
  <2>2. QED
    BY <1>1, <1>3, <2>1, AddedOnce
<1>6. /\ event.namespace = ns /\ ns \in Namespaces /\ ns # None /\ stream.last # None
      /\ event.time <= sent /\ \A k \in kept[ns] : k.time < event.time
  <2>1. 1 \in DOMAIN wire
    BY <1>1
  <2>2. /\ event.namespace = ns /\ event.time <= sent /\ \A k \in kept[ns] : k.time < event.time
    BY <1>1, <2>1 DEF FeedInv, WireInOrder
  <2>3. stream # Closed
    BY <1>1 DEF Closed, Stream
  <2>4. ns # None /\ stream.last # None
    BY <1>1, <2>3 DEF FeedInv, LastIsLast
  <2>5. QED
    BY <2>2, <2>4 DEF FeedInv, FeedTypeOK
<1>7. Following <=> chosen = shownIn /\ event.namespace = shownIn
  BY <1>6 DEF FeedInv, EffectsTidy, Following
<1>8. /\ \A m \in Namespaces : kept[m] \in SUBSET Events /\ IsFiniteSet(kept[m])
      /\ kept \in [Namespaces -> SUBSET Events] /\ shownIn \in Namespaces
  BY DEF FeedInv, FeedTypeOK, WireInOrder
<1>9. /\ kept' \in [Namespaces -> SUBSET Events]
      /\ Following => ns = shownIn /\ kept'[shownIn] = kept[shownIn] \cup {event}
      /\ \A m \in Namespaces : m # shownIn \/ ~Following => kept'[m] = kept[m]
  BY <1>1, <1>3, <1>6, <1>7, <1>8
<1>10. FeedTypeOK'
  BY <1>3, <1>4, <1>5, <1>9 DEF FeedInv, FeedTypeOK
<1>11. EffectsTidy'
  BY <1>3, <1>4 DEF FeedInv, EffectsTidy
<1>12. ListsInStep'
  <2>1. Following => IsNewest(next', kept'[shownIn])
    <3> SUFFICES ASSUME Following PROVE IsNewest(next', kept'[shownIn])
      OBVIOUS
    <3>1. IsNewest(next, kept[shownIn])
      BY DEF FeedInv, ListsInStep
    <3>2. ns = shownIn
      BY <1>9
    <3>3. IsNewest(Added(next, event), kept[shownIn] \cup {event})
      BY <1>1, <1>5, <1>6, <1>8, <3>1, <3>2, NewestAdded
    <3>4. QED
      BY <1>5, <1>9, <3>3
  <2>2. QED
    BY <1>3, <1>9, <2>1 DEF FeedInv, ListsInStep, Following
<1>13. WireInOrder'
  <2>1. ASSUME NEW m \in Namespaces
        PROVE  IsFiniteSet(kept'[m]) /\ \A e \in kept'[m] : e.time <= sent'
    <3>1. IsFiniteSet(kept[m]) /\ IsFiniteSet(kept[m] \cup {event})
      BY <1>8, FS_AddElement
    <3>2. kept'[m] = kept[m] \/ kept'[m] = kept[m] \cup {event}
      BY <1>9
    <3>3. \A e \in kept[m] \cup {event} : e.time <= sent
      BY <1>6 DEF FeedInv, WireInOrder
    <3>4. QED
      BY <1>3, <3>1, <3>2, <3>3
  <2>2. ASSUME NEW i \in 1 .. Len(wire) - 1
        PROVE  LET e == Tail(wire)[i] IN
               /\ e.namespace = ns /\ e.time <= sent
               /\ \A k \in kept'[ns] : k.time < e.time
               /\ \A j \in 1 .. Len(wire) - 1 : j < i => Tail(wire)[j].time < e.time
    <3>1. Tail(wire)[i] = wire[i + 1] /\ i + 1 \in DOMAIN wire /\ 1 \in DOMAIN wire /\ 1 < i + 1
      BY <1>1, <1>2
    <3>2. /\ wire[i + 1].namespace = ns /\ wire[i + 1].time <= sent
          /\ \A k \in kept[ns] : k.time < wire[i + 1].time
          /\ \A j \in DOMAIN wire : j < i + 1 => wire[j].time < wire[i + 1].time
      BY <3>1 DEF FeedInv, WireInOrder
    <3>3. \A k \in kept'[ns] : k \in kept[ns] \/ k = event
      BY <1>6, <1>9
    <3>4. event.time < wire[i + 1].time
      BY <1>1, <3>1, <3>2
    <3>5. \A j \in 1 .. Len(wire) - 1 : j < i =>
            Tail(wire)[j] = wire[j + 1] /\ j + 1 \in DOMAIN wire /\ j + 1 < i + 1
      BY <1>2
    <3>6. QED
      BY <3>1, <3>2, <3>3, <3>4, <3>5
  <2>3. stream'.since <= sent'
    BY <1>3, <1>4 DEF FeedInv, WireInOrder
  <2>4. QED
    BY <1>2, <1>3, <1>4, <2>1, <2>2, <2>3, Zenon DEF WireInOrder
<1>14. LastIsLast'
  <2>1. stream'.last # None /\ stream'.namespace # None
    BY <1>4, <1>6
  <2>2. stream'.first # None /\ (sent' = stream'.since => stream'.last = stream'.first)
    BY <1>3, <1>4, <1>6 DEF FeedInv, LastIsLast
  <2>3. wire[Len(wire)].phase = stream.last
    BY <1>1 DEF FeedInv, LastIsLast
  <2>4. Tail(wire) # <<>> => Tail(wire)[Len(Tail(wire))].phase = stream.last
    <3>1. Tail(wire) # <<>> => Len(wire) - 1 \in 1 .. Len(wire) - 1
      BY <1>1, <1>2, EmptySeq
    <3>2. Tail(wire) # <<>> => Tail(wire)[Len(wire) - 1] = wire[(Len(wire) - 1) + 1]
      BY <1>2, <3>1
    <3>3. (Len(wire) - 1) + 1 = Len(wire)
      BY <1>1
    <3>4. QED
      BY <1>2, <2>3, <3>2, <3>3
  <2>5. Tail(wire) = <<>> /\ Following => next'[1].phase = stream.last
    <3> SUFFICES ASSUME Tail(wire) = <<>>, Following PROVE next'[1].phase = stream.last
      OBVIOUS
    <3>1. event.phase = stream.last
      <4>1. Len(wire) = 1
        <5>1. Len(Tail(wire)) = 0
          BY EmptySeq
        <5>2. QED
          BY <1>1, <1>2, <5>1
      <4>2. QED
        BY <1>1, <2>3, <4>1
    <3>2. ~Contains(next, event)
      <4>1. \A i \in DOMAIN next : next[i] \in kept[shownIn]
        BY DEF FeedInv, ListsInStep, IsNewest, Shown
      <4>2. event \notin kept[shownIn]
        <5>1. event.time \in Nat
          BY <1>1 DEF Events
        <5>2. QED
          BY <1>6, <1>9, <5>1
      <4>3. QED
        BY <4>1, <4>2 DEF Contains
    <3>3. next'[1] = event
      BY <1>1, <1>5, <3>2, AddedInFront
    <3>4. QED
      BY <3>1, <3>3
  <2>6. QED
    BY <1>3, <1>4, <2>1, <2>2, <2>4, <2>5 DEF LastIsLast, Following
<1>15. QED
  BY <1>10, <1>11, <1>12, <1>13, <1>14 DEF FeedInv

\* Nothing is on the way in a stream that has just been opened, or is closed.
LEMMA NewStream ==
  ASSUME FeedInv, NEW ns \in Namespaces \cup {None}, NEW since \in Nat,
         sent' = sent, stream' = Stream(ns, since), since <= sent,
         ns = None => since = 0, ns # None => since = sent,
         \A m \in Namespaces : kept'[m] = kept[m] \/ kept'[m] = {}
  PROVE  /\ WireInOrder' /\ LastIsLast' /\ stream'.namespace = ns
         /\ stream' \in [namespace : Namespaces \cup {None}, last : ResourcePhases \cup {None},
                       wire : Seq(Events), first : ResourcePhases \cup {None}, since : Nat]
<1>1. /\ stream'.wire = <<>> /\ stream'.last = None /\ stream'.first = None
      /\ stream'.namespace = ns /\ stream'.since = since /\ DOMAIN <<>> = {} /\ <<>> \in Seq(Events)
  BY EmptySeq DEF Stream
<1>2. WireInOrder'
  BY <1>1, NothingIsNewest DEF FeedInv, WireInOrder
<1>3. LastIsLast'
  BY <1>1 DEF LastIsLast, Closed, Stream
<1>4. QED
  BY <1>1, <1>2, <1>3 DEF Stream

LEMMA FeedInvNext ==
  ASSUME FeedInv, [FeedNext]_feedVars
  PROVE  FeedInv'
<1> USE DEF FeedInv
<1>1. CASE Lose
  <2>1. stream' = Stream(None, 0) /\ UNCHANGED <<phase, chosen, page, storage, sent, kept>> /\ happened' \in Nat
    BY <1>1 DEF Lose, Closed, Change, FeedTypeOK
  <2>2. 0 <= sent
    BY DEF FeedTypeOK
  <2>3. WireInOrder' /\ LastIsLast' /\ stream'.namespace = None
        /\ stream' \in [namespace : Namespaces \cup {None}, last : ResourcePhases \cup {None},
                       wire : Seq(Events), first : ResourcePhases \cup {None}, since : Nat]
    BY <2>1, <2>2, NewStream
  <2>4. FeedTypeOK' /\ EffectsTidy' /\ ListsInStep'
    BY <2>1, <2>3 DEF FeedTypeOK, EffectsTidy, ListsInStep, Following, page
  <2>5. QED
    BY <2>3, <2>4
<1>2. CASE Render
  <2>1. /\ effects = {} /\ feed' = next /\ due' = FALSE /\ shownIn' = chosen
        /\ UNCHANGED <<phase, chosen, next, storage, stream, sent, happened, kept>>
        /\ chosen # shownIn => effects' = AllEffects
        /\ chosen = shownIn => effects' = IF next # feed THEN {"save"} ELSE {}
    BY <1>2 DEF Render
  <2>2. FeedTypeOK'
    BY <2>1 DEF FeedTypeOK
  <2>3. CASE chosen # shownIn
    <3>1. effects' = AllEffects /\ ~Following' /\ ~Following
      BY <2>1, <2>3 DEF Following, AllEffects
    <3>2. EffectsTidy'
      BY <2>1, <2>3, <3>1 DEF EffectsTidy, AllEffects
    <3>3. ListsInStep'
      BY <2>1, <3>1 DEF ListsInStep, AllEffects
    <3>4. WireInOrder' /\ LastIsLast'
      BY <2>1, <3>1 DEF WireInOrder, LastIsLast
    <3>5. QED
      BY <2>2, <3>2, <3>3, <3>4
  <2>4. CASE chosen = shownIn
    <3>1. Following /\ Following' /\ shownIn' = shownIn /\ effects' \in {{}, {"save"}}
      BY <2>1, <2>4 DEF Following
    <3>2. EffectsTidy'
      BY <2>1, <2>4, <3>1 DEF EffectsTidy
    <3>3. "save" \notin effects' => storage[shownIn] = next
      BY <2>1, <2>4 DEF ListsInStep
    <3>4. ListsInStep'
      BY <2>1, <3>1, <3>3 DEF ListsInStep
    <3>5. WireInOrder' /\ LastIsLast'
      BY <2>1, <3>1 DEF WireInOrder, LastIsLast
    <3>6. QED
      BY <2>2, <3>2, <3>4, <3>5
  <2>5. QED
    BY <2>3, <2>4
<1>3. CASE RunEffects
  <2>1. /\ effects # {} /\ effects' = {} /\ chosen = shownIn /\ shownIn \in Namespaces
        /\ UNCHANGED <<phase, chosen, shownIn, feed, sent, happened, kept>>
        /\ storage' = IF "save" \in effects THEN [storage EXCEPT ![shownIn] = feed] ELSE storage
        /\ "stream" \in effects => stream' = Stream(shownIn, sent)
        /\ "stream" \notin effects => stream' = stream
        /\ Following'
    BY <1>3 DEF RunEffects, EffectsTidy, FeedTypeOK, Following
  <2>2. /\ "load" \in effects => next' = storage[shownIn] /\ due' = TRUE
        /\ "load" \notin effects => UNCHANGED <<next, due>>
    BY <1>3 DEF RunEffects, LoadedFrom
  <2>3. /\ storage' \in [Namespaces -> Seq(Events)] /\ storage'[shownIn] = feed
        /\ \A ns \in Namespaces : ns # shownIn => storage'[ns] = storage[ns]
    BY <2>1 DEF FeedTypeOK, ListsInStep
  <2>4. next' \in Seq(Events) /\ due' \in BOOLEAN /\ IsNewest(next', kept[shownIn])
    BY <2>1, <2>2 DEF FeedTypeOK, ListsInStep, Following
  <2>5. ListsInStep'
    BY <2>1, <2>2, <2>3, <2>4 DEF ListsInStep
  <2>6. CASE "stream" \in effects
    <3>1. sent \in Nat /\ sent <= sent /\ shownIn # None
      BY <2>1, FeedAssumption DEF FeedTypeOK
    <3>2. WireInOrder' /\ LastIsLast' /\ stream'.namespace = shownIn
          /\ stream' \in [namespace : Namespaces \cup {None}, last : ResourcePhases \cup {None},
                         wire : Seq(Events), first : ResourcePhases \cup {None}, since : Nat]
      BY <2>1, <2>6, <3>1, NewStream
    <3>3. EffectsTidy' /\ FeedTypeOK'
      BY <2>1, <2>3, <2>4, <3>2 DEF EffectsTidy, FeedTypeOK
    <3>4. QED
      BY <2>5, <3>2, <3>3
  <2>7. CASE "stream" \notin effects
    <3>1. "load" \notin effects /\ Following
      BY <2>1, <2>7 DEF FeedTypeOK, AllEffects, Following
    <3>2. EffectsTidy' /\ FeedTypeOK'
      BY <2>1, <2>3, <2>4, <2>7, <3>1 DEF EffectsTidy, FeedTypeOK
    <3>3. WireInOrder' /\ LastIsLast'
      BY <2>1, <2>2, <2>7, <3>1 DEF WireInOrder, LastIsLast
    <3>4. QED
      BY <2>5, <3>2, <3>3
  <2>8. QED
    BY <2>6, <2>7
<1>4. CASE Clear
  <2>1. /\ Settled /\ next' = <<>> /\ due' = TRUE /\ kept' = [kept EXCEPT ![chosen] = {}]
        /\ UNCHANGED <<phase, chosen, shownIn, effects, feed, storage, stream, sent>> /\ happened' \in Nat
    BY <1>4 DEF Clear, Change, FeedTypeOK
  <2>2. /\ kept' \in [Namespaces -> SUBSET Events] /\ kept'[shownIn] = {} /\ shownIn \in Namespaces
        /\ \A ns \in Namespaces : ns # shownIn => kept'[ns] = kept[ns]
    BY <2>1 DEF FeedTypeOK, Settled
  <2>3. FeedTypeOK'
    BY <2>1, <2>2, NothingIsNewest DEF FeedTypeOK
  <2>4. Following /\ Following'
    BY <2>1 DEF Settled, Following
  <2>5. EffectsTidy' /\ ListsInStep'
    BY <2>1, <2>2, <2>4, NothingIsNewest DEF EffectsTidy, ListsInStep
  <2>6. WireInOrder'
    <3>1. \A m \in Namespaces : kept'[m] \subseteq kept[m] /\ (kept'[m] = kept[m] \/ kept'[m] = {})
      BY <2>2
    <3>2. stream.wire # <<>> => stream.namespace \in Namespaces
      BY DEF LastIsLast, Closed, Stream, FeedTypeOK
    <3>3. stream.wire = <<>> => DOMAIN stream.wire = {}
      BY EmptySeq
    <3>4. QED
      BY <2>1, <3>1, <3>2, <3>3, NothingIsNewest DEF WireInOrder
  <2>7. LastIsLast'
    BY <2>1 DEF LastIsLast
  <2>8. QED
    BY <2>3, <2>5, <2>6, <2>7
<1>5. CASE RenewToken
  <2>1. /\ Settled /\ effects' = {"stream"} /\ happened' \in Nat
        /\ UNCHANGED <<phase, chosen, shownIn, feed, next, due, storage, stream, sent, kept>>
    BY <1>5 DEF RenewToken, Change, FeedTypeOK
  <2>2. Following /\ Following' /\ chosen = shownIn /\ effects = {}
    BY <2>1 DEF Settled, Following
  <2>3. FeedTypeOK' /\ EffectsTidy' /\ ListsInStep' /\ WireInOrder' /\ LastIsLast'
    BY <2>1, <2>2 DEF FeedTypeOK, EffectsTidy, ListsInStep, WireInOrder, LastIsLast
  <2>4. QED
    BY <2>3
<1>6. ASSUME NEW ns \in Namespaces, Turn(ns)
      PROVE  FeedInv'
  <2>1. /\ Settled /\ ns # chosen /\ chosen' = ns /\ happened' \in Nat
        /\ UNCHANGED <<phase, shownIn, effects, feed, next, due, storage, stream, sent, kept>>
    BY <1>6 DEF Turn, Change, page, FeedTypeOK
  <2>2. Following /\ ~Following' /\ effects = {} /\ chosen = shownIn
    BY <2>1 DEF Settled, Following
  <2>3. IsNewest(storage[shownIn], kept[shownIn])
    BY <2>1, <2>2 DEF ListsInStep, Settled
  <2>4. FeedTypeOK' /\ EffectsTidy' /\ WireInOrder' /\ LastIsLast'
    BY <2>1, <2>2 DEF FeedTypeOK, EffectsTidy, WireInOrder, LastIsLast
  <2>5. ListsInStep'
    BY <2>1, <2>2, <2>3 DEF ListsInStep
  <2>6. QED
    BY <2>4, <2>5
<1>7. ASSUME NEW ns \in Namespaces, Reload(ns)
      PROVE  FeedInv'
  <2>1. /\ Settled /\ chosen' = ns /\ shownIn' = ns /\ effects' = AllEffects
        /\ feed' = storage[ns] /\ next' = storage[ns] /\ stream' = Stream(None, 0) /\ happened' \in Nat
        /\ UNCHANGED <<phase, due, storage, sent, kept>>
    BY <1>7 DEF Reload, Change, Closed, FeedTypeOK
  <2>2. Following /\ ~Following'
    BY <2>1 DEF Settled, Following, AllEffects
  <2>3. 0 <= sent
    BY DEF FeedTypeOK
  <2>4. WireInOrder' /\ LastIsLast' /\ stream'.namespace = None
        /\ stream' \in [namespace : Namespaces \cup {None}, last : ResourcePhases \cup {None},
                       wire : Seq(Events), first : ResourcePhases \cup {None}, since : Nat]
    BY <2>1, <2>3, NewStream
  <2>5. FeedTypeOK' /\ EffectsTidy'
    BY <2>1, <2>4 DEF FeedTypeOK, EffectsTidy
  <2>6. IsNewest(storage[shownIn], kept[shownIn])
    BY <2>1, <2>2 DEF ListsInStep, Settled
  <2>7. ListsInStep'
    BY <2>1, <2>2, <2>6 DEF ListsInStep, AllEffects
  <2>8. QED
    BY <2>4, <2>5, <2>7
<1>8. ASSUME NEW ns \in Namespaces, PhaseChanges(ns)
      PROVE  FeedInv'
  <2>1. /\ phase' \in [Namespaces -> ResourcePhases] /\ happened' \in Nat
        /\ UNCHANGED <<chosen, shownIn, effects, feed, next, due, storage, stream, sent, kept>>
    BY <1>8 DEF PhaseChanges, Change, page, FeedTypeOK
  <2>2. QED
    BY <2>1 DEF FeedTypeOK, EffectsTidy, ListsInStep, WireInOrder, LastIsLast, Following
<1>9. CASE UNCHANGED feedVars
  BY <1>9 DEF feedVars, page, FeedTypeOK, EffectsTidy, ListsInStep, WireInOrder, LastIsLast, Following
<1>10. QED
  BY <1>1, <1>2, <1>3, <1>4, <1>5, <1>6, <1>7, <1>8, <1>9, PollTidies, EventTidies DEF FeedNext

LEMMA FeedInvariant == FeedSpec => []FeedInv
BY FeedInvInit, FeedInvNext, PTL DEF FeedSpec

-----------------------------------------------------------------------------
\* The variables of the notifications keep their types.
THEOREM FeedTyped == FeedSpec => []FeedTypeOK
<1>1. FeedInv => FeedTypeOK
  BY DEF FeedInv
<1>2. QED
  BY <1>1, FeedInvariant, PTL

\* Whatever namespaces the user turns to and however often the page is loaded, every namespace
\* keeps its own newest notifications, each once, on the page and in the storage.
THEOREM FeedsStayApart == FeedSpec => []FeedsAreKept
<1>1. FeedInv => FeedsAreKept
  <2> SUFFICES ASSUME FeedInv, Settled PROVE FeedsAreKept
    BY DEF FeedsAreKept
  <2>1. Following /\ next = feed /\ storage[shownIn] = feed
    BY DEF FeedInv, ListsInStep, Settled, Following
  <2>2. QED
    BY <2>1 DEF FeedInv, ListsInStep, FeedsAreKept
<1>2. QED
  BY <1>1, FeedInvariant, PTL

\* Once what is on its way has arrived, the newest notification of a stream has the phase that
\* the gateway saw last, however often streams were closed, opened again or their lists cleared.
THEOREM FeedsReportTheLast == FeedSpec => []LastChangeIsReported
<1>1. FeedInv => LastChangeIsReported
  <2> SUFFICES ASSUME FeedInv, Settled, stream.wire = <<>>, stream.last # None
               PROVE  /\ feed # <<>> /\ feed[1].time > stream.since => feed[1].phase = stream.last
                      /\ sent = stream.since => stream.last = stream.first
    BY DEF LastChangeIsReported
  <2>1. Following /\ next = feed
    BY DEF FeedInv, ListsInStep, Settled, Following
  <2>2. QED
    BY <2>1 DEF FeedInv, LastIsLast
<1>2. QED
  BY <1>1, FeedInvariant, PTL

-----------------------------------------------------------------------------
(* UnifiedDiff.                                                             *)

\* A loop over elements of T has a value in V.
Iterates(body, value, V, T) == body \in [V \X T -> V] /\ value \in V

\* What the value of a loop is after each of its rounds.
Rounds(after, V, body, value, s) ==
  /\ after \in [0 .. Len(s) -> V]
  /\ after[0] = value
  /\ \A k \in 1 .. Len(s) : after[k] = body[<<after[k - 1], s[k]>>]

LEMMA RoundsExist ==
  ASSUME NEW V, NEW T, NEW body, NEW value, Iterates(body, value, V, T), NEW s \in Seq(T)
  PROVE  \E after : Rounds(after, V, body, value, s)
<1> DEFINE Upto(f, n) == f[0] = value /\ \A k \in 1 .. n : f[k] = body[<<f[k - 1], s[k]>>]
           N == Len(s)
           S == {n \in Nat : \E f \in [0 .. N -> V] : Upto(f, n)}
<1>1. N \in Nat /\ \A k \in 1 .. N : s[k] \in T
  BY LenProperties, ElementOfSeq
<1>2. 0 \in S
  <2>1. [k \in 0 .. N |-> value] \in [0 .. N -> V]
    BY DEF Iterates
  <2>2. 0 \in 0 .. N /\ 1 .. 0 = {}
    BY <1>1
  <2> QED
    BY <2>1, <2>2
<1> HIDE DEF N
<1>3. ASSUME NEW n \in 0 .. N, n < N, n \in S PROVE n + 1 \in S
  <2>1. PICK f \in [0 .. N -> V] : Upto(f, n)
    BY <1>3
  <2>2. f[n] \in V /\ s[n + 1] \in T /\ n + 1 \in 0 .. N
    BY <1>1, <1>3
  <2> DEFINE g == [f EXCEPT ![n + 1] = body[<<f[n], s[n + 1]>>]]
  <2>3. g \in [0 .. N -> V]
    BY <2>2 DEF Iterates
  <2>4. g[0] = value
    BY <1>3, <2>1
  <2>5. ASSUME NEW k \in 1 .. n + 1 PROVE g[k] = body[<<g[k - 1], s[k]>>]
    <3>1. k \in Nat /\ k - 1 \in 0 .. N /\ k \in 0 .. N /\ k - 1 # n + 1
      BY <1>1, <1>3
    <3>2. g[k - 1] = f[k - 1]
      BY <3>1
    <3>3. CASE k = n + 1
      <4>1. n + 1 \in 0 .. N /\ k - 1 = n /\ g[n + 1] = body[<<f[n], s[n + 1]>>]
        BY <1>3, <2>2, <3>3
      <4> QED
        BY <3>2, <3>3, <4>1
    <3>4. CASE k # n + 1
      <4>1. k \in 1 .. n
        BY <1>3, <3>4
      <4>2. g[k] = f[k]
        BY <3>1, <3>4
      <4> QED
        BY <2>1, <3>2, <4>1, <4>2
    <3> QED
      BY <3>3, <3>4
  <2> HIDE DEF g
  <2>6. Upto(g, n + 1)
    BY <2>4, <2>5
  <2> HIDE DEF Upto
  <2> QED
    BY <2>3, <2>6
<1> HIDE DEF S
<1>4. 0 .. N \subseteq S
  BY <1>1, <1>2, <1>3, BoundedInduction
<1>5. PICK f \in [0 .. N -> V] : Upto(f, N)
  <2> HIDE DEF Upto
  <2>1. N \in 0 .. N
    BY <1>1
  <2> QED
    BY <1>4, <2>1 DEF S
<1> QED
  BY <1>1, <1>5 DEF Rounds, N

\* The loop goes through its rounds.
LEMMA LoopRounds ==
  ASSUME NEW V, NEW T, NEW body, NEW value, Iterates(body, value, V, T), NEW s \in Seq(T)
  PROVE  \E after : Rounds(after, V, body, value, s) /\ Loop(body, value, s) = after[Len(s)]
<1> DEFINE N == Len(s)
           Body(after, k) == IF k = 0 THEN value ELSE body[<<after[k - 1], s[k]>>]
           Solves(after) == after = [k \in 0 .. N |-> Body(after, k)]
<1>1. N \in Nat /\ \A k \in 1 .. N : s[k] \in T
  BY LenProperties, ElementOfSeq
<1>2. PICK f : Rounds(f, V, body, value, s)
  BY RoundsExist, Zenon
<1>3. f = [k \in 0 .. N |-> Body(f, k)]
  <2>1. ASSUME NEW k \in 0 .. N PROVE f[k] = Body(f, k)
    <3>1. CASE k = 0
      BY <1>2, <3>1 DEF Rounds
    <3>2. CASE k # 0
      BY <1>1, <1>2, <3>2 DEF Rounds
    <3> QED
      BY <3>1, <3>2
  <2> HIDE DEF Body
  <2> QED
    BY <1>2, <2>1 DEF Rounds
<1> DEFINE after == CHOOSE g : Solves(g)
<1>4. Loop(body, value, s) = after[N]
  BY Zenon DEF Loop
<1>5. Solves(after)
  <2>1. Solves(f)
    BY <1>3
  <2> HIDE DEF Solves
  <2> QED
    BY <2>1, Zenon
<1> HIDE DEF after
<1>6. after = [k \in 0 .. N |-> after[k]] /\ \A k \in 0 .. N : after[k] = Body(after, k)
  <2> HIDE DEF Body
  <2> QED
    BY <1>5, Zenon
<1> HIDE DEF Solves, N
<1>7. 0 \in 0 .. N /\ \A k \in 1 .. N : k \in 0 .. N /\ k - 1 \in 0 .. N /\ k # 0
  BY <1>1
<1>8. after[0] = value /\ \A k \in 1 .. N : after[k] = body[<<after[k - 1], s[k]>>]
  BY <1>6, <1>7, Zenon
<1>9. 0 .. N \subseteq {k \in 0 .. N : after[k] \in V}
  <2> DEFINE S == {k \in 0 .. N : after[k] \in V}
  <2>1. 0 \in S
    BY <1>7, <1>8 DEF Iterates
  <2>2. ASSUME NEW k \in 0 .. N, k < N, k \in S PROVE k + 1 \in S
    <3>1. k + 1 \in 1 .. N /\ (k + 1) - 1 = k
      BY <1>1, <2>2
    <3>2. after[k + 1] = body[<<after[k], s[k + 1]>>] /\ s[k + 1] \in T
      BY <1>1, <1>8, <3>1
    <3> QED
      BY <1>7, <2>2, <3>1, <3>2 DEF Iterates
  <2> HIDE DEF S
  <2>3. 0 .. N \subseteq S
    BY <1>1, <2>1, <2>2, BoundedInduction
  <2> QED
    BY <2>3 DEF S
<1>10. after \in [0 .. N -> V]
  BY <1>6, <1>9
<1> QED
  BY <1>4, <1>8, <1>10 DEF Rounds, N

\* Rounds over the same elements have the same results.
LEMMA RoundsAgree ==
  ASSUME NEW V, NEW T, NEW body, NEW value, Iterates(body, value, V, T), NEW s \in Seq(T),
         NEW r \in Seq(T), NEW f, NEW g,
         Rounds(f, V, body, value, s), Rounds(g, V, body, value, r),
         Len(s) <= Len(r), \A k \in 1 .. Len(s) : r[k] = s[k]
  PROVE  g[Len(s)] = f[Len(s)]
<1> DEFINE N == Len(s)
           M == Len(r)
           S == {k \in 0 .. N : g[k] = f[k]}
<1>1. N \in Nat /\ M \in Nat /\ N <= M
  BY LenProperties
<1>2. 0 \in S
  BY <1>1 DEF Rounds
<1>3. ASSUME NEW k \in 0 .. N, k < N, k \in S PROVE k + 1 \in S
  <2>1. k + 1 \in 1 .. N /\ k + 1 \in 1 .. M /\ (k + 1) - 1 = k /\ k + 1 \in 0 .. N
    BY <1>1, <1>3
  <2>2. f[k + 1] = body[<<f[k], s[k + 1]>>] /\ g[k + 1] = body[<<g[k], r[k + 1]>>]
    BY <2>1 DEF Rounds
  <2> QED
    BY <1>3, <2>1, <2>2
<1> HIDE DEF S, N
<1>4. 0 .. N \subseteq S
  BY <1>1, <1>2, <1>3, BoundedInduction
<1> QED
  BY <1>1, <1>4 DEF S, N

\* A loop over nothing leaves its value.
LEMMA LoopOverNothing ==
  ASSUME NEW V, NEW T, NEW body, NEW value, Iterates(body, value, V, T)
  PROVE  Loop(body, value, <<>>) = value
<1> DEFINE s == <<>>
<1>1. s \in Seq(T)
  BY EmptySeq
<1>2. Len(s) = 0
  OBVIOUS
<1> HIDE DEF s
<1>3. PICK f : Rounds(f, V, body, value, s) /\ Loop(body, value, s) = f[Len(s)]
  BY <1>1, LoopRounds
<1> QED
  BY <1>2, <1>3 DEF Rounds, s

\* One element more is one round more, after the others.
LEMMA LoopAppended ==
  ASSUME NEW V, NEW T, NEW body, NEW value, Iterates(body, value, V, T), NEW s \in Seq(T), NEW e \in T
  PROVE  /\ Loop(body, value, s) \in V
         /\ Loop(body, value, Append(s, e)) = body[<<Loop(body, value, s), e>>]
<1> DEFINE r == Append(s, e)
           N == Len(s)
<1>1. PICK f : Rounds(f, V, body, value, s) /\ Loop(body, value, s) = f[Len(s)]
  BY LoopRounds
<1>2. /\ r \in Seq(T) /\ N \in Nat /\ Len(r) = N + 1 /\ r[N + 1] = e
      /\ \A k \in 1 .. N : r[k] = s[k]
  BY LenProperties, AppendProperties
<1> HIDE DEF r, N
<1>3. PICK g : Rounds(g, V, body, value, r) /\ Loop(body, value, r) = g[Len(r)]
  BY <1>2, LoopRounds
<1>4. g[N] = f[N]
  <2>1. Len(s) <= Len(r) /\ \A k \in 1 .. Len(s) : r[k] = s[k]
    BY <1>2 DEF N
  <2> QED
    BY <1>1, <1>2, <1>3, <2>1, RoundsAgree DEF N
<1>5. N + 1 \in 1 .. Len(r) /\ (N + 1) - 1 = N /\ N \in 0 .. N
  BY <1>2
<1>6. g[N + 1] = body[<<g[N], r[N + 1]>>] /\ f[N] \in V
  BY <1>1, <1>3, <1>5 DEF Rounds, N
<1> QED
  BY <1>1, <1>2, <1>3, <1>4, <1>6 DEF r

\* One element more is one round more, before the others.
LEMMA LoopPrepended ==
  ASSUME NEW V, NEW T, NEW body, NEW value, Iterates(body, value, V, T), NEW s \in Seq(T), NEW e \in T,
         NEW r \in Seq(T), Len(r) = Len(s) + 1, r[1] = e, \A k \in 1 .. Len(s) : r[k + 1] = s[k]
  PROVE  Loop(body, value, r) = Loop(body, body[<<value, e>>], s)
<1> DEFINE N == Len(s)
           first == body[<<value, e>>]
<1>1. N \in Nat /\ Iterates(body, first, V, T)
  BY LenProperties DEF Iterates
<1> HIDE DEF first, N
<1>2. PICK f : Rounds(f, V, body, first, s) /\ Loop(body, first, s) = f[Len(s)]
  BY <1>1, LoopRounds
<1>3. PICK g : Rounds(g, V, body, value, r) /\ Loop(body, value, r) = g[Len(r)]
  BY LoopRounds
<1> DEFINE S == {k \in 0 .. N : g[k + 1] = f[k]}
<1>4. 0 \in S
  <2>1. 1 \in 1 .. Len(r) /\ 1 - 1 = 0
    BY <1>1
  <2>2. g[1] = body[<<g[0], r[1]>>] /\ g[0] = value /\ f[0] = first
    BY <1>2, <1>3, <2>1 DEF Rounds
  <2> QED
    BY <1>1, <2>2 DEF first
<1>5. ASSUME NEW k \in 0 .. N, k < N, k \in S PROVE k + 1 \in S
  <2>1. /\ k + 1 \in 1 .. N /\ (k + 1) - 1 = k /\ k + 1 \in 0 .. N
        /\ (k + 1) + 1 \in 1 .. Len(r) /\ ((k + 1) + 1) - 1 = k + 1
    BY <1>1, <1>5 DEF N
  <2>2. f[k + 1] = body[<<f[k], s[k + 1]>>]
    BY <1>2, <2>1 DEF Rounds
  <2>3. g[(k + 1) + 1] = body[<<g[k + 1], r[(k + 1) + 1]>>]
    <3>1. \A j \in 1 .. Len(r) : g[j] = body[<<g[j - 1], r[j]>>]
      BY <1>3 DEF Rounds
    <3> DEFINE j == (k + 1) + 1
    <3>2. j \in 1 .. Len(r) /\ j - 1 = k + 1
      BY <2>1
    <3> HIDE DEF j
    <3>3. g[j] = body[<<g[k + 1], r[j]>>]
      BY <3>1, <3>2
    <3> QED
      BY <3>3 DEF j
  <2>4. r[(k + 1) + 1] = s[k + 1]
    BY <2>1 DEF N
  <2> QED
    BY <1>5, <2>1, <2>2, <2>3, <2>4
<1> HIDE DEF S, N
<1>6. 0 .. N \subseteq S
  BY <1>1, <1>4, <1>5, BoundedInduction
<1>7. g[N + 1] = f[N]
  BY <1>1, <1>6 DEF S
<1> QED
  BY <1>2, <1>3, <1>7 DEF N, first

-----------------------------------------------------------------------------
\* Texts of one line more.
LEMMA WithoutAppended ==
  ASSUME NEW kind, NEW s \in Seq(EditLines), NEW l \in EditLines
  PROVE  /\ Without(kind, <<>>) = <<>>
         /\ Without(kind, s) \in Seq(Nat)
         /\ Without(kind, Append(s, l)) =
              IF l.kind = kind THEN Without(kind, s) ELSE Append(Without(kind, s), l.text)
<1> DEFINE V == Seq(Nat)
           body == [x \in V \X EditLines |->
                      IF x[2].kind = kind THEN x[1] ELSE Append(x[1], x[2].text)]
<1>1. Iterates(body, <<>>, V, EditLines)
  BY DEF Iterates, EditLines
<1>2. \A x \in V, y \in EditLines :
        body[<<x, y>>] = IF y.kind = kind THEN x ELSE Append(x, y.text)
  OBVIOUS
<1>3. \A r : Without(kind, r) = Loop(body, <<>>, r)
  BY DEF Without
<1> HIDE DEF body, V
<1>4. Loop(body, <<>>, <<>>) = <<>>
  BY <1>1, LoopOverNothing
<1>5. /\ Loop(body, <<>>, s) \in V
      /\ Loop(body, <<>>, Append(s, l)) = body[<<Loop(body, <<>>, s), l>>]
  BY <1>1, LoopAppended
<1> QED
  BY <1>2, <1>3, <1>4, <1>5 DEF V

\* The lines of a diff.
Diff == PatchHeaders \cup PatchTexts

\* The prefix of a line tells its kind.
LEMMA LineReadBack ==
  ASSUME NEW kind \in Kinds, NEW l, l.prefix = Prefix(kind)
  PROVE  Line(l) = [kind |-> kind, text |-> l.text]
<1>1. \A k \in Kinds : Prefix(k) = Prefix(kind) => k = kind
  BY DEF Kinds, Prefix
<1>2. (CHOOSE k \in Kinds : Prefix(k) = l.prefix) = kind
  BY <1>1
<1> QED
  BY <1>2 DEF Line

\* The parser keeps a sequence of hunks.
LEMMA ParsedType ==
  ASSUME NEW hunks \in Seq(Hunks), NEW l \in Diff
  PROVE  Parsed(hunks, l) \in Seq(Hunks)
<1>1. \A k \in Kinds : Prefix(k) # "@@"
  BY DEF Kinds, Prefix
<1>2. CASE l.prefix = "@@"
  <2>1. l \in PatchHeaders
    BY <1>1, <1>2 DEF Diff, PatchTexts
  <2>2. Hunk(l) \in Hunks
    BY <2>1 DEF PatchHeaders, Hunk, Hunks
  <2> QED
    BY <1>2, <2>2 DEF Parsed
<1>3. CASE l.prefix # "@@" /\ hunks = <<>>
  BY <1>3 DEF Parsed
<1>4. CASE l.prefix # "@@" /\ hunks # <<>>
  <2>1. PICK kind \in Kinds : l.prefix = Prefix(kind) /\ l.text \in Nat
    BY <1>4 DEF Diff, PatchHeaders, PatchTexts
  <2>2. Line(l) \in EditLines
    BY <2>1, LineReadBack DEF EditLines
  <2> DEFINE n == Len(hunks)
             last == [hunks[n] EXCEPT !.lines = Append(@, Line(l))]
  <2>3. n \in 1 .. Len(hunks) /\ hunks[n] \in Hunks
    BY <1>4
  <2>4. last \in Hunks
    <3>1. PICK h \in Hunks : h = hunks[n]
      BY <2>3
    <3>2. h.lines \in Seq(EditLines) /\ h.newStart \in Nat /\ h.newCount \in Nat
      BY DEF Hunks
    <3>3. Append(h.lines, Line(l)) \in Seq(EditLines)
      BY <2>2, <3>2, AppendProperties
    <3>4. [h EXCEPT !.lines = Append(h.lines, Line(l))] \in Hunks
      BY <3>3 DEF Hunks
    <3> QED
      BY <3>1, <3>4
  <2>5. Parsed(hunks, l) = [hunks EXCEPT ![n] = last]
    BY <1>4 DEF Parsed
  <2> HIDE DEF last
  <2> QED
    BY <2>3, <2>4, <2>5, ExceptSeq
<1> QED
  BY <1>2, <1>3, <1>4

\* To parse one more line is to parse the others and then that line.
LEMMA ParseAppended ==
  ASSUME NEW patch \in Seq(Diff), NEW l \in Diff
  PROVE  /\ parseUnifiedDiff(<<>>) = <<>>
         /\ parseUnifiedDiff(patch) \in Seq(Hunks)
         /\ parseUnifiedDiff(Append(patch, l)) = Parsed(parseUnifiedDiff(patch), l)
<1> DEFINE V == Seq(Hunks)
           body == [x \in V \X Diff |-> Parsed(x[1], x[2])]
<1>1. \A x \in V, y \in Diff : Parsed(x, y) \in V
  BY ParsedType
<1>2. \A s : parseUnifiedDiff(s) = Loop(body, <<>>, s)
  BY DEF parseUnifiedDiff, Diff
<1>3. <<>> \in V
  OBVIOUS
<1> HIDE DEF V
<1>4. Iterates(body, <<>>, V, Diff) /\ \A x \in V, y \in Diff : body[<<x, y>>] = Parsed(x, y)
  BY <1>1, <1>3 DEF Iterates
<1> HIDE DEF body
<1>5. Loop(body, <<>>, <<>>) = <<>>
  BY <1>4, LoopOverNothing
<1>6. /\ Loop(body, <<>>, patch) \in V
      /\ Loop(body, <<>>, Append(patch, l)) = body[<<Loop(body, <<>>, patch), l>>]
  BY <1>4, LoopAppended
<1> QED
  BY <1>2, <1>4, <1>5, <1>6 DEF V

\* A splice of numbers is a sequence of numbers.
LEMMA SplicedType ==
  ASSUME NEW text \in Seq(Nat), NEW start \in Nat, NEW count \in Nat, NEW items \in Seq(Nat)
  PROVE  Spliced(text, start, count, items) \in Seq(Nat)
<1> DEFINE from == IF start > Len(text) THEN Len(text) ELSE start
<1>1. from \in 0 .. Len(text) /\ from + count + 1 \in Nat \ {0}
  BY LenProperties
<1> HIDE DEF from
<1>2. SubSeq(text, 1, from) \in Seq(Nat)
  BY <1>1, SubSeqProperties
<1>3. SubSeq(text, from + count + 1, Len(text)) \in Seq(Nat)
  BY <1>1, SubSeqProperties
<1> QED
  BY <1>2, <1>3, ConcatProperties DEF Spliced, from

-----------------------------------------------------------------------------
\* ConcatAppend as a formula.
LEMMA ElementAppended ==
  \A S : \A s, t \in Seq(S), e \in S : s \o Append(t, e) = Append(s \o t, e)
BY ConcatAppend, SMTT(40)

\* ConcatAssociative as a formula.
LEMMA PartsJoined ==
  \A S : \A s, t, u \in Seq(S) : (s \o t) \o u = s \o (t \o u)
BY ConcatAssociative, Zenon

\* ConcatAppend for numbers.
LEMMA NumberAppended ==
  \A s, t \in Seq(Nat), e \in Nat : s \o Append(t, e) = Append(s \o t, e)
<1> DEFINE N == Nat
<1> HIDE DEF N
<1>1. \A s, t \in Seq(N), e \in N : s \o Append(t, e) = Append(s \o t, e)
  BY ElementAppended, SMTT(40)
<1> QED
  BY <1>1, Zenon DEF N

\* ConcatAssociative for numbers.
LEMMA NumbersJoined ==
  \A s, t, u \in Seq(Nat) : (s \o t) \o u = s \o (t \o u)
<1> DEFINE N == Nat
<1> HIDE DEF N
<1>1. \A s, t, u \in Seq(N) : (s \o t) \o u = s \o (t \o u)
  BY PartsJoined, SMTT(40)
<1> QED
  BY <1>1, Zenon DEF N

\* A text with a hunk undone is a text.
LEMMA UndoneType ==
  ASSUME NEW text \in Seq(Nat), NEW hunk \in Hunks
  PROVE  Undone(text, hunk) \in Seq(Nat)
<1> DEFINE start == IF hunk.newStart = 0 THEN 0 ELSE hunk.newStart - 1
           items == Without("added", hunk.lines)
<1>1. hunk.newStart \in Nat /\ hunk.newCount \in Nat /\ hunk.lines \in Seq(EditLines)
  BY DEF Hunks
<1>2. start \in Nat
  BY <1>1
<1>3. items \in Seq(Nat)
  <2>1. [kind |-> "context", text |-> 0] \in EditLines
    BY DEF EditLines, Kinds
  <2> QED
    BY <1>1, <2>1, WithoutAppended
<1> HIDE DEF start, items
<1>4. Spliced(text, start, hunk.newCount, items) \in Seq(Nat)
  BY <1>1, <1>2, <1>3, SplicedType
<1> QED
  BY <1>4 DEF Undone, start, items

\* The last hunk is undone first.
LEMMA LastUndoneFirst ==
  ASSUME NEW text \in Seq(Nat), NEW hunks \in Seq(Hunks), NEW hunk \in Hunks
  PROVE  /\ reconstructOriginalText(text, <<>>) = text
         /\ reconstructOriginalText(text, Append(hunks, hunk)) =
              reconstructOriginalText(Undone(text, hunk), hunks)
<1> DEFINE V == Seq(Nat)
           body == [x \in V \X Hunks |-> Undone(x[1], x[2])]
           r == Reversed(Append(hunks, hunk))
           s == Reversed(hunks)
<1>1. \A x \in V, y \in Hunks : Undone(x, y) \in V
  BY UndoneType
<1>2. \A t, h : reconstructOriginalText(t, h) = Loop(body, t, Reversed(h))
  BY DEF reconstructOriginalText
<1>3. text \in V
  OBVIOUS
<1> HIDE DEF V
<1>4. /\ \A v \in V : Iterates(body, v, V, Hunks)
      /\ \A x \in V, y \in Hunks : body[<<x, y>>] = Undone(x, y)
  BY <1>1 DEF Iterates
<1> HIDE DEF body
<1>5. Reversed(<<>>) = <<>>
  BY DEF Reversed
<1>6. s \in Seq(Hunks) /\ Len(s) = Len(hunks) /\ \A k \in 1 .. Len(hunks) : s[k] = hunks[Len(hunks) + 1 - k]
  <2>1. \A k \in 1 .. Len(hunks) : Len(hunks) + 1 - k \in 1 .. Len(hunks)
    BY LenProperties
  <2>2. \A k \in 1 .. Len(hunks) : hunks[Len(hunks) + 1 - k] \in Hunks
    BY <2>1, ElementOfSeq
  <2>3. s = [k \in 1 .. Len(hunks) |-> hunks[Len(hunks) + 1 - k]]
    BY LenProperties DEF Reversed
  <2> QED
    BY <2>2, <2>3, LenProperties, IsASeq
<1>7. /\ r \in Seq(Hunks) /\ Len(r) = Len(s) + 1 /\ r[1] = hunk
      /\ \A k \in 1 .. Len(s) : r[k + 1] = s[k]
  <2> DEFINE both == Append(hunks, hunk)
             n == Len(hunks)
  <2>1. /\ both \in Seq(Hunks) /\ n \in Nat /\ Len(both) = n + 1 /\ both[n + 1] = hunk
        /\ \A k \in 1 .. n : both[k] = hunks[k]
    BY LenProperties, AppendProperties
  <2> HIDE DEF both
  <2>2. \A k \in 1 .. n + 1 : n + 1 + 1 - k \in 1 .. n + 1
    BY <2>1
  <2>3. \A k \in 1 .. n + 1 : both[n + 1 + 1 - k] \in Hunks
    BY <2>1, <2>2, ElementOfSeq
  <2>4. r = [k \in 1 .. n + 1 |-> both[n + 1 + 1 - k]]
    BY <2>1, LenProperties DEF Reversed, both
  <2> HIDE DEF r
  <2>5. r \in Seq(Hunks) /\ Len(r) = n + 1
    BY <2>1, <2>3, <2>4, IsASeq
  <2>6. r[1] = hunk
    BY <2>1, <2>4
  <2>7. ASSUME NEW k \in 1 .. n PROVE r[k + 1] = s[k]
    <3>1. k + 1 \in 1 .. n + 1 /\ n + 1 + 1 - (k + 1) = n + 1 - k /\ n + 1 - k \in 1 .. n
      BY <2>1
    <3> QED
      BY <1>6, <2>1, <2>4, <3>1
  <2> HIDE DEF s
  <2> QED
    BY <1>6, <2>5, <2>6, <2>7
<1> HIDE DEF r, s
<1>8. Loop(body, text, <<>>) = text
  BY <1>3, <1>4, LoopOverNothing
<1>9. Loop(body, text, r) = Loop(body, body[<<text, hunk>>], s)
  <2>1. Iterates(body, text, V, Hunks)
    BY <1>3, <1>4
  <2>2. s \in Seq(Hunks)
    BY <1>6
  <2> QED
    BY <1>7, <2>1, <2>2, LoopPrepended
<1> QED
  BY <1>2, <1>3, <1>4, <1>5, <1>8, <1>9 DEF r, s

\* The lines of two adjacent parts of the edit.
LEMMA WithoutSplit ==
  ASSUME EditTypeOK, NEW kind, NEW i \in 1 .. Len(edit) + 1
  PROVE  \A j \in i - 1 .. Len(edit) :
           Without(kind, SubSeq(edit, 1, j)) =
             Without(kind, SubSeq(edit, 1, i - 1)) \o Without(kind, SubSeq(edit, i, j))
<1> DEFINE W(a, b) == Without(kind, SubSeq(edit, a, b))
           N == Len(edit)
           S == {j \in 0 .. N : j >= i - 1 => W(1, j) = W(1, i - 1) \o W(i, j)}
<1>1. N \in Nat /\ i \in Nat \ {0} /\ edit \in Seq(EditLines) /\ \A k \in 1 .. N : edit[k] \in EditLines
  BY LenProperties DEF EditTypeOK
<1>2. \A a, b : a \in 1 .. N + 1 /\ b \in a - 1 .. N => SubSeq(edit, a, b) \in Seq(EditLines)
  BY <1>1
<1>3. \A a, b : a \in 1 .. N + 1 /\ b \in a - 1 .. N - 1 =>
        SubSeq(edit, a, b + 1) = Append(SubSeq(edit, a, b), edit[b + 1])
  BY <1>1
<1>4. \A a, b : a \in 1 .. N + 1 /\ b \in a - 1 .. N => W(a, b) \in Seq(Nat)
  <2>1. [kind |-> "context", text |-> 0] \in EditLines
    BY DEF EditLines, Kinds
  <2> QED
    BY <1>2, <2>1, WithoutAppended
<1>5. \A a, b : a \in 1 .. N + 1 /\ b \in a - 1 .. N - 1 =>
        W(a, b + 1) = IF edit[b + 1].kind = kind THEN W(a, b) ELSE Append(W(a, b), edit[b + 1].text)
  <2>1. \A b \in 0 .. N - 1 : edit[b + 1] \in EditLines
    BY <1>1
  <2> SUFFICES ASSUME NEW a \in 1 .. N + 1, NEW b \in a - 1 .. N - 1
               PROVE  W(a, b + 1) = IF edit[b + 1].kind = kind THEN W(a, b)
                                    ELSE Append(W(a, b), edit[b + 1].text)
    OBVIOUS
  <2>2. b \in 0 .. N - 1 /\ b \in a - 1 .. N
    BY <1>1
  <2> DEFINE part == SubSeq(edit, a, b)
  <2>3. part \in Seq(EditLines) /\ SubSeq(edit, a, b + 1) = Append(part, edit[b + 1])
    BY <1>2, <1>3, <2>2
  <2> HIDE DEF part
  <2>4. Without(kind, Append(part, edit[b + 1])) =
          IF edit[b + 1].kind = kind THEN Without(kind, part)
          ELSE Append(Without(kind, part), edit[b + 1].text)
    BY <2>1, <2>2, <2>3, WithoutAppended
  <2> QED
    BY <2>3, <2>4 DEF part
<1>6. \A a \in 1 .. N + 1 : W(a, a - 1) = <<>>
  <2>1. [kind |-> "context", text |-> 0] \in EditLines /\ <<>> \in Seq(EditLines)
    BY DEF EditLines, Kinds
  <2>2. Without(kind, <<>>) = <<>>
    BY <2>1, WithoutAppended
  <2>3. \A a \in 1 .. N + 1 : SubSeq(edit, a, a - 1) = <<>>
    BY <1>1
  <2> QED
    BY <2>2, <2>3
<1>7. \A b \in 0 .. N - 1 : edit[b + 1].text \in Nat
  BY <1>1 DEF EditLines
<1> HIDE DEF W, N
<1>8. 0 \in S
  <2>1. CASE i = 1
    <3>1. W(1, 0) = <<>> /\ 1 \in 1 .. N + 1
      BY <1>1, <1>6, <2>1
    <3>2. i - 1 = 0 /\ <<>> \o <<>> = <<>>
      BY <2>1
    <3>3. W(1, 0) = W(1, i - 1) \o W(i, 0)
      BY <2>1, <3>1, <3>2
    <3> QED
      BY <1>1, <3>3
  <2> QED
    BY <1>1, <2>1
<1>9. ASSUME NEW j \in 0 .. N, j < N, j \in S PROVE j + 1 \in S
  <2>1. CASE j + 1 < i - 1
    BY <1>1, <1>9, <2>1
  <2>2. CASE j + 1 = i - 1
    <3>1. W(i, j + 1) = <<>> /\ W(1, j + 1) \in Seq(Nat)
      BY <1>1, <1>4, <1>6, <1>9, <2>2 DEF N
    <3> QED
      BY <1>1, <1>9, <2>2, <3>1
  <2>3. CASE j >= i - 1
    <3> DEFINE x == W(1, i - 1)
               y == W(i, j)
    <3>1. /\ 1 \in 1 .. N + 1 /\ i \in 1 .. N + 1 /\ j \in 1 - 1 .. N - 1 /\ j \in i - 1 .. N - 1
          /\ j \in i - 1 .. N /\ i - 1 \in 1 - 1 .. N /\ j \in 0 .. N - 1
      BY <1>1, <1>9, <2>3 DEF N
    <3>2. x \in Seq(Nat) /\ y \in Seq(Nat) /\ W(1, j) = x \o y
      BY <1>4, <1>9, <2>3, <3>1
    <3>3. /\ W(1, j + 1) = IF edit[j + 1].kind = kind THEN W(1, j) ELSE Append(W(1, j), edit[j + 1].text)
          /\ W(i, j + 1) = IF edit[j + 1].kind = kind THEN y ELSE Append(y, edit[j + 1].text)
      BY <1>5, <3>1
    <3> HIDE DEF x, y
    <3>4. ASSUME NEW t \in Nat PROVE Append(x \o y, t) = x \o Append(y, t)
      BY <3>2, NumberAppended
    <3>5. W(1, j + 1) = x \o W(i, j + 1)
      BY <1>7, <3>1, <3>2, <3>3, <3>4
    <3> QED
      BY <1>9, <1>1, <3>5 DEF x
  <2> QED
    BY <1>1, <1>9, <2>1, <2>2, <2>3
<1> HIDE DEF S
<1>10. 0 .. N \subseteq S
  BY <1>1, <1>8, <1>9, BoundedInduction
<1> QED
  BY <1>1, <1>10, SMTT(40) DEF S, W, N

-----------------------------------------------------------------------------
\* To replace the element just appended is to append the other one.
LEMMA LastReplaced ==
  ASSUME NEW S, NEW s \in Seq(S), NEW e \in S, NEW f \in S
  PROVE  [Append(s, e) EXCEPT ![Len(s) + 1] = f] = Append(s, f)
<1> DEFINE r == Append(s, e)
           t == [r EXCEPT ![Len(s) + 1] = f]
           u == Append(s, f)
<1>1. /\ r \in Seq(S) /\ Len(s) \in Nat /\ Len(r) = Len(s) + 1
      /\ \A k \in 1 .. Len(s) : r[k] = s[k]
  BY LenProperties, AppendProperties
<1>2. u \in Seq(S) /\ Len(u) = Len(s) + 1 /\ u[Len(s) + 1] = f /\ \A k \in 1 .. Len(s) : u[k] = s[k]
  BY <1>1, AppendProperties
<1> HIDE DEF r, u
<1>3. t \in Seq(S) /\ Len(t) = Len(s) + 1 /\ t[Len(s) + 1] = f /\ \A k \in 1 .. Len(s) : t[k] = s[k]
  BY <1>1, ExceptSeq
<1> HIDE DEF t
<1>4. \A k \in 1 .. Len(t) : t[k] = u[k]
  <2>1. \A k \in 1 .. Len(t) : k = Len(s) + 1 \/ k \in 1 .. Len(s)
    BY <1>1, <1>3
  <2> QED
    BY <1>2, <1>3, <2>1
<1>5. t = u
  BY <1>2, <1>3, <1>4, SeqEqual
<1> QED
  BY <1>5 DEF t, u, r

\* An unshown line is a kept one, and so is the first of a block that begins later in the file.
LEMMA EditShape ==
  ASSUME EditTypeOK
  PROVE  /\ Len(edit) \in Nat /\ DOMAIN edit = 1 .. Len(edit)
         /\ \A i \in 1 .. Len(edit) : edit[i] \in EditLines
         /\ Covered \subseteq 1 .. Len(edit)
         /\ \A i \in 1 .. Len(edit) : i \notin Covered => edit[i].kind = "context"
         /\ \A i \in Covered : i > 1 /\ i - 1 \notin Covered => edit[i].kind = "context"
<1> DEFINE N == Len(edit)
<1>1. N \in Nat /\ DOMAIN edit = 1 .. N /\ \A i \in 1 .. N : edit[i] \in EditLines
  BY LenProperties DEF EditTypeOK
<1>2. Context \in Nat /\ Context >= 1
  BY DiffAssumption
<1>3. \A i \in 1 .. N : i \in Near(i)
  BY <1>1, <1>2 DEF Near
<1>4. \A i \in 1 .. N : i > 1 => i \in Near(i - 1)
  BY <1>1, <1>2 DEF Near
<1> HIDE DEF N
<1>5. ASSUME NEW i \in 1 .. N, edit[i].kind # "context" PROVE i \in Covered /\ (i > 1 => i - 1 \in Covered)
  <2>1. i > 1 => i - 1 \in 1 .. N
    BY <1>1
  <2> QED
    BY <1>1, <1>3, <1>4, <1>5, <2>1 DEF Covered
<1>6. Covered \subseteq 1 .. N
  BY <1>1 DEF Covered
<1> QED
  BY <1>1, <1>5, <1>6 DEF N

\* What a hunk shows is a block: all that the diff shows between lines that it does not show.
Blocks(i, j) == i <= j /\ i .. j \subseteq Covered

\* Every shown line is followed by the end of its block.
LEMMA BlockEnds ==
  ASSUME EditTypeOK, NEW i \in Covered
  PROVE  \E j \in Covered : Blocks(i, j) /\ j + 1 \notin Covered
<1> DEFINE S == {j \in Covered : Blocks(i, j)}
<1>1. Covered \subseteq 1 .. Len(edit) /\ Len(edit) \in Nat
  BY EditShape
<1>2. S \in SUBSET Nat /\ i \in S /\ \A j \in S : j <= Len(edit)
  <2>1. i \in Nat /\ Blocks(i, i)
    BY <1>1 DEF Blocks
  <2> HIDE DEF Blocks
  <2>2. i \in S /\ S \subseteq Covered
    BY <2>1
  <2> HIDE DEF S
  <2> QED
    BY <1>1, <2>2
<1> HIDE DEF S
<1>3. PICK n \in S : \A m \in S : m <= n
  BY <1>1, <1>2, GreatestNumber
<1>4. n \in Covered /\ Blocks(i, n) /\ n \in Nat
  BY <1>2, <1>3 DEF S
<1>5. n + 1 \notin Covered
  <2>1. n + 1 \notin S
    BY <1>2, <1>3, <1>4
  <2>2. n + 1 \in Covered => Blocks(i, n + 1)
    BY <1>1, <1>4 DEF Blocks
  <2> QED
    BY <2>1, <2>2 DEF S
<1> QED
  BY <1>4, <1>5

\* Every shown line is preceded by the beginning of its block.
LEMMA BlockBegins ==
  ASSUME EditTypeOK, NEW i \in Covered
  PROVE  \E f \in Covered : Blocks(f, i) /\ f - 1 \notin Covered
<1> DEFINE S == {f \in Covered : Blocks(f, i)}
<1>1. Covered \subseteq 1 .. Len(edit) /\ Len(edit) \in Nat
  BY EditShape
<1>2. S \in SUBSET Nat /\ i \in S
  <2>1. i \in Nat /\ Blocks(i, i)
    BY <1>1 DEF Blocks
  <2> HIDE DEF Blocks
  <2>2. i \in S /\ S \subseteq Covered
    BY <2>1
  <2> HIDE DEF S
  <2> QED
    BY <1>1, <2>2
<1> HIDE DEF S
<1>3. PICK n \in S : \A m \in S : n <= m
  BY <1>2, LeastNumber
<1>4. n \in Covered /\ Blocks(n, i) /\ n \in Nat
  BY <1>2, <1>3 DEF S
<1>5. n - 1 \notin Covered
  <2>1. n - 1 \notin S
    BY <1>2, <1>3, <1>4
  <2>2. n - 1 \in Covered => Blocks(n - 1, i)
    BY <1>1, <1>4 DEF Blocks
  <2> QED
    BY <2>1, <2>2 DEF S
<1> QED
  BY <1>4, <1>5

\* A block has one end.
LEMMA FinalIs ==
  ASSUME EditTypeOK, NEW i \in Covered, NEW j \in Covered, Blocks(i, j), j + 1 \notin Covered
  PROVE  Final(i) = j
<1>1. Covered \subseteq 1 .. Len(edit)
  BY EditShape
<1>2. ASSUME NEW k \in Covered, k >= i /\ i .. k \subseteq Covered /\ k + 1 \notin Covered
      PROVE  k = j
  <2>1. k < j => k + 1 \in i .. j
    BY <1>1, <1>2
  <2>2. j < k => j + 1 \in i .. k
    BY <1>1, <1>2 DEF Blocks
  <2> QED
    BY <1>1, <1>2, <2>1, <2>2 DEF Blocks
<1>3. j >= i /\ i .. j \subseteq Covered /\ j + 1 \notin Covered
  BY <1>1 DEF Blocks
<1> QED
  BY <1>2, <1>3 DEF Final

\* A part of the edit has a text in either version.
LEMMA PartType ==
  ASSUME EditTypeOK, NEW kind, NEW i \in 1 .. Len(edit) + 1, NEW j \in i - 1 .. Len(edit)
  PROVE  /\ SubSeq(edit, i, j) \in Seq(EditLines)
         /\ Without(kind, SubSeq(edit, i, j)) \in Seq(Nat)
         /\ Len(Without(kind, SubSeq(edit, i, j))) \in Nat
<1>1. SubSeq(edit, i, j) \in Seq(EditLines)
  BY EditShape DEF EditTypeOK
<1>2. [kind |-> "context", text |-> 0] \in EditLines
  BY DEF EditLines, Kinds
<1>3. Without(kind, SubSeq(edit, i, j)) \in Seq(Nat)
  BY <1>1, <1>2, WithoutAppended
<1> QED
  BY <1>1, <1>3, LenProperties

\* What a line of the edit adds to the diff is of the types of a diff.
LEMMA PatchLinesType ==
  ASSUME EditTypeOK, NEW i \in 1 .. Len(edit)
  PROVE  /\ i \in Covered => HunkHeader(i) \in PatchHeaders
         /\ [prefix |-> Prefix(edit[i].kind), text |-> edit[i].text] \in PatchTexts
         /\ PatchLines(i) \in Seq(Diff)
<1> DEFINE text == [prefix |-> Prefix(edit[i].kind), text |-> edit[i].text]
<1>1. Len(edit) \in Nat /\ Covered \subseteq 1 .. Len(edit) /\ edit[i] \in EditLines
  BY EditShape
<1>2. ASSUME i \in Covered PROVE HunkHeader(i) \in PatchHeaders
  <2>1. PICK j \in Covered : Blocks(i, j) /\ j + 1 \notin Covered
    BY <1>2, BlockEnds
  <2>2. Final(i) = j
    BY <1>2, <2>1, FinalIs
  <2> DEFINE before == Without("removed", SubSeq(edit, 1, i - 1))
             part == Without("removed", SubSeq(edit, i, j))
  <2>3. /\ 1 \in 1 .. Len(edit) + 1 /\ i - 1 \in 1 - 1 .. Len(edit)
        /\ i \in 1 .. Len(edit) + 1 /\ j \in i - 1 .. Len(edit)
    BY <1>1, <2>1 DEF Blocks
  <2>4. Len(before) \in Nat /\ Len(part) \in Nat
    BY <2>3, PartType
  <2> HIDE DEF before, part
  <2>5. Start("removed", i) = Len(before) + IF part = <<>> THEN 0 ELSE 1
    BY <2>2 DEF Start, before, part
  <2>6. HunkHeader(i) = [prefix |-> "@@", newStart |-> Start("removed", i), newCount |-> Len(part)]
    BY <2>2 DEF HunkHeader, part
  <2> QED
    BY <2>4, <2>5, <2>6 DEF PatchHeaders
<1>3. text \in PatchTexts
  BY <1>1 DEF EditLines, PatchTexts
<1> HIDE DEF text
<1>4. PatchLines(i) = IF i \notin Covered THEN <<>>
                      ELSE (IF i - 1 \in Covered THEN <<>> ELSE <<HunkHeader(i)>>) \o <<text>>
  BY DEF PatchLines, text
<1>5. PatchLines(i) \in Seq(Diff)
  <2>1. text \in Diff /\ (i \in Covered => HunkHeader(i) \in Diff)
    BY <1>2, <1>3 DEF Diff
  <2>2. <<text>> \in Seq(Diff) /\ <<>> \in Seq(Diff)
    BY <2>1
  <2>3. i \in Covered => <<HunkHeader(i)>> \in Seq(Diff)
    BY <2>1
  <2> QED
    BY <1>4, <2>2, <2>3, ConcatProperties
<1> QED
  BY <1>2, <1>3, <1>5 DEF text

\* The patch up to a line of the edit, and the hunks that are read from it.
Written(i) ==
  Loop([x \in Seq(PatchHeaders \cup PatchTexts) \X DOMAIN edit |-> x[1] \o PatchLines(x[2])],
       <<>>, [j \in 1 .. i |-> j])

\* The diff is written line by line.
LEMMA WrittenByLines ==
  ASSUME EditTypeOK
  PROVE  /\ Written(0) = <<>> /\ Patch = Written(Len(edit))
         /\ \A i \in 0 .. Len(edit) : Written(i) \in Seq(Diff)
         /\ \A i \in 1 .. Len(edit) : Written(i) = Written(i - 1) \o PatchLines(i)
<1> DEFINE V == Seq(Diff)
           T == 1 .. Len(edit)
           body == [x \in V \X T |-> x[1] \o PatchLines(x[2])]
           Lines(i) == [j \in 1 .. i |-> j]
<1>1. Len(edit) \in Nat /\ DOMAIN edit = T
  BY EditShape
<1>2. /\ \A i : Written(i) = Loop(body, <<>>, Lines(i))
      /\ Patch = Written(Len(edit))
  BY <1>1 DEF Written, Patch, Diff
<1>3. \A x \in V, y \in T : x \o PatchLines(y) \in V
  BY PatchLinesType, ConcatProperties
<1>4. <<>> \in V
  OBVIOUS
<1> HIDE DEF V
<1>5. Iterates(body, <<>>, V, T) /\ \A x \in V, y \in T : body[<<x, y>>] = x \o PatchLines(y)
  BY <1>3, <1>4 DEF Iterates
<1> HIDE DEF body
<1>6. Lines(0) = <<>>
  OBVIOUS
<1>7. \A i \in 0 .. Len(edit) : Lines(i) \in Seq(T) /\ Len(Lines(i)) = i
  BY <1>1
<1>8. ASSUME NEW i \in 1 .. Len(edit) PROVE Lines(i) = Append(Lines(i - 1), i)
  <2>1. i - 1 \in 0 .. Len(edit) /\ i \in 0 .. Len(edit)
    BY <1>1
  <2>2. /\ Append(Lines(i - 1), i) \in Seq(T) /\ Len(Append(Lines(i - 1), i)) = i
        /\ \A k \in 1 .. i : Append(Lines(i - 1), i)[k] = k
    BY <1>1, <1>7, <2>1
  <2>3. Lines(i) \in Seq(T) /\ Len(Lines(i)) = i /\ \A k \in 1 .. i : Lines(i)[k] = k
    BY <1>1, <1>7, <2>1
  <2> HIDE DEF Lines
  <2> QED
    BY <2>2, <2>3, SeqEqual
<1> HIDE DEF Lines, T
<1>9. Loop(body, <<>>, <<>>) = <<>>
  BY <1>5, LoopOverNothing
<1>10. ASSUME NEW i \in 1 .. Len(edit)
       PROVE  Written(i) = Written(i - 1) \o PatchLines(i) /\ Written(i) \in V /\ Written(i - 1) \in V
  <2>1. i - 1 \in 0 .. Len(edit) /\ i \in T
    BY <1>1 DEF T
  <2>2. Lines(i - 1) \in Seq(T)
    BY <1>7, <2>1
  <2>3. /\ Loop(body, <<>>, Lines(i - 1)) \in V
        /\ Loop(body, <<>>, Append(Lines(i - 1), i)) = body[<<Loop(body, <<>>, Lines(i - 1)), i>>]
    BY <1>5, <2>1, <2>2, LoopAppended
  <2> QED
    BY <1>2, <1>3, <1>5, <1>8, <2>1, <2>3
<1>11. Written(0) = <<>>
  BY <1>2, <1>6, <1>9
<1>12. ASSUME NEW i \in 0 .. Len(edit) PROVE Written(i) \in V
  BY <1>4, <1>10, <1>11
<1> QED
  BY <1>2, <1>10, <1>11, <1>12 DEF V

Read(i) == parseUnifiedDiff(Written(i))

\* The diff is read line by line: an unshown line adds nothing, a shown one its line to the last hunk.
LEMMA ReadByLines ==
  ASSUME EditTypeOK
  PROVE  /\ Read(0) = <<>> /\ parseUnifiedDiff(Patch) = Read(Len(edit))
         /\ \A i \in 0 .. Len(edit) : Read(i) \in Seq(Hunks)
         /\ \A i \in 1 .. Len(edit) :
              /\ i \notin Covered => Read(i) = Read(i - 1)
              /\ i \in Covered /\ i - 1 \in Covered /\ Read(i - 1) # <<>> =>
                   Read(i) = [Read(i - 1) EXCEPT ![Len(Read(i - 1))].lines = Append(@, edit[i])]
              /\ i \in Covered /\ i - 1 \notin Covered =>
                   Read(i) = Append(Read(i - 1),
                                    [newStart |-> HunkHeader(i).newStart,
                                     newCount |-> HunkHeader(i).newCount, lines |-> <<edit[i]>>])
<1> DEFINE text(i) == [prefix |-> Prefix(edit[i].kind), text |-> edit[i].text]
<1>1. \A i \in 0 .. Len(edit) : Written(i) \in Seq(Diff)
  BY WrittenByLines
<1>2. \A i \in 0 .. Len(edit) : Read(i) \in Seq(Hunks)
  <2>1. [prefix |-> "@@", newStart |-> 0, newCount |-> 0] \in Diff
    BY DEF Diff, PatchHeaders
  <2> QED
    BY <1>1, <2>1, ParseAppended DEF Read
<1>3. Read(0) = <<>>
  <2>1. [prefix |-> "@@", newStart |-> 0, newCount |-> 0] \in Diff /\ <<>> \in Seq(Diff)
    BY DEF Diff, PatchHeaders
  <2> QED
    BY <2>1, WrittenByLines, ParseAppended DEF Read
<1>4. ASSUME NEW i \in 1 .. Len(edit)
      PROVE  /\ edit[i].kind \in Kinds /\ text(i).prefix # "@@" /\ Line(text(i)) = edit[i]
             /\ text(i) \in Diff /\ (i \in Covered => HunkHeader(i) \in Diff)
             /\ i - 1 \in 0 .. Len(edit)
  <2>1. edit[i] \in EditLines /\ Len(edit) \in Nat
    BY EditShape
  <2>2. edit[i].kind \in Kinds /\ edit[i] = [kind |-> edit[i].kind, text |-> edit[i].text]
    BY <2>1 DEF EditLines
  <2>3. text(i).prefix = Prefix(edit[i].kind) /\ text(i).text = edit[i].text
    OBVIOUS
  <2>4. Line(text(i)) = edit[i]
    BY <2>2, <2>3, LineReadBack
  <2>5. \A k \in Kinds : Prefix(k) # "@@"
    BY DEF Kinds, Prefix
  <2>6. text(i) \in Diff /\ (i \in Covered => HunkHeader(i) \in Diff)
    BY PatchLinesType DEF Diff
  <2> QED
    BY <2>1, <2>2, <2>3, <2>4, <2>5, <2>6
<1> HIDE DEF text
<1>5. ASSUME NEW i \in 1 .. Len(edit)
      PROVE  Written(i) =
               IF i \notin Covered THEN Written(i - 1)
               ELSE IF i - 1 \in Covered THEN Append(Written(i - 1), text(i))
               ELSE Append(Append(Written(i - 1), HunkHeader(i)), text(i))
  <2> DEFINE p == Written(i - 1)
  <2>1. p \in Seq(Diff) /\ Written(i) = p \o PatchLines(i)
    BY <1>1, <1>4, WrittenByLines
  <2> HIDE DEF p
  <2>2. PatchLines(i) = IF i \notin Covered THEN <<>>
                        ELSE (IF i - 1 \in Covered THEN <<>> ELSE <<HunkHeader(i)>>) \o <<text(i)>>
    BY DEF PatchLines, text
  <2>3. CASE i \notin Covered
    BY <2>1, <2>2, <2>3, ConcatEmptySeq DEF p
  <2>4. CASE i \in Covered /\ i - 1 \in Covered
    <3>1. PatchLines(i) = <<text(i)>>
      BY <2>2, <2>4
    <3>2. p \o <<text(i)>> = Append(p, text(i))
      BY <1>4, <2>1, AppendIsConcat
    <3> QED
      BY <2>1, <2>4, <3>1, <3>2 DEF p
  <2>5. CASE i \in Covered /\ i - 1 \notin Covered
    <3> DEFINE h == HunkHeader(i)
               t == text(i)
    <3>1. h \in Diff /\ t \in Diff /\ <<h>> \in Seq(Diff) /\ <<t>> \in Seq(Diff)
      BY <1>4, <2>5
    <3>2. PatchLines(i) = <<h>> \o <<t>>
      BY <2>2, <2>5
    <3> HIDE DEF h, t
    <3>3. p \o <<h>> = Append(p, h) /\ Append(p, h) \in Seq(Diff)
      BY <2>1, <3>1, AppendIsConcat, AppendProperties
    <3>4. Append(p, h) \o <<t>> = Append(Append(p, h), t)
      BY <3>1, <3>3, AppendIsConcat
    <3>5. p \o (<<h>> \o <<t>>) = (p \o <<h>>) \o <<t>>
      BY <2>1, <3>1, ConcatAssociative
    <3> QED
      BY <2>1, <2>5, <3>2, <3>3, <3>4, <3>5 DEF p, h, t
  <2> QED
    BY <2>3, <2>4, <2>5
<1>6. ASSUME NEW i \in 1 .. Len(edit), i \in Covered, i - 1 \in Covered, Read(i - 1) # <<>>
      PROVE  Read(i) = [Read(i - 1) EXCEPT ![Len(Read(i - 1))].lines = Append(@, edit[i])]
  <2>1. Read(i) = Parsed(Read(i - 1), text(i))
    BY <1>1, <1>4, <1>5, <1>6, ParseAppended DEF Read
  <2> QED
    BY <1>4, <1>6, <2>1 DEF Parsed
<1>7. ASSUME NEW i \in 1 .. Len(edit), i \in Covered, i - 1 \notin Covered
      PROVE  Read(i) = Append(Read(i - 1),
                              [newStart |-> HunkHeader(i).newStart,
                               newCount |-> HunkHeader(i).newCount, lines |-> <<edit[i]>>])
  <2> DEFINE p == Written(i - 1)
             h == HunkHeader(i)
             b == parseUnifiedDiff(p)
             e == Hunk(h)
             c == Append(b, e)
  <2>1. p \in Seq(Diff) /\ h \in Diff /\ text(i) \in Diff
    BY <1>1, <1>4, <1>7
  <2>2. Written(i) = Append(Append(p, h), text(i))
    BY <1>5, <1>7
  <2>3. h.prefix = "@@"
    BY DEF HunkHeader
  <2> HIDE DEF p, h
  <2>4. parseUnifiedDiff(Append(p, h)) = Parsed(b, h) /\ Append(p, h) \in Seq(Diff)
    BY <2>1, ParseAppended, AppendProperties
  <2>5. Parsed(b, h) = c
    BY <2>3 DEF Parsed
  <2>6. Read(i) = Parsed(c, text(i))
    BY <2>1, <2>2, <2>4, <2>5, ParseAppended DEF Read
  <2>7. b \in Seq(Hunks) /\ c \in Seq(Hunks)
    BY <2>1, <2>4, <2>5, ParseAppended
  <2> HIDE DEF b, e
  <2>8. c # <<>> /\ Len(c) = Len(b) + 1 /\ Len(b) \in Nat /\ c[Len(c)] = e
    BY <2>7, LenProperties
  <2>9. Parsed(c, text(i)) = [c EXCEPT ![Len(c)].lines = Append(@, edit[i])]
    BY <1>4, <2>8 DEF Parsed
  <2>10. [c EXCEPT ![Len(c)].lines = Append(@, edit[i])] = Append(b, [e EXCEPT !.lines = Append(@, edit[i])])
    <3> DEFINE g == [e EXCEPT !.lines = Append(@, edit[i])]
    <3>1. e \in Hunks
      BY <2>7, <2>8
    <3>2. e.lines = <<>> /\ edit[i] \in EditLines
      BY EditShape DEF e, Hunk
    <3>3. g \in Hunks
      <4>1. <<edit[i]>> \in Seq(EditLines) /\ Append(<<>>, edit[i]) = <<edit[i]>>
        BY <3>2
      <4>2. e.newStart \in Nat /\ e.newCount \in Nat
        BY <3>1 DEF Hunks
      <4>3. g = [newStart |-> e.newStart, newCount |-> e.newCount, lines |-> <<edit[i]>>]
        BY <3>2, <4>1 DEF e, Hunk
      <4> QED
        BY <4>1, <4>2, <4>3 DEF Hunks
    <3>4. [c EXCEPT ![Len(c)].lines = Append(@, edit[i])] = [c EXCEPT ![Len(b) + 1] = g]
      BY <2>7, <2>8
    <3> HIDE DEF g
    <3>5. [c EXCEPT ![Len(b) + 1] = g] = Append(b, g)
      BY <2>7, <3>1, <3>3, LastReplaced
    <3> QED
      BY <3>4, <3>5 DEF g
  <2>11. [e EXCEPT !.lines = Append(@, edit[i])]
           = [newStart |-> h.newStart, newCount |-> h.newCount, lines |-> <<edit[i]>>]
    BY DEF e, Hunk
  <2> QED
    BY <2>6, <2>9, <2>10, <2>11 DEF Read, b, p, h
<1> QED
  BY <1>2, <1>3, <1>5, <1>6, <1>7, WrittenByLines DEF Read

-----------------------------------------------------------------------------
\* The hunk of a block, after the lines up to i.
HunkOf(f, i) ==
  [newStart |-> HunkHeader(f).newStart, newCount |-> HunkHeader(f).newCount,
   lines |-> SubSeq(edit, f, i)]

\* The hunk read from a block begins with its first line and grows with every other.
LEMMA HunkGrows ==
  ASSUME EditTypeOK, NEW f \in Covered
  PROVE  /\ \A i \in f .. Len(edit) : HunkOf(f, i) \in Hunks
         /\ HunkOf(f, f) = [newStart |-> HunkHeader(f).newStart, newCount |-> HunkHeader(f).newCount,
                            lines |-> <<edit[f]>>]
         /\ \A i \in f .. Len(edit) - 1 :
              HunkOf(f, i + 1) = [HunkOf(f, i) EXCEPT !.lines = Append(@, edit[i + 1])]
<1> DEFINE s == HunkHeader(f).newStart
           c == HunkHeader(f).newCount
<1>1. Len(edit) \in Nat /\ f \in 1 .. Len(edit) /\ edit \in Seq(EditLines) /\ edit[f] \in EditLines
  BY EditShape DEF EditTypeOK
<1>2. s \in Nat /\ c \in Nat
  <2>1. HunkHeader(f) \in PatchHeaders
    BY <1>1, PatchLinesType
  <2> QED
    BY <2>1 DEF PatchHeaders
<1> HIDE DEF s, c
<1>3. \A i : HunkOf(f, i) = [newStart |-> s, newCount |-> c, lines |-> SubSeq(edit, f, i)]
  BY DEF HunkOf, s, c
<1>4. ASSUME NEW i \in f .. Len(edit) PROVE HunkOf(f, i) \in Hunks
  <2> DEFINE p == SubSeq(edit, f, i)
  <2>1. p \in Seq(EditLines)
    BY <1>1
  <2>2. HunkOf(f, i) = [newStart |-> s, newCount |-> c, lines |-> p]
    BY <1>3
  <2> HIDE DEF p
  <2>3. [newStart |-> s, newCount |-> c, lines |-> p] \in Hunks
    BY <1>2, <2>1 DEF Hunks
  <2> QED
    BY <2>2, <2>3
<1>5. SubSeq(edit, f, f) = <<edit[f]>>
  <2> DEFINE p == SubSeq(edit, f, f)
  <2>1. p \in Seq(EditLines) /\ Len(p) = 1 /\ p[1] = edit[f]
    BY <1>1
  <2> HIDE DEF p
  <2>2. <<edit[f]>> \in Seq(EditLines) /\ Len(<<edit[f]>>) = 1 /\ <<edit[f]>>[1] = edit[f]
    BY <1>1
  <2>3. \A k \in 1 .. 1 : p[k] = <<edit[f]>>[k]
    BY <2>1, <2>2
  <2>4. p = <<edit[f]>>
    BY <2>1, <2>2, <2>3, SeqEqual
  <2> QED
    BY <2>4 DEF p
<1>6. ASSUME NEW i \in f .. Len(edit) - 1
      PROVE  HunkOf(f, i + 1) = [HunkOf(f, i) EXCEPT !.lines = Append(@, edit[i + 1])]
  <2> DEFINE p == SubSeq(edit, f, i)
             q == SubSeq(edit, f, i + 1)
             h == HunkOf(f, i)
             g == HunkOf(f, i + 1)
  <2>1. q = Append(p, edit[i + 1])
    BY <1>1
  <2> HIDE DEF p, q
  <2>2. /\ h = [newStart |-> s, newCount |-> c, lines |-> p]
        /\ g = [newStart |-> s, newCount |-> c, lines |-> q]
    BY <1>3 DEF p, q
  <2> HIDE DEF h, g
  <2>3. g = [h EXCEPT !.lines = Append(@, edit[i + 1])]
    <3>1. h.lines = p /\ g = [h EXCEPT !.lines = q]
      BY <2>2
    <3> QED
      BY <2>1, <3>1
  <2> QED
    BY <2>3 DEF h, g
<1> QED
  BY <1>3, <1>4, <1>5, <1>6 DEF s, c

\* The lines of a block are those of one hunk.
LEMMA BlockRead ==
  ASSUME EditTypeOK, NEW f \in Covered, f - 1 \notin Covered, NEW i \in Covered, Blocks(f, i)
  PROVE  Read(i) = Append(Read(f - 1), HunkOf(f, i))
<1> DEFINE N == Len(edit)
           B == Read(f - 1)
           S == {k \in 0 .. N : f <= k /\ k <= i => Read(k) = Append(B, HunkOf(f, k))}
<1>1. N \in Nat /\ Covered \subseteq 1 .. N /\ f \in 1 .. N /\ i \in 1 .. N /\ f - 1 \in 0 .. N
  BY EditShape
<1>2. B \in Seq(Hunks)
  BY <1>1, ReadByLines
<1> HIDE DEF B, N
<1>3. 0 \in S
  BY <1>1
<1>4. ASSUME NEW k \in 0 .. N, k < N, k \in S PROVE k + 1 \in S
  <2>1. k + 1 \in 1 .. N /\ (k + 1) - 1 = k /\ k + 1 \in 0 .. N
    BY <1>1, <1>4
  <2>2. CASE k + 1 = f
    <3>1. Read(f) = Append(B, HunkOf(f, f))
      BY <1>1, ReadByLines, HunkGrows DEF B, N
    <3> QED
      BY <2>1, <2>2, <3>1
  <2>3. CASE f <= k /\ k + 1 <= i
    <3> DEFINE h == HunkOf(f, k)
               g == HunkOf(f, k + 1)
               r == Append(B, h)
    <3>1. /\ k \in f .. i /\ k + 1 \in f .. i
          /\ k \in f .. N - 1 /\ k \in f .. N /\ k + 1 \in f .. N
      BY <1>1, <2>1, <2>3
    <3>2. k \in Covered /\ k + 1 \in Covered /\ Read(k) = r
      BY <1>4, <2>3, <3>1 DEF Blocks
    <3>3. h \in Hunks /\ g \in Hunks /\ g = [h EXCEPT !.lines = Append(@, edit[k + 1])]
      BY <3>1, HunkGrows DEF N
    <3> HIDE DEF h, g
    <3>4. r # <<>> /\ Len(r) = Len(B) + 1 /\ r[Len(B) + 1] = h /\ r \in Seq(Hunks) /\ Len(B) \in Nat
      BY <1>2, <3>3, AppendProperties, LenProperties
    <3>5. [r EXCEPT ![Len(B) + 1] = g] = Append(B, g)
      <4>1. h \in Hunks /\ g \in Hunks
        BY <3>3
      <4> QED
        BY <1>2, <4>1, LastReplaced
    <3> HIDE DEF r
    <3>6. Read(k + 1) = [r EXCEPT ![Len(r)].lines = Append(@, edit[k + 1])]
      BY <2>1, <3>2, <3>4, ReadByLines DEF N
    <3>7. Read(k + 1) = [r EXCEPT ![Len(B) + 1] = g]
      BY <3>3, <3>4, <3>6
    <3>8. Read(k + 1) = Append(B, HunkOf(f, k + 1))
      BY <3>5, <3>7 DEF g
    <3> QED
      BY <2>1, <3>8
  <2>4. CASE k + 1 < f \/ i < k + 1
    BY <1>1, <2>1, <2>4
  <2> QED
    BY <1>1, <2>1, <2>2, <2>3, <2>4
<1> HIDE DEF S
<1>5. 0 .. N \subseteq S
  BY <1>1, <1>3, <1>4, BoundedInduction
<1>6. i \in 0 .. N /\ f <= i /\ i <= i
  BY <1>1 DEF Blocks
<1>7. Read(i) = Append(B, HunkOf(f, i))
  BY <1>5, <1>6 DEF S
<1> QED
  BY <1>7 DEF B

\* A line that is not of the kind left out is the next of the text.
LEMMA KeptLine ==
  ASSUME EditTypeOK, NEW kind, NEW i \in 1 .. Len(edit), edit[i].kind # kind
  PROVE  Without(kind, SubSeq(edit, 1, i)) = Append(Without(kind, SubSeq(edit, 1, i - 1)), edit[i].text)
<1> DEFINE p == SubSeq(edit, 1, i - 1)
<1>1. Len(edit) \in Nat /\ edit[i] \in EditLines
  BY EditShape
<1>2. p \in Seq(EditLines) /\ SubSeq(edit, 1, i) = Append(p, edit[i])
  BY <1>1 DEF EditTypeOK
<1> HIDE DEF p
<1>3. Without(kind, Append(p, edit[i])) = Append(Without(kind, p), edit[i].text)
  BY <1>1, <1>2, WithoutAppended
<1> QED
  BY <1>2, <1>3 DEF p

Old(i) == Without("added", SubSeq(edit, 1, i))
New(i) == Without("removed", SubSeq(edit, 1, i))

\* Undoing the hunks of the lines up to i makes the old lines of the new ones; what follows stays.
Undoes(i) ==
  \A rest \in Seq(Nat) : reconstructOriginalText(New(i) \o rest, Read(i)) = Old(i) \o rest

\* The file before and after the first lines of the edit is a text.
LEMMA VersionsType ==
  ASSUME EditTypeOK, NEW i \in 0 .. Len(edit)
  PROVE  Old(i) \in Seq(Nat) /\ New(i) \in Seq(Nat)
<1>1. 1 \in 1 .. Len(edit) + 1 /\ i \in 1 - 1 .. Len(edit)
  BY EditShape
<1> QED
  BY <1>1, PartType DEF Old, New

\* Before the first line both versions are empty.
LEMMA NothingYet ==
  ASSUME EditTypeOK
  PROVE  Old(0) = <<>> /\ New(0) = <<>>
<1>1. SubSeq(edit, 1, 0) = <<>>
  BY DEF EditTypeOK
<1>2. [kind |-> "context", text |-> 0] \in EditLines /\ <<>> \in Seq(EditLines)
  BY DEF EditLines, Kinds
<1>3. \A kind : Without(kind, <<>>) = <<>>
  BY <1>2, WithoutAppended
<1> QED
  BY <1>1, <1>3 DEF Old, New

\* A line that no hunk shows is in both versions.
LEMMA UnshownLine ==
  ASSUME EditTypeOK, NEW i \in 1 .. Len(edit), i \notin Covered, Undoes(i - 1)
  PROVE  Undoes(i)
<1> DEFINE t == edit[i].text
           S == Seq(Nat)
<1>1. /\ Len(edit) \in Nat /\ edit[i] \in EditLines /\ edit[i].kind = "context"
      /\ i - 1 \in 0 .. Len(edit)
  BY EditShape
<1>2. Read(i) = Read(i - 1) /\ t \in Nat
  BY <1>1, ReadByLines DEF EditLines
<1>3. Old(i) = Append(Old(i - 1), t) /\ New(i) = Append(New(i - 1), t)
  BY <1>1, KeptLine DEF Old, New
<1>4. Old(i - 1) \in S /\ New(i - 1) \in S
  BY <1>1, VersionsType
<1> HIDE DEF t
<1>5. SUFFICES ASSUME NEW rest \in S
               PROVE  reconstructOriginalText(New(i) \o rest, Read(i)) = Old(i) \o rest
  BY DEF Undoes
<1> DEFINE more == <<t>> \o rest
<1>6. more \in S
  BY <1>2
<1>7. ASSUME NEW s \in S PROVE Append(s, t) \o rest = s \o more
  <2>1. Append(s, t) = s \o <<t>> /\ <<t>> \in S
    BY <1>2
  <2>2. (s \o <<t>>) \o rest = s \o (<<t>> \o rest)
    BY <2>1, ConcatAssociative, SMTT(40)
  <2> QED
    BY <2>1, <2>2
<1> HIDE DEF more, S
<1>8. New(i) \o rest = New(i - 1) \o more /\ Old(i) \o rest = Old(i - 1) \o more
  BY <1>3, <1>4, <1>7
<1>9. \A r \in S : reconstructOriginalText(New(i - 1) \o r, Read(i - 1)) = Old(i - 1) \o r
  BY DEF Undoes, S
<1> QED
  BY <1>2, <1>6, <1>8, <1>9

\* A block is undone as one hunk.
LEMMA ShownBlock ==
  ASSUME EditTypeOK, NEW f \in Covered, f - 1 \notin Covered, NEW i \in Covered, i + 1 \notin Covered,
         Blocks(f, i), Undoes(f - 1)
  PROVE  Undoes(i)
<1> DEFINE x == SubSeq(edit, f, i)
           a == New(f - 1)
           o == Old(f - 1)
           b == Without("removed", x)
           d == Without("added", x)
           h == HunkOf(f, i)
<1>1. /\ Len(edit) \in Nat /\ f \in 1 .. Len(edit) /\ i \in 1 .. Len(edit) /\ f <= i
      /\ f - 1 \in 0 .. Len(edit) /\ f \in 1 .. Len(edit) + 1 /\ i \in f - 1 .. Len(edit)
      /\ i \in f .. Len(edit) /\ f + 1 \in 1 .. Len(edit) + 1 /\ i \in (f + 1) - 1 .. Len(edit)
      /\ (f + 1) - 1 = f
  BY EditShape DEF Blocks
<1>2. a \in Seq(Nat) /\ o \in Seq(Nat) /\ b \in Seq(Nat) /\ d \in Seq(Nat)
  BY <1>1, VersionsType, PartType
<1>3. New(i) = a \o b /\ Old(i) = o \o d
  BY <1>1, WithoutSplit DEF New, Old
<1>4. Read(i) = Append(Read(f - 1), h) /\ Read(f - 1) \in Seq(Hunks) /\ h \in Hunks
  BY <1>1, BlockRead, ReadByLines, HunkGrows
<1>5. HunkHeader(f).newCount = Len(b) /\ HunkHeader(f).newStart = Len(a) + IF b = <<>> THEN 0 ELSE 1
  <2>1. Final(f) = i
    BY FinalIs
  <2> QED
    BY <2>1 DEF HunkHeader, Start, New
<1>6. b = <<>> => Len(a) = 0
  <2>1. CASE f = 1
    <3>1. a = <<>>
      BY <2>1, NothingYet
    <3> HIDE DEF a, b
    <3> QED
      BY <3>1
  <2>2. CASE f > 1
    <3> DEFINE e == Without("removed", SubSeq(edit, f + 1, i))
               t == edit[f].text
    <3>1. edit[f].kind = "context" /\ t \in Nat
      BY <1>1, <2>2, EditShape DEF EditLines
    <3>2. New(f) = Append(a, t) /\ New(i) = New(f) \o e /\ e \in Seq(Nat)
      <4>1. New(f) = Append(a, t)
        BY <1>1, <3>1, KeptLine DEF New
      <4>2. New(i) = New(f) \o e
        BY <1>1, WithoutSplit DEF New
      <4>3. e \in Seq(Nat)
        BY <1>1, PartType
      <4> QED
        BY <4>1, <4>2, <4>3
    <3> HIDE DEF a, b, e, t
    <3>3. Len(New(i)) = Len(a) + Len(b)
      BY <1>2, <1>3
    <3>4. Len(New(f)) = Len(a) + 1 /\ New(f) \in Seq(Nat)
      BY <1>2, <3>1, <3>2
    <3>5. Len(New(i)) = Len(New(f)) + Len(e)
      BY <3>2, <3>4
    <3>6. Len(a) \in Nat /\ Len(b) \in Nat /\ Len(e) \in Nat
      BY <1>2, <3>2, LenProperties
    <3>7. Len(b) # 0
      BY <3>3, <3>4, <3>5, <3>6
    <3> QED
      BY <3>7
  <2> QED
    BY <1>1, <2>1, <2>2
<1> SUFFICES ASSUME NEW rest \in Seq(Nat)
             PROVE  reconstructOriginalText(New(i) \o rest, Read(i)) = Old(i) \o rest
  BY DEF Undoes
<1> HIDE DEF a, b, o, d
<1>7. h.newStart = HunkHeader(f).newStart /\ h.newCount = HunkHeader(f).newCount /\ h.lines = x
  BY DEF HunkOf
<1> HIDE DEF h
<1>8. Len(a) \in Nat /\ Len(b) \in Nat
  BY <1>2, LenProperties
<1> DEFINE Joins(s, t, u) == (s \o t) \o u = s \o (t \o u)
<1>15. \A s, t, u \in Seq(Nat) : Joins(s, t, u)
  BY NumbersJoined, Zenon DEF Joins
<1> HIDE DEF Joins
<1>16. Joins(a, b, rest) /\ Joins(a, d, rest) /\ Joins(o, d, rest)
  BY <1>2, <1>15
<1>9. (IF h.newStart = 0 THEN 0 ELSE h.newStart - 1) = Len(a)
  BY <1>5, <1>6, <1>7, <1>8
<1> DEFINE text == a \o (b \o rest)
           more == d \o rest
<1>10. Undone(text, h) = a \o more
  <2>1. /\ text \in Seq(Nat) /\ Len(text) = Len(a) + Len(b) + Len(rest)
        /\ SubSeq(text, 1, Len(a)) = a
    BY <1>2, ConcatProperties, LenProperties
  <2>2. SubSeq(text, Len(a) + Len(b) + 1, Len(text)) = rest
    BY <1>2, <2>1
  <2>3. ~(Len(a) > Len(text))
    BY <1>8, <2>1, LenProperties
  <2> HIDE DEF text
  <2>4. Spliced(text, Len(a), Len(b), d) = (a \o d) \o rest
    BY <2>1, <2>2, <2>3 DEF Spliced
  <2>5. (a \o d) \o rest = a \o (d \o rest)
    BY <1>16, Zenon DEF Joins
  <2>6. Undone(text, h) = Spliced(text, Len(a), Len(b), d)
    BY <1>5, <1>7, <1>9 DEF Undone, d
  <2> QED
    BY <2>4, <2>5, <2>6
<1>11. more \in Seq(Nat) /\ text \in Seq(Nat)
  BY <1>2, ConcatProperties
<1>12. New(i) \o rest = text /\ Old(i) \o rest = o \o more
  <2>1. (a \o b) \o rest = a \o (b \o rest)
    BY <1>16, Zenon DEF Joins
  <2>2. (o \o d) \o rest = o \o (d \o rest)
    BY <1>16, Zenon DEF Joins
  <2> QED
    BY <1>3, <2>1, <2>2
<1> HIDE DEF more, text
<1>13. reconstructOriginalText(text, Append(Read(f - 1), h)) =
         reconstructOriginalText(Undone(text, h), Read(f - 1))
  BY <1>4, <1>11, LastUndoneFirst
<1>14. reconstructOriginalText(a \o more, Read(f - 1)) = o \o more
  BY <1>11 DEF Undoes, a, o
<1> QED
  BY <1>4, <1>10, <1>12, <1>13, <1>14

\* The least counterexample would be the end of a block or a line that is not shown.
LEMMA AllUndone ==
  ASSUME EditTypeOK
  PROVE  Undoes(Len(edit))
<1> DEFINE N == Len(edit)
           Whole(i) == i \in Covered => i + 1 \notin Covered
           Bad == {i \in 0 .. N : Whole(i) /\ ~Undoes(i)}
<1>1. N \in Nat /\ Covered \subseteq 1 .. N
  BY EditShape
<1>2. Undoes(0)
  <2>4. Old(0) = <<>> /\ New(0) = <<>>
    BY NothingYet
  <2>5. Read(0) = <<>>
    BY ReadByLines
  <2>6. \A rest \in Seq(Nat) : <<>> \o rest = rest
    BY ConcatEmptySeq
  <2>7. \A rest \in Seq(Nat) : reconstructOriginalText(rest, <<>>) = rest
    <3>1. [newStart |-> 0, newCount |-> 0, lines |-> <<>>] \in Hunks /\ <<>> \in Seq(Hunks)
      BY DEF Hunks
    <3> QED
      BY <3>1, LastUndoneFirst
  <2> QED
    BY <2>4, <2>5, <2>6, <2>7 DEF Undoes
<1>3. N \notin Covered \/ N + 1 \notin Covered
  BY <1>1
<1> SUFFICES ASSUME Bad # {} PROVE FALSE
  BY <1>1, <1>3
<1>4. Bad \in SUBSET Nat
  BY <1>1
<1> HIDE DEF Bad
<1>5. PICK i \in Bad : \A j \in Bad : i <= j
  BY <1>4, LeastNumber
<1>6. i \in 0 .. N /\ Whole(i) /\ ~Undoes(i)
  BY <1>5 DEF Bad
<1>7. i \in 1 .. N
  BY <1>1, <1>2, <1>6
<1>8. \A j \in 0 .. N : j < i /\ Whole(j) => Undoes(j)
  BY <1>1, <1>5, <1>7 DEF Bad
<1>9. CASE i \notin Covered
  <2>1. i - 1 \in 0 .. N /\ i - 1 < i /\ Whole(i - 1)
    BY <1>1, <1>7, <1>9
  <2> QED
    BY <1>6, <1>7, <1>8, <1>9, <2>1, UnshownLine
<1>10. CASE i \in Covered
  <2>1. PICK f \in Covered : Blocks(f, i) /\ f - 1 \notin Covered
    BY <1>10, BlockBegins
  <2>2. f - 1 \in 0 .. N /\ f - 1 < i /\ Whole(f - 1)
    BY <1>1, <1>7, <2>1 DEF Blocks
  <2>3. Undoes(f - 1)
    BY <1>8, <2>2
  <2> QED
    BY <1>6, <1>10, <2>1, <2>3, ShownBlock
<1> QED
  BY <1>9, <1>10

\* The edit keeps its type.
LEMMA EditTyped == DiffSpec => []EditTypeOK
<1>1. DiffInit => EditTypeOK
  BY DEF DiffInit, EditTypeOK
<1>2. EditTypeOK /\ [DiffNext]_edit => EditTypeOK'
  <2> SUFFICES ASSUME EditTypeOK, [DiffNext]_edit PROVE EditTypeOK'
    OBVIOUS
  <2>1. CASE DiffNext
    <3>1. PICK kind \in Kinds : edit' = Append(edit, [kind |-> kind, text |-> Len(edit) + 1])
      BY <2>1 DEF DiffNext
    <3>2. [kind |-> kind, text |-> Len(edit) + 1] \in EditLines
      BY LenProperties DEF EditTypeOK, EditLines
    <3> QED
      BY <3>1, <3>2, AppendProperties DEF EditTypeOK
  <2>2. CASE UNCHANGED edit
    BY <2>2 DEF EditTypeOK
  <2> QED
    BY <2>1, <2>2
<1> QED
  BY <1>1, <1>2, PTL DEF DiffSpec

\* reconstructOriginalText, from the hunks that parseUnifiedDiff reads, gives back the file as
\* it was before the session, whatever the edit, its length and the context that a diff shows.
THEOREM OriginalTextIsRecovered == DiffSpec => []OriginalIsRecovered
<1>1. EditTypeOK => OriginalIsRecovered
  <2> SUFFICES ASSUME EditTypeOK PROVE OriginalIsRecovered
    OBVIOUS
  <2> DEFINE end == <<0>>
             n == New(Len(edit))
             o == Old(Len(edit))
  <2>1. Undoes(Len(edit)) /\ end \in Seq(Nat)
    BY AllUndone
  <2>2. Len(edit) \in 0 .. Len(edit) /\ SubSeq(edit, 1, Len(edit)) = edit
    BY EditShape DEF EditTypeOK
  <2>3. n = Without("removed", edit) /\ o = Without("added", edit)
    BY <2>2 DEF Old, New
  <2>4. n \in Seq(Nat) /\ o \in Seq(Nat)
    BY <2>2, VersionsType
  <2>5. parseUnifiedDiff(Patch) = Read(Len(edit))
    BY ReadByLines
  <2>6. reconstructOriginalText(n \o end, Read(Len(edit))) = o \o end
    BY <2>1 DEF Undoes
  <2> HIDE DEF n, o
  <2>7. n \o end = Append(n, 0) /\ o \o end = Append(o, 0)
    BY <2>4
  <2> QED
    BY <2>3, <2>5, <2>6, <2>7 DEF OriginalIsRecovered, Split
<1> QED
  BY <1>1, EditTyped, PTL
=============================================================================
