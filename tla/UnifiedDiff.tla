---------------------------- MODULE UnifiedDiff ----------------------------
(***************************************************************************)
(* The file explorer of the web console shows a file before and after a    *)
(* session (lib/unifiedDiff.ts).  It has the file as it is now and a       *)
(* unified diff; the file as it was is computed from them.                 *)
(*                                                                         *)
(* An edit is a sequence of lines, each kept, removed or added; how a diff *)
(* writes it down (Patch) is external.  Texts are never compared, so every *)
(* line has its own, a number.  Left out: names and modes of files, and    *)
(* lines that are taken for headers (removed ones that begin with "-- ").  *)
(***************************************************************************)
EXTENDS Naturals, Sequences

CONSTANTS
  Context,    \* how many lines a diff shows around a change
  MaxLines    \* bound of the model

ASSUME DiffAssumption == Context \in Nat \ {0} /\ MaxLines \in Nat

VARIABLE edit

Kinds == {"context", "added", "removed"}
Prefix(kind) == CASE kind = "context" -> " " [] kind = "added" -> "+" [] kind = "removed" -> "-"

EditLines == [kind : Kinds, text : Nat]
PatchHeaders == [prefix : {"@@"}, newStart : Nat, newCount : Nat]
PatchTexts == [prefix : {Prefix(kind) : kind \in Kinds}, text : Nat]
Hunks == [newStart : Nat, newCount : Nat, lines : Seq(EditLines)]

\* What the loop "for (const x of s)" makes of a value.
Loop(body, value, s) ==
  LET after[k \in 0 .. Len(s)] == IF k = 0 THEN value ELSE body[<<after[k - 1], s[k]>>]
  IN  after[Len(s)]

\* The texts of the lines that are not of a kind.
Without(kind, lines) ==
  Loop([x \in Seq(Nat) \X EditLines |->
          IF x[2].kind = kind THEN x[1] ELSE Append(x[1], x[2].text)],
       <<>>, lines)

\* What split("\n") makes of a file whose lines are all ended: an empty one follows.
Split(texts) == Append(texts, 0)

-----------------------------------------------------------------------------
\* Lines that the diff shows, and where a hunk that begins at one of them ends.
Near(i) == {j \in DOMAIN edit : j + Context >= i /\ j <= i + Context}
Covered == {i \in DOMAIN edit : \E j \in Near(i) : edit[j].kind # "context"}
Final(i) == CHOOSE j \in Covered : j >= i /\ i .. j \subseteq Covered /\ j + 1 \notin Covered

\* Where a hunk begins in one version of the file; with no lines there it names the line before.
Start(kind, i) ==
  Len(Without(kind, SubSeq(edit, 1, i - 1)))
    + IF Without(kind, SubSeq(edit, i, Final(i))) = <<>> THEN 0 ELSE 1

HunkHeader(i) ==
  [prefix |-> "@@", newStart |-> Start("removed", i),
   newCount |-> Len(Without("removed", SubSeq(edit, i, Final(i))))]

\* What the diff has for a line of the edit.
PatchLines(i) ==
  IF i \notin Covered THEN <<>>
  ELSE (IF i - 1 \in Covered THEN <<>> ELSE <<HunkHeader(i)>>)
         \o <<[prefix |-> Prefix(edit[i].kind), text |-> edit[i].text]>>

Patch ==
  Loop([x \in Seq(PatchHeaders \cup PatchTexts) \X DOMAIN edit |-> x[1] \o PatchLines(x[2])],
       <<>>, [i \in DOMAIN edit |-> i])

-----------------------------------------------------------------------------
Hunk(header) == [newStart |-> header.newStart, newCount |-> header.newCount, lines |-> <<>>]
Line(l) == [kind |-> CHOOSE kind \in Kinds : Prefix(kind) = l.prefix, text |-> l.text]

\* Lines before the first hunk are skipped.
Parsed(hunks, l) ==
  IF l.prefix = "@@" THEN Append(hunks, Hunk(l))
  ELSE IF hunks = <<>> THEN hunks
  ELSE [hunks EXCEPT ![Len(hunks)].lines = Append(@, Line(l))]

parseUnifiedDiff(patch) ==
  Loop([x \in Seq(Hunks) \X (PatchHeaders \cup PatchTexts) |-> Parsed(x[1], x[2])], <<>>, patch)

\* text.splice(start, count, ...items)
Spliced(text, start, count, items) ==
  LET from == IF start > Len(text) THEN Len(text) ELSE start IN
  SubSeq(text, 1, from) \o items \o SubSeq(text, from + count + 1, Len(text))

Undone(text, hunk) ==
  Spliced(text, IF hunk.newStart = 0 THEN 0 ELSE hunk.newStart - 1, hunk.newCount,
          Without("added", hunk.lines))

Reversed(s) == [k \in DOMAIN s |-> s[Len(s) + 1 - k]]

\* Mutant of reconstructOriginalText: the hunks are not reversed.
ReconstructForward(text, hunks) ==
  Loop([x \in Seq(Nat) \X Hunks |-> Undone(x[1], x[2])], text, hunks)

\* From the last hunk to the first: the lines before a hunk are still those of the new file.
reconstructOriginalText(text, hunks) ==
  Loop([x \in Seq(Nat) \X Hunks |-> Undone(x[1], x[2])], text, Reversed(hunks))

-----------------------------------------------------------------------------
DiffInit == edit = <<>>

DiffNext ==
  /\ Len(edit) < MaxLines
  /\ \E kind \in Kinds : edit' = Append(edit, [kind |-> kind, text |-> Len(edit) + 1])

DiffSpec == DiffInit /\ [][DiffNext]_edit

EditTypeOK == edit \in Seq(EditLines)

\* The text shown as the one before the session is that text, whatever the edit: with one hunk
\* or several, of any lengths, at the ends of the file, or of a file that was or is now empty.
OriginalIsRecovered ==
  reconstructOriginalText(Split(Without("removed", edit)), parseUnifiedDiff(Patch))
    = Split(Without("added", edit))
=============================================================================
