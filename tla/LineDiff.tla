------------------------------ MODULE LineDiff ------------------------------
(***************************************************************************)
(* Texts as sequences of lines: the diff the user is shown and the hunks     *)
(* that can be accepted one by one (core/src/agent/diff.ts), and the         *)
(* replacement of exact strings (core/src/agent/tools.ts, vscode editText).  *)
(***************************************************************************)
EXTENDS Integers, Sequences, SequencesExt

Line(op, text, at) == [op |-> op, text |-> text, at |-> at]

\* lcsTable: the length of the longest common subsequence of what follows i in
\* a and j in b.
Lcs(a, b) ==
  LET m == Len(a)
      n == Len(b)
      lcs[i \in 0 .. m, j \in 0 .. n] ==
        IF i = m \/ j = n THEN 0
        ELSE IF a[i + 1] = b[j + 1] THEN lcs[i + 1, j + 1] + 1
        ELSE LET down == lcs[i + 1, j]
                 right == lcs[i, j + 1]
             IN IF down >= right THEN down ELSE right
  IN lcs

\* One turn of the loop of diffLines, i lines into a and j into b: a line kept,
\* removed or added, with the line of a it stands at.
DiffStep(a, b, lcs, s) ==
  LET i == s.i
      j == s.j
      more == i < Len(a) /\ j < Len(b)
  IN IF more /\ a[i + 1] = b[j + 1]
       THEN [i |-> i + 1, j |-> j + 1, out |-> Append(s.out, Line("=", a[i + 1], i))]
     ELSE IF i < Len(a) /\ (more => lcs[i + 1, j] >= lcs[i, j + 1])
       THEN [i |-> i + 1, j |-> j, out |-> Append(s.out, Line("-", a[i + 1], i))]
     ELSE IF j < Len(b)
       THEN [i |-> i, j |-> j + 1, out |-> Append(s.out, Line("+", b[j + 1], i))]
     ELSE s

\* The loop after n turns: no more are needed than both texts have lines.
Walk(a, b) ==
  LET lcs == Lcs(a, b)
      walk[n \in 0 .. Len(a) + Len(b)] ==
        IF n = 0 THEN [i |-> 0, j |-> 0, out |-> << >>] ELSE DiffStep(a, b, lcs, walk[n - 1])
  IN walk

\* diffLines, uncapped.
Script(a, b) == Walk(a, b)[Len(a) + Len(b)].out

\* diffLines: no more lines than fit in an approval prompt.
DiffLines(a, b, maxLines) ==
  SubSeq(Script(a, b), 1, IF Len(Script(a, b)) <= maxLines THEN Len(Script(a, b)) ELSE maxLines)

NoHunk == [oldStart |-> 0, oldLines |-> << >>, newLines |-> << >>]

\* computeHunks, a line of the diff after the other: an unchanged one flushes the
\* hunk that is open, another goes into it.
HunkStep(s, l) ==
  IF l.op = "="
    THEN IF s.open THEN [done |-> Append(s.done, s.hunk), open |-> FALSE, hunk |-> NoHunk] ELSE s
    ELSE LET hunk == IF s.open THEN s.hunk ELSE [NoHunk EXCEPT !.oldStart = l.at]
         IN [done |-> s.done, open |-> TRUE, hunk |->
               IF l.op = "-" THEN [hunk EXCEPT !.oldLines = Append(@, l.text)]
               ELSE [hunk EXCEPT !.newLines = Append(@, l.text)]]

HunkScan(script) ==
  LET scan[n \in 0 .. Len(script)] ==
        IF n = 0 THEN [done |-> << >>, open |-> FALSE, hunk |-> NoHunk]
        ELSE HunkStep(scan[n - 1], script[n])
  IN scan

Flushed(s) == IF s.open THEN Append(s.done, s.hunk) ELSE s.done

\* computeHunks: the maximal runs of removed and added lines.
ComputeHunks(a, b) == Flushed(HunkScan(Script(a, b))[Len(Script(a, b))])

\* A plausible slip: the cursor does not move past the lines an accepted hunk replaces.
HunkAppliedInserting(a, hunks, accepted, s, n) ==
  [out |-> (s.out \o SubSeq(a, s.cursor + 1, hunks[n].oldStart))
           \o (IF n \in accepted THEN hunks[n].newLines ELSE hunks[n].oldLines),
   cursor |-> hunks[n].oldStart + IF n \in accepted THEN 0 ELSE Len(hunks[n].oldLines)]

\* applyHunks, a hunk: the lines up to it are kept, and then an accepted one stands
\* for its new lines, another for its old.
HunkApplied(a, hunks, accepted, s, n) ==
  [out |-> (s.out \o SubSeq(a, s.cursor + 1, hunks[n].oldStart))
           \o (IF n \in accepted THEN hunks[n].newLines ELSE hunks[n].oldLines),
   cursor |-> hunks[n].oldStart + Len(hunks[n].oldLines)]

Applied(a, hunks, accepted) ==
  LET applied[n \in 0 .. Len(hunks)] ==
        IF n = 0 THEN [out |-> << >>, cursor |-> 0]
        ELSE HunkApplied(a, hunks, accepted, applied[n - 1], n)
  IN applied

\* applyHunks: all of them, and the rest of the text.
ApplyHunks(a, hunks, accepted) ==
  LET end == Applied(a, hunks, accepted)[Len(hunks)]
  IN end.out \o SubSeq(a, end.cursor + 1, Len(a))

\* spliceText, and the replacement of a range of a document: the range is brought
\* within the text it is applied to.
Splice(text, start, end, replacement) ==
  (SubSeq(text, 1, start) \o replacement) \o SubSeq(text, end + 1, Len(text))

At(text, i, old) ==
  i + Len(old) - 1 <= Len(text) /\ SubSeq(text, i, i + Len(old) - 1) = old

\* countOccurrences, as the places: from the left, none overlapping another.
OccurrenceStep(text, old, s, i) ==
  IF i >= s.free /\ At(text, i, old)
    THEN [places |-> Append(s.places, i), free |-> i + Len(old)]
    ELSE s

OccurrenceScan(text, old) ==
  LET scan[i \in 0 .. Len(text)] ==
        IF i = 0 THEN [places |-> << >>, free |-> 1]
        ELSE OccurrenceStep(text, old, scan[i - 1], i)
  IN scan

Occurrences(text, old) ==
  IF old = << >> THEN << >> ELSE OccurrenceScan(text, old)[Len(text)].places

\* String.replace with a string: in the replacement "$&" stands for what it
\* replaces.
Expanded(new, old) ==
  LET out[n \in 0 .. Len(new)] ==
        IF n = 0 THEN << >>
        ELSE out[n - 1] \o (IF new[n] = "$&" THEN old ELSE <<new[n]>>)
  IN out

Expand(new, old) == Expanded(new, old)[Len(new)]

ReplaceFirst(text, old, new) ==
  LET at == Occurrences(text, old)[1]
  IN Splice(text, at - 1, at + Len(old) - 1, Expand(new, old))

\* split and join: the parts between the places, with the replacement as it is.
PartStep(text, places, old, new, s, n) ==
  [out |-> (s.out \o SubSeq(text, s.cursor + 1, places[n] - 1)) \o new,
   cursor |-> places[n] + Len(old) - 1]

Parts(text, places, old, new) ==
  LET parts[n \in 0 .. Len(places)] ==
        IF n = 0 THEN [out |-> << >>, cursor |-> 0]
        ELSE PartStep(text, places, old, new, parts[n - 1], n)
  IN parts

ReplaceEvery(text, old, new) ==
  LET places == Occurrences(text, old)
      end == Parts(text, places, old, new)[Len(places)]
  IN end.out \o SubSeq(text, end.cursor + 1, Len(text))

Fence == "fence"

\* stripCodeFences: from after the fence the text begins with to before its last.
StripCodeFences(text) ==
  IF Len(text) < 2 \/ text[1] # Fence THEN text
  ELSE LET rest == Tail(text)
           closing == {i \in DOMAIN rest : rest[i] = Fence}
       IN IF closing = {} THEN rest
          ELSE SubSeq(rest, 1, (CHOOSE i \in closing : \A k \in closing : i >= k) - 1)
=============================================================================
