----------------------------- MODULE PatchHunks -----------------------------
(* How the hunks of a patch are applied to the lines of one file: applyHunks  *)
(* and its helpers in change/patch.go.  Each hunk is looked for after the      *)
(* place of the one before it, by the strictest comparison that finds it at    *)
(* all, and must be found exactly once; only when every hunk has a place are   *)
(* the lines replaced, from the last place to the first.                       *)
(*                                                                             *)
(* A line of the file is a text and a terminator; a text is a word with or     *)
(* without white space around it.  The code compares texts in four ways, each  *)
(* looser than the one before; the model keeps the strictest and one looser    *)
(* one.  EndOfFile and Context, which no parser sets, are left out.            *)
EXTENDS Naturals, Sequences, SequencesExt, FiniteSets

CONSTANTS
    Words,          \* the texts of lines, white space aside
    Terminators,    \* the line endings files use
    MaxLines,       \* lines of the file
    MaxHunks,       \* hunks of the patch
    MaxHunkLines    \* lines of a hunk

VARIABLES
    file,           \* the file's lines
    from,           \* lineIndex: the first line the next hunk may match
    found,          \* replacements, each with its hunk and the hunk's number
    errors,         \* some hunk has no place, or several
    place,          \* "match", "splice", "done" or "refused"
    left,           \* replacements that are not spliced in yet
    result          \* the lines being written

vars == <<file, from, found, errors, place, left, result>>

(* The end of a last line that has no terminator. *)
Open == "open"

Text == [word : Words, spaced : BOOLEAN]
Line == [text : Text, end : Terminators \cup {Open}]

(* splitFileLines: only the last line may lack a terminator. *)
Files == { f \in UNION { [1..n -> Line] : n \in 0..MaxLines } :
             \A i \in DOMAIN f : f[i].end = Open => i = Len(f) }

(* The parsers' hunks: context, deleted and added lines, at least one.  The    *)
(* patch writes its words without white space.                                 *)
HunkLine == [kind : {" ", "-", "+"}, text : [word : Words, spaced : {FALSE}]]
Hunks == UNION { [1..n -> HunkLine] : n \in 1..MaxHunkLines }

-----------------------------------------------------------------------------

Exact(a, b) == a = b
Loose(a, b) == a.word = b.word

(* The lines of the hunk that the file must have. *)
OldLines(hunk) == SelectSeq(hunk, LAMBDA l : l.kind # "+")

(* patchSequenceEqual by one of the comparisons, at each place from `from` on. *)
SitesBy(comparison, old) ==
    { i \in from..(Len(file) - Len(old) + 1) :
        \A j \in DOMAIN old :
            LET a == file[i + j - 1].text
                b == old[j].text
            IN IF comparison = "exact" THEN Exact(a, b) ELSE Loose(a, b) }

(* seekPatchSequence: the first comparison that finds the lines anywhere       *)
(* decides, whether it finds them once or more often.                          *)
Sites(old) ==
    IF SitesBy("exact", old) # {} THEN SitesBy("exact", old) ELSE SitesBy("loose", old)

(* lineEndingAt: the line's own terminator, the nearest one before it, the     *)
(* nearest one after it, or a line feed.                                       *)
Terminated == { i \in DOMAIN file : file[i].end # Open }
LineEndingAt(at) ==
    LET before == { i \in Terminated : i <= at }
        after  == { i \in Terminated : i > at }
    IN  IF before # {} THEN file[CHOOSE i \in before : \A j \in before : j <= i].end
        ELSE IF after # {} THEN file[CHOOSE i \in after : \A j \in after : i <= j].end
        ELSE "lf"

(* replacementLines: context lines are the file's own, added lines end as the  *)
(* first deleted line does, and what replaces an unterminated end of the file  *)
(* is unterminated.                                                            *)
Replacement(hunk, at) ==
    LET Was(k) == at + Len(OldLines(SubSeq(hunk, 1, k))) - 1   \* line of the k-th hunk line
        first == { k \in DOMAIN hunk :
                     /\ hunk[k].kind = "-"
                     /\ \A m \in 1..(k - 1) : hunk[m].kind # "-" }
        Ending(k) ==
            LET seen == { m \in first : m < k /\ file[Was(m)].end # Open }
            IN  IF seen = {} THEN LineEndingAt(at) ELSE file[Was(CHOOSE m \in seen : TRUE)].end
        New(k) == CASE hunk[k].kind = " " -> <<file[Was(k)]>>
                    [] hunk[k].kind = "+" -> <<[text |-> hunk[k].text, end |-> Ending(k)]>>
                    [] OTHER -> <<>>
        lines == FlattenSeq([k \in DOMAIN hunk |-> New(k)])
        old == Len(OldLines(hunk))
    IN  IF old > 0 /\ file[at + old - 1].end = Open /\ lines # <<>>
        THEN [lines EXCEPT ![Len(lines)].end = Open]
        ELSE lines

-----------------------------------------------------------------------------

Init ==
    /\ file \in Files
    /\ from = 1
    /\ found = <<>>
    /\ errors = FALSE
    /\ place = "match"
    /\ left = 0
    /\ result = <<>>

Place(hunk, at) ==
    found' = Append(found, [start |-> at, old |-> Len(OldLines(hunk)),
                            lines |-> Replacement(hunk, at),
                            hunk |-> hunk, number |-> Len(found) + 1])

(* A hunk whose lines occur once from `from` on; the next one is looked for    *)
(* behind them.                                                                *)
Match(hunk) ==
    /\ place = "match" /\ Len(found) < MaxHunks /\ OldLines(hunk) # <<>>
    /\ Cardinality(Sites(OldLines(hunk))) = 1
    /\ \E at \in Sites(OldLines(hunk)) :
         /\ Place(hunk, at)
         /\ from' = at + Len(OldLines(hunk))
    /\ UNCHANGED <<file, errors, place, left, result>>

(* A hunk that only adds lines goes to the end of the file. *)
Insert(hunk) ==
    /\ place = "match" /\ Len(found) < MaxHunks /\ OldLines(hunk) = <<>>
    /\ Place(hunk, Len(file) + 1)
    /\ UNCHANGED <<file, from, errors, place, left, result>>

(* A hunk that is nowhere, or in several places. *)
Mismatch(hunk) ==
    /\ place = "match" /\ Len(found) < MaxHunks /\ OldLines(hunk) # <<>>
    /\ Cardinality(Sites(OldLines(hunk))) # 1
    /\ errors' = TRUE
    /\ UNCHANGED <<file, from, found, place, left, result>>

\* Mutant: replacements at one place change order.
Sorted_NotStable(replacements) ==
    LET At(i) == SelectSeq(Reverse(replacements), LAMBDA r : r.start = i)
    IN  FlattenSeq([i \in 1..(Len(file) + 1) |-> At(i)])

(* The replacements in the order of their places, those of one place in the    *)
(* order of the patch.                                                         *)
Sorted(replacements) ==
    LET At(i) == SelectSeq(replacements, LAMBDA r : r.start = i)
    IN  FlattenSeq([i \in 1..(Len(file) + 1) |-> At(i)])

(* No hunk is left: one error refuses the whole file. *)
EndMatching ==
    /\ place = "match"
    /\ place' = IF errors THEN "refused" ELSE "splice"
    /\ found' = Sorted(found)
    /\ left' = Len(found)
    /\ result' = file
    /\ UNCHANGED <<file, from, errors>>

(* The last replacement that is left, so that the places of the others stand. *)
Splice ==
    /\ place = "splice" /\ left > 0
    /\ LET r == found[left]
       IN  result' = SubSeq(result, 1, r.start - 1) \o r.lines
                       \o SubSeq(result, r.start + r.old, Len(result))
    /\ left' = left - 1
    /\ UNCHANGED <<file, from, found, errors, place>>

Write ==
    /\ place = "splice" /\ left = 0
    /\ place' = "done"
    /\ UNCHANGED <<file, from, found, errors, left, result>>

Next ==
    \/ \E hunk \in Hunks : Match(hunk) \/ Insert(hunk) \/ Mismatch(hunk)
    \/ EndMatching \/ Splice \/ Write

Spec == Init /\ [][Next]_vars

-----------------------------------------------------------------------------
(* What the patch asks for, line by line: each line of the file, in its place, *)
(* is kept, deleted, or has added lines before it.  `line` is the line of the  *)
(* file it is, or 0.                                                           *)

Own(i) == [text |-> file[i].text, line |-> i]

Wanted(r) ==
    LET Was(k) == r.start + Len(OldLines(SubSeq(r.hunk, 1, k))) - 1
        New(k) == CASE r.hunk[k].kind = " " -> <<Own(Was(k))>>
                    [] r.hunk[k].kind = "+" -> <<[text |-> r.hunk[k].text, line |-> 0]>>
                    [] OTHER -> <<>>
    IN  FlattenSeq([k \in DOMAIN r.hunk |-> New(k)])

Patched ==
    LET Of(n) == CHOOSE r \in ToSet(found) : r.number = n
        At(i) == SelectSeq([n \in DOMAIN found |-> Of(n)], LAMBDA r : r.start = i)
        Covered(i) == \E k \in DOMAIN found :
                         i \in found[k].start..(found[k].start + found[k].old - 1)
        Slot(i) == FlattenSeq([k \in DOMAIN At(i) |-> Wanted(At(i)[k])])
                     \o (IF i > Len(file) \/ Covered(i) THEN <<>> ELSE <<Own(i)>>)
    IN  FlattenSeq([i \in 1..(Len(file) + 1) |-> Slot(i)])

TypeOK ==
    /\ file \in Files /\ from \in 1..(MaxLines + 1) /\ errors \in BOOLEAN
    /\ Len(found) <= MaxHunks /\ left \in 0..Len(found)
    /\ place \in {"match", "splice", "done", "refused"}
    /\ \A i \in DOMAIN result : result[i] \in Line

(* The lines that are written are those the patch asks for, in their order,    *)
(* whatever the order and the sizes of the hunks before them (applyHunks).     *)
AppliedInPlace ==
    place = "done" =>
        /\ Len(result) = Len(Patched)
        /\ \A i \in DOMAIN result : result[i].text = Patched[i].text

(* A line that no hunk deletes keeps its terminator, and no line is joined to  *)
(* the next: "Both update formats are line-ending agnostic and preserve        *)
(* untouched bytes exactly" (tool/apply_patch.go:53).                          *)
UntouchedBytesKept ==
    place = "done" =>
        /\ \A i \in DOMAIN result :
              Patched[i].line > 0 => result[i] = file[Patched[i].line]
        /\ \A i \in 1..(Len(result) - 1) : result[i].end # Open
=============================================================================
