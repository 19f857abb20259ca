----------------------------- MODULE ApplyHunks ------------------------------
(***************************************************************************)
(* How the hunks of a diff are applied to the lines of a file              *)
(* (nerve-patch/lib.rs, apply_hunks): copy up to the hunk, then check and  *)
(* take its lines.  A line is anything that can be compared; UnifiedDiff   *)
(* reads the hunks from a diff.                                            *)
(***************************************************************************)
EXTENDS Naturals, Sequences

Ok(v) == [ok |-> TRUE, value |-> v]
Err == [ok |-> FALSE]

(* The lines of a hunk but for those with a mark: the old text without     *)
(* "+", the new one without "-".                                           *)
HunkSide(h, mark) ==
    LET side[k \in 0 .. Len(h.lines)] ==
            IF k = 0 THEN <<>>
            ELSE IF h.lines[k].mark = mark THEN side[k - 1]
            ELSE Append(side[k - 1], h.lines[k].line)
    IN  side[Len(h.lines)]

validate_hunk_counts(h) ==
    /\ Len(HunkSide(h, "+")) = h.old_count
    /\ Len(HunkSide(h, "-")) = h.new_count

(* Mutation: the text of a context or removed line is not compared. *)
consume_original_line_Count(original, at, l) == at < Len(original)

(* consume_original_line for context and removed lines. *)
consume_original_line(original, at, l) ==
    at < Len(original) /\ original[at + 1] = l.line

TakeLine(original, acc, l) ==
    IF ~acc.ok THEN acc
    ELSE [ok |-> l.mark = "+" \/ consume_original_line(original, acc.at, l),
          at |-> IF l.mark = "+" THEN acc.at ELSE acc.at + 1,
          out |-> IF l.mark = "-" THEN acc.out ELSE Append(acc.out, l.line)]

(* The lines a hunk passes over.  It is one line short of what the format  *)
(* means when the hunk has no old lines, for then old_start is the line    *)
(* before it.                                                              *)
HunkTarget(h) == IF h.old_start = 0 THEN 0 ELSE h.old_start - 1

InRange(original, acc, h) == HunkTarget(h) \in acc.at .. Len(original)

(* What is copied before the hunk. *)
CopyUpTo(original, acc, h) ==
    [ok |-> TRUE, at |-> HunkTarget(h),
     out |-> acc.out \o SubSeq(original, acc.at + 1, HunkTarget(h))]

ApplyHunk(original, acc, h) ==
    LET taken[k \in 0 .. Len(h.lines)] ==
            IF k = 0 THEN CopyUpTo(original, acc, h)
            ELSE TakeLine(original, taken[k - 1], h.lines[k])
    IN  IF acc.ok /\ validate_hunk_counts(h) /\ InRange(original, acc, h)
        THEN taken[Len(h.lines)]
        ELSE [acc EXCEPT !.ok = FALSE]

apply_hunks(original, hunks) ==
    LET applied[k \in 0 .. Len(hunks)] ==
            IF k = 0 THEN [ok |-> TRUE, at |-> 0, out |-> <<>>]
            ELSE ApplyHunk(original, applied[k - 1], hunks[k])
        end == applied[Len(hunks)]
    IN  IF end.ok THEN Ok(end.out \o SubSeq(original, end.at + 1, Len(original)))
        ELSE Err

-----------------------------------------------------------------------------
(* A hunk in its place, which is HunkTarget, and what hunks do: they are   *)
(* replaced from the last to the first, so that no position moves under a  *)
(* later one.                                                              *)
OldEnd(h) == HunkTarget(h) + Len(HunkSide(h, "+"))
Splice(text, h) ==
    SubSeq(text, 1, HunkTarget(h)) \o HunkSide(h, "-")
        \o SubSeq(text, OldEnd(h) + 1, Len(text))
Spliced(original, hunks) ==
    LET n == Len(hunks)
        text[k \in 0 .. n] ==
            IF k = 0 THEN original ELSE Splice(text[k - 1], hunks[n - k + 1])
    IN  text[n]

(* The old lines of every hunk stand in the file at the line it names, and *)
(* hunks are in order and apart.                                           *)
HunksFit(original, hunks) ==
    \A k \in DOMAIN hunks :
        /\ OldEnd(hunks[k]) <= Len(original)
        /\ SubSeq(original, HunkTarget(hunks[k]) + 1, OldEnd(hunks[k])) =
              HunkSide(hunks[k], "+")
        /\ k > 1 => OldEnd(hunks[k - 1]) <= HunkTarget(hunks[k])
=============================================================================
