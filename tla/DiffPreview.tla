---------------------------- MODULE DiffPreview ----------------------------
(***************************************************************************)
(* The diff a user of `brain chat` sees before approving write_file and    *)
(* after a tool changed a file (cmd/diff_preview.go): a longest common     *)
(* subsequence, or a line by line comparison of large files, of which an   *)
(* excerpt is shown under a header of counts and line numbers.             *)
(*                                                                         *)
(* One step compares any two files; the property relates the preview to    *)
(* what the two files really are.  A file is a sequence of lines and  *)
(* a flag for the newline behind the last.                                 *)
(***************************************************************************)
EXTENDS Integers, Sequences, FiniteSets, FiniteSetsExt, SequencesExt

CONSTANTS
    DfLines,     \* texts of a line
    DfMaxLines,  \* bound: lines of a file
    DfTable,     \* the table size above which the fallback is used (40000)
    DfRooms      \* values of maxLines - 4

VARIABLE dfShown     \* the files compared and their preview

DfOp(kind, text) == [kind |-> kind, text |-> text]

(* splitDiffLines forgets whether the last line ended with a newline.        *)
DfSplit(file) == file.lines

(* dp[i][j]: common lines of the files from line i + 1 and j + 1 on.         *)
DfCommon(old, new) ==
    LET n == Len(old)
        m == Len(new)
        dp[i \in 0..n, j \in 0..m] ==
            IF i = n \/ j = m THEN 0
            ELSE IF old[i + 1] = new[j + 1] THEN dp[i + 1, j + 1] + 1
            ELSE Max({dp[i + 1, j], dp[i, j + 1]})
    IN dp

DfAll(kind, lines) == [i \in DOMAIN lines |-> DfOp(kind, lines[i])]

(* A walk that, where the lines differ, always drops the old one first.      *)
DfWalkGreedy(old, new) ==
    LET n == Len(old)
        m == Len(new)
        walk[i \in 0..n, j \in 0..m] ==
            IF i = n \/ j = m
            THEN DfAll("-", SubSeq(old, i + 1, n)) \o DfAll("+", SubSeq(new, j + 1, m))
            ELSE IF old[i + 1] = new[j + 1]
            THEN <<DfOp(" ", old[i + 1])>> \o walk[i + 1, j + 1]
            ELSE <<DfOp("-", old[i + 1])>> \o walk[i + 1, j]
    IN walk[0, 0]

(* The walk through the table: a removal before an addition on a tie.        *)
DfWalk(old, new) ==
    LET n == Len(old)
        m == Len(new)
        dp == DfCommon(old, new)
        walk[i \in 0..n, j \in 0..m] ==
            IF i = n \/ j = m
            THEN DfAll("-", SubSeq(old, i + 1, n)) \o DfAll("+", SubSeq(new, j + 1, m))
            ELSE IF old[i + 1] = new[j + 1]
            THEN <<DfOp(" ", old[i + 1])>> \o walk[i + 1, j + 1]
            ELSE IF dp[i + 1, j] >= dp[i, j + 1]
            THEN <<DfOp("-", old[i + 1])>> \o walk[i + 1, j]
            ELSE <<DfOp("+", new[j + 1])>> \o walk[i, j + 1]
    IN walk[0, 0]

(* fallbackDiffLines: line i of one file against line i of the other.        *)
DfFallback(old, new) ==
    FlattenSeq([i \in 1..Max({Len(old), Len(new)}) |->
        IF i <= Len(old) /\ i <= Len(new) /\ old[i] = new[i]
        THEN <<DfOp(" ", old[i])>>
        ELSE (IF i <= Len(old) THEN <<DfOp("-", old[i])>> ELSE <<>>)
             \o (IF i <= Len(new) THEN <<DfOp("+", new[i])>> ELSE <<>>)])

DfDiff(old, new) ==
    IF Len(old) * Len(new) > DfTable THEN DfFallback(old, new) ELSE DfWalk(old, new)

DfCount(ops, kinds) == Cardinality({i \in DOMAIN ops : ops[i].kind \in kinds})

DfChanges(ops) == {i \in DOMAIN ops : ops[i].kind # " "}

(* excerptDiffOps: one line before the first change, then as many as there   *)
(* is room for, and one more when the cut would fall behind a change.        *)
DfExcerpt(ops, room) ==
    IF room <= 0 \/ DfChanges(ops) = {}
    THEN [ops |-> <<>>, truncated |-> room <= 0 /\ ops # <<>>, oldStart |-> 0,
          newStart |-> 0, oldCount |-> 0, newCount |-> 0]
    ELSE LET first == Min(DfChanges(ops))
             start == IF first > 1 THEN first - 2 ELSE 0
             cut   == Min({start + room, Len(ops)})
             end   == IF cut < Len(ops) /\ ops[cut].kind # " " THEN cut + 1 ELSE cut
             shown == SubSeq(ops, start + 1, end)
             skip  == SubSeq(ops, 1, start)
         IN [ops       |-> shown,
             truncated |-> \E i \in DfChanges(ops) : i > end,
             oldStart  |-> 1 + DfCount(skip, {" ", "-"}),
             newStart  |-> 1 + DfCount(skip, {" ", "+"}),
             oldCount  |-> DfCount(shown, {" ", "-"}),
             newCount  |-> DfCount(shown, {" ", "+"})]

(* buildPreExecPreview and buildPostExecDiff: nothing when no line changed.  *)
DfPreview(old, new, room) ==
    LET ops == DfDiff(DfSplit(old), DfSplit(new))
    IN [ops |-> ops, added |-> DfCount(ops, {"+"}), removed |-> DfCount(ops, {"-"}),
        exc |-> IF DfChanges(ops) = {} THEN DfExcerpt(<<>>, 0) ELSE DfExcerpt(ops, room)]

DfFiles ==
    {[lines |-> l, newline |-> b] : l \in BoundedSeq(DfLines, DfMaxLines), b \in BOOLEAN}

DfInit == dfShown = [at |-> "before"]

DfShow(old, new, room) ==
    /\ dfShown.at = "before"
    /\ dfShown' = [at |-> "shown", old |-> old, new |-> new, room |-> room]
                    @@ DfPreview(old, new, room)

DfNext == \E old, new \in DfFiles, room \in DfRooms : DfShow(old, new, room)

DfSpec == DfInit /\ [][DfNext]_dfShown

-----------------------------------------------------------------------------
DfTexts(ops, kinds) ==
    LET s == SelectSeq(ops, LAMBDA op : op.kind \in kinds)
    IN [i \in DOMAIN s |-> s[i].text]

(* The lengths of the common subsequences of two sequences.                  *)
DfKept(ops) == DfCount(ops, {" "})

DfSubSeqs(s) ==
    {LET idx == SetToSortSeq(I, LAMBDA a, b : a < b)
     IN [k \in DOMAIN idx |-> s[idx[k]]] : I \in SUBSET DOMAIN s}

(* The preview tells the truth about the two files: the operations turn the  *)
(* old lines into the new ones and keep as many lines as can be kept (unless *)
(* the table would be too large); the shown lines are the lines that the @@  *)
(* header numbers, in both files; and a preview without "..." shows every    *)
(* change (diffLines, fallbackDiffLines, excerptDiffOps).                    *)
DfPreviewTruthful ==
    dfShown.at = "shown" =>
        LET old == dfShown.old.lines
            new == dfShown.new.lines
            exc == dfShown.exc
        IN /\ DfTexts(dfShown.ops, {" ", "-"}) = old
           /\ DfTexts(dfShown.ops, {" ", "+"}) = new
           /\ Len(old) * Len(new) <= DfTable =>
                 DfKept(dfShown.ops) =
                    Max({Len(s) : s \in DfSubSeqs(old) \cap DfSubSeqs(new)})
           /\ exc.ops # <<>> =>
                 /\ DfTexts(exc.ops, {" ", "-"}) =
                       SubSeq(old, exc.oldStart, exc.oldStart + exc.oldCount - 1)
                 /\ DfTexts(exc.ops, {" ", "+"}) =
                       SubSeq(new, exc.newStart, exc.newStart + exc.newCount - 1)
                 /\ Len(exc.ops) <= dfShown.room + 1
           /\ ~exc.truncated =>
                 DfCount(exc.ops, {"+", "-"}) = dfShown.added + dfShown.removed
=============================================================================
