------------------------------ MODULE RangeSet ------------------------------
(***************************************************************************)
(* download.RangeSet (internal/download/rangeset.go): the sorted list of   *)
(* half-open intervals that records which bytes of a file are on disk.     *)
(* An interval is <<start, end>>. A loop over the interval slice is a      *)
(* recursive function: the loop's variables after n iterations.            *)
(***************************************************************************)
EXTENDS Integers, Sequences, FiniteSets

Seqs == INSTANCE SequencesExt

CONSTANT FileEnd  \* bound: offsets are below FileEnd

ASSUME FileEndAssumption == FileEnd \in Nat \ {0}

VARIABLES
    intervals,  \* RangeSet.intervals
    added       \* history: the bytes passed to Add so far

rangeVars == <<intervals, added>>

-----------------------------------------------------------------------------
(* The operations as operators on an interval list.                        *)

Smaller(a, b) == IF a < b THEN a ELSE b
Larger(a, b)  == IF a > b THEN a ELSE b

\* Mutant: adjacent intervals are not merged.
MergeStepStrict(acc, iv) ==
    IF iv[2] <= acc.new[1]
    THEN [acc EXCEPT !.merged = Append(@, iv)]
    ELSE IF iv[1] >= acc.new[2]
    THEN [acc EXCEPT !.merged = IF acc.inserted THEN Append(@, iv)
                                ELSE @ \o <<acc.new, iv>>,
                     !.inserted = TRUE]
    ELSE [acc EXCEPT !.new = <<Smaller(iv[1], acc.new[1]), Larger(iv[2], acc.new[2])>>]

\* One iteration of Add's loop: iv lies before the new interval, after it, or
\* touches it and is absorbed.
MergeStep(acc, iv) ==
    IF iv[2] < acc.new[1]
    THEN [acc EXCEPT !.merged = Append(@, iv)]
    ELSE IF iv[1] > acc.new[2]
    THEN [acc EXCEPT !.merged = IF acc.inserted THEN Append(@, iv)
                                ELSE @ \o <<acc.new, iv>>,
                     !.inserted = TRUE]
    ELSE [acc EXCEPT !.new = <<Smaller(iv[1], acc.new[1]), Larger(iv[2], acc.new[2])>>]

\* Add's loop.
Merging(ivs, new) ==
    LET acc[n \in 0..Len(ivs)] ==
            IF n = 0 THEN [merged |-> <<>>, new |-> new, inserted |-> FALSE]
            ELSE MergeStep(acc[n - 1], ivs[n])
    IN  acc

Add(ivs, offset, length) ==
    IF length <= 0 THEN ivs
    ELSE LET acc == Merging(ivs, <<offset, offset + length>>)[Len(ivs)]
         IN  IF acc.inserted THEN acc.merged ELSE Append(acc.merged, acc.new)

\* Mutant: the search compares the intervals' starts.
FirstStartingFrom(ivs, start) == Seqs!SelectInSeq(ivs, LAMBDA iv : iv[1] >= start)

\* sort.Search of Contains: the first interval that ends after start (0 when
\* there is none).
FirstEndingAfter(ivs, start) == Seqs!SelectInSeq(ivs, LAMBDA iv : iv[2] > start)

Contains(ivs, offset, length) ==
    \/ length <= 0
    \/ LET idx == FirstEndingAfter(ivs, offset)
       IN  idx # 0 /\ ivs[idx][1] <= offset /\ ivs[idx][2] >= offset + length

IsComplete(ivs, totalSize) == totalSize <= 0 \/ Contains(ivs, 0, totalSize)

\* Mutant: intervals beyond the file's end are not skipped.
GapStepNoBreak(acc, iv, totalSize) ==
    [gaps |-> IF iv[1] > acc.pos THEN Append(acc.gaps, <<acc.pos, iv[1]>>) ELSE acc.gaps,
     pos  |-> Larger(iv[2], acc.pos)]

\* One iteration of Gaps' loop; the break is a state that no longer changes.
GapStep(acc, iv, totalSize) ==
    IF iv[1] >= totalSize THEN acc
    ELSE [gaps |-> IF iv[1] > acc.pos
                   THEN Append(acc.gaps, <<acc.pos, Smaller(iv[1], totalSize)>>)
                   ELSE acc.gaps,
          pos  |-> Larger(iv[2], acc.pos)]

\* Gaps' loop.
Seeking(ivs, totalSize) ==
    LET acc[n \in 0..Len(ivs)] ==
            IF n = 0 THEN [gaps |-> <<>>, pos |-> 0]
            ELSE GapStep(acc[n - 1], ivs[n], totalSize)
    IN  acc

Gaps(ivs, totalSize) ==
    IF totalSize <= 0 THEN <<>>
    ELSE LET acc == Seeking(ivs, totalSize)[Len(ivs)]
         IN  IF acc.pos < totalSize THEN Append(acc.gaps, <<acc.pos, totalSize>>)
             ELSE acc.gaps

\* The length of the part of an interval within the file.
ClampedLength(iv, totalSize) == Larger(0, Smaller(iv[2], totalSize) - Larger(iv[1], 0))

\* The loop of coveredBytes.
Counting(ivs, totalSize) ==
    LET acc[n \in 0..Len(ivs)] ==
            IF n = 0 THEN 0 ELSE acc[n - 1] + ClampedLength(ivs[n], totalSize)
    IN  acc

\* coveredBytes of manager.go, the progress shown to the user.
CoveredBytes(ivs, totalSize) ==
    IF totalSize <= 0 THEN 0 ELSE Smaller(Counting(ivs, totalSize)[Len(ivs)], totalSize)

-----------------------------------------------------------------------------
(* A RangeSet and its history; Transfer calls AddRange.                    *)

Init == intervals = <<>> /\ added = {}

AddRange(offset, length) ==
    /\ intervals' = Add(intervals, offset, length)
    /\ added' = added \cup (offset .. offset + length - 1)

-----------------------------------------------------------------------------
Bytes(iv) == iv[1] .. iv[2] - 1
Covered(ivs) == UNION {Bytes(ivs[i]) : i \in 1..Len(ivs)}
Increasing(ivs) == \A i \in 1..Len(ivs) : /\ ivs[i][1] < ivs[i][2]
                                          /\ i < Len(ivs) => ivs[i][2] < ivs[i + 1][1]

\* After any history of Add calls the list is sorted, without empty,
\* overlapping or touching intervals, and covers exactly the bytes added: no
\* byte is lost by a merge and none is invented (rangeset.go: Add).
AddIsUnion == Increasing(intervals) /\ Covered(intervals) = added

\* The binary search agrees with the set of bytes for every query, empty and
\* out-of-file ones included, so a read is let through exactly when all of
\* its bytes have been written (rangeset.go: Contains, IsComplete).
ContainsIsSubset ==
    /\ \A offset \in 0..FileEnd, length \in 0..FileEnd :
          Contains(intervals, offset, length) <=>
              (offset .. offset + length - 1) \subseteq added
    /\ \A n \in 0..FileEnd : IsComplete(intervals, n) <=> (0 .. n - 1) \subseteq added

\* For every file size, also one below what was already downloaded, Gaps
\* returns the missing bytes as maximal intervals in increasing order, and the
\* progress shown to the user is the rest of the file (rangeset.go: Gaps;
\* manager.go: Start resumes at the first gap, coveredBytes).
GapsAreComplement ==
    \A n \in 0..FileEnd :
        /\ Covered(Gaps(intervals, n)) = (0 .. n - 1) \ added
        /\ Increasing(Gaps(intervals, n))
        /\ CoveredBytes(intervals, n) = n - Cardinality(Covered(Gaps(intervals, n)))
=============================================================================
