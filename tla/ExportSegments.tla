--------------------------- MODULE ExportSegments ---------------------------
(***************************************************************************)
(* How an export is cut into segments (src/export/partitioner.rs): the     *)
(* frames 0 .. total-1 are divided over at most render_threads runs of     *)
(* consecutive frames, rendered one after the other.                       *)
(***************************************************************************)
EXTENDS Integers

(* usize::div_ceil; the mutant rounds down.                                *)
MutDivFloor(a, b) == a \div b
DivCeil(a, b) == (a + b - 1) \div b

SegmentCap(total, threads) == IF threads < total THEN threads ELSE total

(* "fps" in the source: the frames of every segment but the last. *)
SegmentSize(total, threads) == DivCeil(total, SegmentCap(total, threads))

SegmentStart(total, threads, i) == i * SegmentSize(total, threads)

(* The last segment stops at the last frame; the mutant forgets to.        *)
MutUnclampedEnd(total, threads, i) ==
    SegmentStart(total, threads, i) + SegmentSize(total, threads)

SegmentEnd(total, threads, i) ==
    LET end == SegmentStart(total, threads, i) + SegmentSize(total, threads)
    IN  IF end < total THEN end ELSE total

(* The loop runs over 0 .. n_segments-1 and breaks once a start is past    *)
(* the last frame.                                                         *)
IsSegment(total, threads, i) ==
    /\ total > 0
    /\ i < SegmentCap(total, threads)
    /\ SegmentStart(total, threads, i) < total
=============================================================================
