---------------------------- MODULE SegmentReceipts ----------------------------
(***************************************************************************)
(* What the segment queue promises about requests that cost money: a       *)
(* result that has been received and kept is kept for good, and its        *)
(* segment is never asked for again, by this run or by any later one.      *)
(***************************************************************************)
CONSTANT Segments

VARIABLES
    kept,     \* segments whose result is in the receipt file
    asked     \* segments asked for, or answered and not yet in the file

Ask(S) ==
    /\ S \subseteq Segments \ kept
    /\ asked' = asked \cup S
    /\ UNCHANGED kept

Keep(S) ==
    /\ S \subseteq asked
    /\ kept' = kept \cup S
    /\ asked' = asked \ S

\* A failed, cancelled or interrupted request.
Forget(S) ==
    /\ S \subseteq asked
    /\ asked' = asked \ S
    /\ UNCHANGED kept

Init == kept = {} /\ asked = {}

Next == \E S \in SUBSET Segments : Ask(S) \/ Keep(S) \/ Forget(S)

Spec == Init /\ [][Next]_<<kept, asked>>
===============================================================================
