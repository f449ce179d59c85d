--------------------------- MODULE MCClipTimeline ---------------------------
(* ClipTimeline with three clips and two patches. *)
EXTENDS ClipTimeline, TLC

CONSTANTS v1, v2, v3, p1, p2

ThreeClips  == {v1, v2, v3}
TwoPatchers == {p1, p2}
\* Two clips of one offset; one recorded later, by a clock that shows less.  The
\* duration of one is unknown.
File(clock, offset, length) == [clock |-> clock, offset |-> offset, duration |-> length]
SomeFiles == {File(1, 0, 2), File(2, 0, 0), File(1, -2, 2)}

\* Move the clip and cut its first half; cut its second half.
Body(first, last, place) == [lo |-> first, hi |-> last, index |-> place]
SomeBodies == {Body({1}, {}, {1}), Body({}, {1}, {})}

Symmetric == Permutations(ThreeClips) \cup Permutations(TwoPatchers)

=============================================================================
