---------------------------- MODULE MCMediaStream ----------------------------
(* MediaStream with one request for a file of up to five bytes: requests share *)
(* nothing but what DELETE changes.                                            *)
EXTENDS MediaStream

CONSTANTS r1

OneRequest == {r1}
AnySize    == {0, 1, 2, 5}

Header(kind, from, to) == [form |-> kind, first |-> from, last |-> to]

\* Every header whose numbers are at most one beyond the largest file, and
\* suffixes down to -1.
AllHeaders ==
    {Header("none", 0, 0), Header("malformed", 0, 0)}
    \cup {Header("from", n, 0) : n \in 0..6}
    \cup {Header("suffix", 0, n) : n \in -1..6}
    \cup {Header("span", n, k) : n \in 0..6, k \in -1..6}
=============================================================================
