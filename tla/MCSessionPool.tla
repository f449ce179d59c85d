---------------------------- MODULE MCSessionPool ----------------------------
(* Values of SessionPool's constants for TLC. *)
EXTENDS SessionPool, TLC

CONSTANTS t1, t2, p1, p2

TwoTabs == {t1, t2}
TwoPlayers == {p1, p2}
=============================================================================
