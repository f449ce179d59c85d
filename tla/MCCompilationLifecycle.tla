----------------------- MODULE MCCompilationLifecycle -----------------------
(* CompilationLifecycle with two compilations and two deletes or none. *)
EXTENDS CompilationLifecycle

CONSTANTS k1, k2, d1, d2

TwoCompilations == {k1, k2}
TwoDeleters     == {d1, d2}
NoDeleters      == {}

NoEvents == {}

=============================================================================
