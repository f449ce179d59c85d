----------------------- MODULE MCSoundtrackLifecycle -----------------------
(* SoundtrackLifecycle with a few soundtracks, compilations and deletes. *)
EXTENDS SoundtrackLifecycle, TLC

CONSTANTS s1, s2, k1, k2, d1, d2

TwoSounds       == {s1, s2}
TwoCompilations == {k1, k2}
TwoDeleters     == {d1, d2}

Symmetric == Permutations(TwoSounds) \cup Permutations(TwoCompilations)
             \cup Permutations(TwoDeleters)

=============================================================================
