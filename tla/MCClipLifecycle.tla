--------------------------- MODULE MCClipLifecycle ---------------------------
(* ClipLifecycle with one or two clips and a delete. *)
EXTENDS ClipLifecycle

CONSTANTS v1, v2, d1

OneClip    == {v1}
TwoClips   == {v1, v2}
OneDeleter == {d1}

NoEvents == {}

=============================================================================
