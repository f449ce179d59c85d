-------------------------- MODULE MCRenderProgress --------------------------
(* RenderProgress with two clients for TLC. *)
EXTENDS RenderProgress

CONSTANTS c1, c2

TwoClients == {c1, c2}

NoEvents == {}

=============================================================================
