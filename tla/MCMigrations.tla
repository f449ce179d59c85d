----------------------------- MODULE MCMigrations -----------------------------
(* Migrations has no constants: the chain is the repository's. *)
EXTENDS Migrations
=============================================================================
