----------------------------- MODULE MCNodeRows -----------------------------
(* Every node class, tables of two rows of any versions. *)
EXTENDS NodeRows

AllClasses == DOMAIN __version
=============================================================================
