-------------------------- MODULE MCVisitorTotals --------------------------
(***************************************************************************)
(* Two hosts, one of them logged by name.                                  *)
(***************************************************************************)
EXTENDS VisitorTotals
=============================================================================
