--------------------------- MODULE MCDesiredSync ---------------------------
(* One node, its agent and one user, with two credentials in turn. *)
EXTENDS DesiredSync
=============================================================================
