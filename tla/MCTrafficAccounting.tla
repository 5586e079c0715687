------------------------- MODULE MCTrafficAccounting -------------------------
(* One node and two users. *)
EXTENDS TrafficAccounting
=============================================================================
