---------------------------- MODULE MCNetOutbound ----------------------------
(* NetOutbound on small instances. *)
EXTENDS NetOutbound
=============================================================================
