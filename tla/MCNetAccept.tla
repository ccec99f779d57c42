----------------------------- MODULE MCNetAccept -----------------------------
(* NetAccept on small instances. *)
EXTENDS NetAccept
=============================================================================
