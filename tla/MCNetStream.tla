---------------------------- MODULE MCNetStream -----------------------------
(* The instance of NetStream that TLC checks. *)
EXTENDS NetStream
=============================================================================
