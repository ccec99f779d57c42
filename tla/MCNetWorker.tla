----------------------------- MODULE MCNetWorker -----------------------------
(* NetWorker on a small instance. *)
EXTENDS NetWorker
=============================================================================
