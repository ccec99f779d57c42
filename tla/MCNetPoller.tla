---------------------------- MODULE MCNetPoller ----------------------------
(* The instance of NetPoller that TLC checks. *)
EXTENDS NetPoller
=============================================================================
