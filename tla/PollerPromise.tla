--------------------------- MODULE PollerPromise ---------------------------
(***************************************************************************)
(* What a worker relies on in its poller: an event is reported only for a  *)
(* descriptor that is in the poller at that moment, of a kind that is      *)
(* polled for at that moment or an error, once for each wait, and for one  *)
(* descriptor in the order IN, OUT, error.                                 *)
(***************************************************************************)
CONSTANTS Handles

VARIABLES
  interest,  \* the kinds that may be reported of a handle, if any
  pending,   \* what the last wait found and has not been reported
  report     \* the last report

vars == <<interest, pending, report>>

Kinds == {"in", "out", "err"}

\* What may be reported under interest i.
Wanted(i) == UNION {{h} \X i[h] : h \in Handles}

Init ==
  /\ interest = [h \in Handles |-> {}]
  /\ pending = {}
  /\ report = <<>>

\* The interest in one descriptor changes; what is not wanted any more is
\* dropped.
Change ==
  /\ \E h \in Handles, i \in SUBSET Kinds : interest' = [interest EXCEPT ![h] = i]
  /\ pending' = pending \cap Wanted(interest')
  /\ UNCHANGED report

Collect ==
  /\ pending = {}
  /\ pending' \in SUBSET Wanted(interest)
  /\ UNCHANGED <<interest, report>>

Report(h, e) ==
  /\ <<h, e>> \in pending
  /\ e = "out" => <<h, "in">> \notin pending
  /\ e = "err" => \A k \in {"in", "out"} : <<h, k>> \notin pending
  /\ report' = <<h, e>>
  /\ pending' = pending \ {<<h, e>>}
  /\ UNCHANGED interest

Reporting == \E h \in Handles, e \in Kinds : Report(h, e)

Next == Change \/ Collect \/ Reporting

Spec == Init /\ [][Next]_vars /\ WF_vars(Reporting)
=============================================================================
