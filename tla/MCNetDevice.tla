----------------------------- MODULE MCNetDevice -----------------------------
(* Two hosts: a and c are tokens of the reader's memory, x of the server's. *)
EXTENDS NetDevice, TLC

CONSTANTS reader, server, a, c, x

TheHome == (a :> reader) @@ (c :> reader) @@ (x :> server)

\* Token2Ip as ReadData needs it: a token stands for the peer with which its
\* data are exchanged.
PeerOf ==
  (reader :> ((a :> server) @@ (c :> reader) @@ (x :> server)))
    @@ (server :> ((a :> reader) @@ (c :> reader) @@ (x :> server)))

\* One token is read into, and both of the reader's are sent to.
TheReads == {<<a, x>>}
ThePuts == {<<x, a>>, <<a, c>>}

\* What NetDeviceProofs assumes of the tokens holds of these.
ASSUME TokensAsAssumed == Routed /\ OneSource /\ SourcesKept
=============================================================================
