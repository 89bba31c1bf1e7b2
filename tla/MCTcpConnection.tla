--------------------------- MODULE MCTcpConnection ---------------------------
EXTENDS TcpConnection

Modes(client, server) == [e \in Ends |-> IF e = "client" THEN client ELSE server]

\* ECN at both ends, at a server that only accepts it, and not offered by the client.
\* The two ends then agree on whether the client's offer is taken.
MatchingModes == {Modes("On", "On"), Modes("On", "AcceptOnly"), Modes("AcceptOnly", "On")}
=============================================================================
