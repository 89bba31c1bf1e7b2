-------------------------- MODULE MCTrafficControl --------------------------
EXTENDS TrafficControl

\* For a device queue counted in packets: every packet has size 1.
MixedPackets == {[ecn |-> "NotECT", size |-> 1], [ecn |-> "ECT", size |-> 1]}

\* For a device queue counted in bytes: small packets and packets of MTU size.
SizedPackets == {[ecn |-> "NotECT", size |-> 1], [ecn |-> "NotECT", size |-> 2]}
=============================================================================
