--------------------------- MODULE MCRtcpChannel ---------------------------
(* Instances of RtcpChannel for TLC.                                       *)
EXTENDS RtcpChannel, TLC

CONSTANTS s1, s2
TwoSubscribers == {s1, s2}
=============================================================================
