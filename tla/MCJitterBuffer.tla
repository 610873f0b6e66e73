--------------------------- MODULE MCJitterBuffer ---------------------------
(* Instances of JitterBuffer for TLC.                                      *)
EXTENDS JitterBuffer

CONSTANTS pli, remb

OneLoop == {pli}

(* A stream with a pause, and one that comes to the end of the sequence    *)
(* numbers soon.                                                           *)
SomeStreams ==
  {[sn |-> 0, ts |-> 0, pause |-> 4], [sn |-> 3, ts |-> 1, pause |-> 0]}

ASSUME WithinTheProofs == NoTimestampWraps /\ LateInTime
=============================================================================
