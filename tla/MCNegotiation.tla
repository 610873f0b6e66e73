--------------------------- MODULE MCNegotiation ---------------------------
(* Instances of Negotiation for TLC.                                       *)
EXTENDS Negotiation

AllRoles == [initiator : BOOLEAN, pipeline : BOOLEAN]
Receivers == [initiator : BOOLEAN, pipeline : {FALSE}]
Answerers == [initiator : {FALSE}, pipeline : {FALSE}]
Offerers == [initiator : {TRUE}, pipeline : {FALSE}]

(* The remote starts over without track changes and faults beside it, and  *)
(* an unasked message meets a change or a fault, not both.                 *)
FewEvents ==
  /\ client.pcid > 1 => changes = 0 /\ faults = 0
  /\ client.extra => changes = 0 \/ faults = 0
=============================================================================
