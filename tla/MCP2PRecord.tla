---------------------------- MODULE MCP2PRecord ----------------------------
(* Instances of P2PRecord for TLC.                                         *)
EXTENDS P2PRecord, FiniteSets

(* The codec of its tracks means nothing to a record that has none.        *)
AllRoles ==
  {r \in [initiator : BOOLEAN, incoming : BOOLEAN, codec : BOOLEAN] : r.incoming => r.codec}

SecondTrack == \E x \in Tracks \ {1} : pump[x] # "none"

(* At most one of: the end of the session, a failure, a remote that starts *)
(* over, a second track; and an unasked message with none of them, to an   *)
(* initiator.  None for an answerer without the codec.  A remote that      *)
(* starts over has no lines of its own.                                    *)
Troubles ==
  {t \in {"end", "failure", "restart", "track"} :
     CASE t = "end" -> session # "up" [] t = "failure" -> faults > 0
       [] t = "restart" -> client.pcid > 1 [] t = "track" -> SecondTrack}
OneTrouble ==
  /\ Cardinality(Troubles) <= 1
  /\ client.extra => Initiator /\ Troubles = {}
  /\ Codec \/ Initiator \/ Troubles = {}
  /\ client.pcid > 1 => client.lines # Tracks
=============================================================================
