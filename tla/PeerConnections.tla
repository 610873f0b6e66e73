-------------------------- MODULE PeerConnections --------------------------
(***************************************************************************)
(* What a ConnectionRecord promises of its peer connections, whatever the  *)
(* order in which signalling, callbacks and resets work on it: there is at *)
(* most one in use, the current one; the record gets a new one only after  *)
(* the old one is closed, in the order they are made; and a peer           *)
(* connection that is closed stays closed and, once dropped, never comes   *)
(* back.  Between two of these steps everything else is hidden.            *)
(***************************************************************************)
EXTENDS Naturals

CONSTANT MaxPc    \* bound: peer connections ever created

VARIABLES
  current,   \* the record's peer connection, None when it has none
  state      \* of each peer connection: "unused", "open" or "closed"

None == 0
Numbers == 1..MaxPc

Init ==
  /\ current = None
  /\ state = [p \in Numbers |-> "unused"]

Closing == [p \in Numbers |-> IF p = current THEN "closed" ELSE state[p]]

(* p is the next one that was never used.                                  *)
IsNext(p) ==
  /\ state[p] = "unused"
  /\ \A i \in Numbers : i < p => state[i] # "unused"

(* A record without peer connection gets one.                              *)
Create ==
  \E p \in Numbers :
    /\ current = None
    /\ IsNext(p)
    /\ current' = p
    /\ state' = [state EXCEPT ![p] = "open"]

(* The peer connection is closed, if it is not yet, and forgotten.         *)
Drop ==
  /\ current # None
  /\ current' = None
  /\ state' = Closing

(* The remote has started over: drop and create at once.                   *)
Replace ==
  \E p \in Numbers :
    /\ current # None
    /\ IsNext(p)
    /\ current' = p
    /\ state' = [Closing EXCEPT ![p] = "open"]

(* It is closed while the record still has it.                             *)
CloseUnder ==
  /\ current # None
  /\ state[current] = "open"
  /\ UNCHANGED current
  /\ state' = Closing

Next == Create \/ Drop \/ Replace \/ CloseUnder

Spec == Init /\ [][Next]_<<current, state>>
=============================================================================
