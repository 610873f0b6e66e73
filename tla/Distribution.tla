---------------------------- MODULE Distribution ----------------------------
(***************************************************************************)
(* What the forwarding of one user's tracks promises, whatever the order   *)
(* in which pumps, resets and workers do it.  A track that the source has  *)
(* is given to connected targets and not taken from them as long as they   *)
(* have the same connection.  One that it has no longer is on its way out: *)
(* a target may still get it, if the news are late there, and gets rid of  *)
(* it again.  At some moment it is gone: nobody has it, and nobody will    *)
(* ever be given it again.                                                 *)
(***************************************************************************)
EXTENDS Naturals

CONSTANTS
  Targets,
  MaxTracks,       \* bound: tracks
  MaxConnections   \* bound: connections of targets

NoConnection == 0
Tracks == 1..MaxTracks
Connections == 1..MaxConnections

VARIABLES
  state,        \* of each track: "new", "live", "leaving" or "gone"
  connection,   \* of each target, if it has one
  has           \* the tracks of each target

vars == <<state, connection, has>>

Live == {x \in Tracks : state[x] = "live"}
Leaving == {x \in Tracks : state[x] = "leaving"}

Init ==
  /\ state = [x \in Tracks |-> "new"]
  /\ connection = [t \in Targets |-> NoConnection]
  /\ has = [t \in Targets |-> {}]

(* A source that is just being reset has the track for a moment only.      *)
Come(x) ==
  /\ state[x] = "new"
  /\ \E s \in {"live", "leaving"} : state' = [state EXCEPT ![x] = s]
  /\ UNCHANGED <<connection, has>>

(* The source loses tracks, all of them when it is reset.                  *)
Lose ==
  /\ UNCHANGED <<connection, has>>
  /\ \E X \in SUBSET Live :
       state' = [x \in Tracks |-> IF x \in X THEN "leaving" ELSE state[x]]

Vanish(x) ==
  /\ x \in Leaving
  /\ \A t \in Targets : x \notin has[t]
  /\ state' = [state EXCEPT ![x] = "gone"]
  /\ UNCHANGED <<connection, has>>

(* A target without a connection, or with an older one, gets a new one,    *)
(* and some of the tracks with it.                                         *)
Connect(t) ==
  /\ UNCHANGED state
  /\ \E c \in Connections :
       /\ connection[t] < c
       /\ connection' = [connection EXCEPT ![t] = c]
  /\ \E X \in SUBSET (Live \cup Leaving) : has' = [has EXCEPT ![t] = X]

Disconnect(t) ==
  /\ UNCHANGED state
  /\ connection' = [connection EXCEPT ![t] = NoConnection]
  /\ has' = [has EXCEPT ![t] = {}]

Give(t) ==
  /\ UNCHANGED <<state, connection>>
  /\ connection[t] # NoConnection
  /\ \E X \in SUBSET (Live \cup Leaving) : has' = [has EXCEPT ![t] = @ \cup X]

(* The last target that loses it may be the end of a track.                *)
Take(t, x) ==
  /\ UNCHANGED connection
  /\ x \in Leaving
  /\ has' = [has EXCEPT ![t] = @ \ {x}]
  /\ \/ UNCHANGED state
     \/ /\ \A u \in Targets \ {t} : x \notin has[u]
        /\ state' = [state EXCEPT ![x] = "gone"]

Next ==
  \/ Lose
  \/ \E x \in Tracks : Come(x) \/ Vanish(x)
  \/ \E t \in Targets : Connect(t) \/ Disconnect(t) \/ Give(t)
  \/ \E t \in Targets, x \in Tracks : Take(t, x)

Spec == Init /\ [][Next]_vars
=============================================================================
