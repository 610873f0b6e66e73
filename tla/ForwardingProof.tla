--------------------------- MODULE ForwardingProof ---------------------------
(***************************************************************************)
(* Proofs about Forwarding for any number of targets, kinds, tracks and    *)
(* peer connections and channels of any size.  ForwardingInv says what is  *)
(* still to come to a target that has a dead track, or lacks one of the    *)
(* sender's: a change in trackCh, or with the track worker, or a visit of  *)
(* the receiver worker.                                                    *)
(***************************************************************************)
EXTENDS Forwarding, SequenceTheorems, TLAPS

AddOf(x) == [track |-> x, remove |-> FALSE]
RemovalOf(x) == [track |-> x, remove |-> TRUE]
Queued(c) == \E i \in 1..Len(trackCh) : trackCh[i] = c
Taken(c) == tracker.track = c.track /\ tracker.remove = c.remove

(* The receiver worker will come to the target.                            *)
Visited(t) ==
  \/ handler = t
  \/ receiver.at # "idle" /\ receiver.target = t
  \/ \E i \in 1..Len(receiverCh) : receiverCh[i] = t

(* Tracks are with connected records, one of which the receiver worker     *)
(* holds while it waits for the sender.                                    *)
OnlyConnected ==
  /\ \A t \in Targets : ~target[t].pc # NoPc => target[t].tracks = {} /\ target[t].pending = {}
  /\ receiver.at # "idle" => receiver.target \in Targets
  /\ receiver.at = "sender" => target[receiver.target].pc # NoPc

(* A track that the sender has is of its kind and has not been deleted.    *)
RegisteredLive ==
  \A k \in Kinds :
    sender.tracks[k] # NoTrack =>
      /\ track[sender.tracks[k]].kind = k
      /\ track[sender.tracks[k]].pump \in {"announce", "reading", "delete"}

(* Nobody knows a track that has not come.                                 *)
NotYet ==
  /\ tracker.todo # {} => tracker.track # NoTrack
  /\ \A x \in Tracks : track[x].pump = "none" =>
       /\ \A t \in Targets : x \notin target[t].tracks /\ x \notin target[t].pending
       /\ \A i \in 1..Len(trackCh) : trackCh[i].track # x
       /\ tracker.todo # {} => tracker.track # x

(* The removal that a pump ends with is behind every addition of its track. *)
RemovalFollows ==
  \A x \in Tracks : track[x].pump = "done" =>
    /\ \A i \in 1..Len(trackCh) : trackCh[i] = AddOf(x) =>
         \E j \in 1..Len(trackCh) : j > i /\ trackCh[j] = RemovalOf(x)
    /\ tracker.todo # {} /\ Taken(AddOf(x)) => Queued(RemovalOf(x))

DeadRemoved ==
  \A x \in Tracks, t \in Targets : track[x].pump = "done" /\ x \in Forwarded(t) =>
    Queued(RemovalOf(x)) \/ (Taken(RemovalOf(x)) /\ t \in tracker.todo)

(* Only a reset takes tracks back that the sender has.                     *)
ResetRemoves ==
  /\ resetting.todo # {} => resetting.busy
  /\ ~resetting.busy =>
       \A k \in Kinds : sender.tracks[k] # NoTrack =>
         /\ ~Queued(RemovalOf(sender.tracks[k]))
         /\ tracker.todo # {} => ~Taken(RemovalOf(sender.tracks[k]))

MissingAdded ==
  ~resetting.busy =>
    \A k \in Kinds, t \in Targets :
      LET x == sender.tracks[k] IN
      x # NoTrack /\ target[t].pc # NoPc /\ x \notin Forwarded(t) =>
        \/ track[x].pump = "announce"
        \/ Queued(AddOf(x))
        \/ Taken(AddOf(x)) /\ t \in tracker.todo
        \/ Visited(t)

ForwardingInv ==
  /\ TypeOK /\ TracksHaveSenders /\ OnlyConnected
  /\ RegisteredLive /\ NotYet /\ RemovalFollows /\ DeadRemoved
  /\ ResetRemoves /\ MissingAdded

-----------------------------------------------------------------------------
(* The channels.                                                           *)
LEMMA Pushed ==
  ASSUME NEW S, NEW s \in Seq(S), NEW e \in S
  PROVE  /\ Append(s, e) \in Seq(S) /\ Len(Append(s, e)) = Len(s) + 1 /\ Len(s) \in Nat
         /\ \A i \in 1..Len(s) : Append(s, e)[i] = s[i]
         /\ Append(s, e)[Len(s) + 1] = e
BY AppendProperties, LenProperties

LEMMA Popped ==
  ASSUME NEW S, NEW s \in Seq(S), s # <<>>
  PROVE  /\ Tail(s) \in Seq(S) /\ Len(s) \in Nat /\ Len(s) > 0
         /\ Len(Tail(s)) = Len(s) - 1 /\ Head(s) = s[1] /\ s[1] \in S
         /\ \A i \in 1..Len(s) - 1 : Tail(s)[i] = s[i + 1]
<1>1. /\ Len(s) \in Nat /\ Len(s) > 0
  BY LenProperties, EmptySeq
<1>2. Tail(s) \in Seq(S) /\ Len(Tail(s)) = Len(s) - 1 /\ Head(s) = s[1]
      /\ \A i \in 1..Len(Tail(s)) : Tail(s)[i] = s[i + 1]
  BY <1>1, HeadTailProperties
<1>3. s[1] \in S
  BY <1>1, ElementOfSeq
<1> QED BY <1>1, <1>2, <1>3

LEMMA Changes ==
  ASSUME NEW x \in Tracks
  PROVE  AddOf(x) \in Change /\ RemovalOf(x) \in Change /\ AddOf(x) # RemovalOf(x)
BY DEF AddOf, RemovalOf, Change

LEMMA TrackNumbers == NoTrack \notin Tracks
BY DEF NoTrack, Tracks

(* The sender loses tracks, a reset of it starts or it loses all.          *)
LEMMA SenderStep ==
  ASSUME ForwardingInv, TypeOK',
         UNCHANGED <<track, target, connects, handler, trackCh, receiverCh, tracker, receiver>>,
         \A k \in Kinds : sender'.tracks[k] \in {sender.tracks[k], NoTrack},
         resetting'.todo # {} => resetting'.busy,
         \/ resetting'.busy
         \/ ~resetting.busy
         \/ \A k \in Kinds : sender'.tracks[k] = NoTrack
  PROVE  ForwardingInv'
<1>1. TracksHaveSenders' /\ OnlyConnected'
  BY DEF ForwardingInv, TracksHaveSenders, OnlyConnected
<1>2. RegisteredLive'
  BY DEF ForwardingInv, RegisteredLive
<1>3. NotYet' /\ RemovalFollows' /\ DeadRemoved'
  BY DEF ForwardingInv, NotYet, RemovalFollows, DeadRemoved, Queued, Taken, Forwarded
<1>4. ResetRemoves'
  BY DEF ForwardingInv, ResetRemoves, Queued, Taken
<1>5. MissingAdded'
  BY DEF ForwardingInv, MissingAdded, Queued, Taken, Visited, Forwarded
<1> QED BY <1>1, <1>2, <1>3, <1>4, <1>5 DEF ForwardingInv

LEMMA SenderSteps ==
  ASSUME ForwardingAssumption, ForwardingInv,
         SenderConnect \/ SenderClear \/ SenderReset \/ ResetDone
  PROVE  ForwardingInv'
<1>1. /\ sender.tracks \in [Kinds -> Tracks \cup {NoTrack}]
      /\ sender \in [pc : 0..MaxSenders, tracks : [Kinds -> Tracks \cup {NoTrack}]]
      /\ lastSender \in 0..MaxSenders /\ MaxSenders \in Nat
  BY DEF ForwardingInv, TypeOK, ForwardingAssumption
<1>2. UNCHANGED <<track, target, connects, handler, trackCh, receiverCh, tracker, receiver>>
  BY DEF SenderConnect, SenderClear, SenderReset, ResetDone, targetVars, workerVars
<1>3. CASE SenderConnect
  <2>1. /\ sender'.tracks = sender.tracks /\ UNCHANGED resetting
        /\ sender' \in [pc : 0..MaxSenders, tracks : [Kinds -> Tracks \cup {NoTrack}]]
        /\ lastSender' \in 0..MaxSenders
    BY <1>1, <1>3 DEF SenderConnect
  <2>2. TypeOK'
    BY <1>2, <2>1 DEF ForwardingInv, TypeOK
  <2> QED BY <1>2, <2>1, <2>2, SenderStep DEF ForwardingInv, ResetRemoves
<1>4. CASE SenderClear
  <2>1. /\ \A k \in Kinds : sender'.tracks[k] = NoTrack
        /\ UNCHANGED <<resetting, lastSender>>
        /\ sender' \in [pc : 0..MaxSenders, tracks : [Kinds -> Tracks \cup {NoTrack}]]
    BY <1>1, <1>4 DEF SenderClear, NoTracks, NoPc
  <2>2. TypeOK'
    BY <1>2, <2>1 DEF ForwardingInv, TypeOK
  <2> QED BY <1>2, <2>1, <2>2, SenderStep DEF ForwardingInv, ResetRemoves
<1>5. CASE SenderReset
  <2>1. /\ sender'.tracks = sender.tracks /\ UNCHANGED lastSender
        /\ sender' \in [pc : 0..MaxSenders, tracks : [Kinds -> Tracks \cup {NoTrack}]]
    BY <1>1, <1>5 DEF SenderReset, NoPc
  <2>2. /\ resetting'.busy
        /\ resetting' \in [busy : BOOLEAN, locked : BOOLEAN, handler : BOOLEAN,
                           todo : SUBSET Kinds]
    BY <1>5 DEF SenderReset
  <2>3. TypeOK'
    BY <1>2, <2>1, <2>2 DEF ForwardingInv, TypeOK
  <2> QED BY <1>2, <2>1, <2>2, <2>3, SenderStep
<1>6. CASE ResetDone
  <2>1. /\ \A k \in Kinds : sender'.tracks[k] = NoTrack
        /\ sender' \in [pc : 0..MaxSenders, tracks : [Kinds -> Tracks \cup {NoTrack}]]
        /\ UNCHANGED lastSender
    BY <1>1, <1>6 DEF ResetDone, NoTracks
  <2>2. /\ resetting' \in [busy : BOOLEAN, locked : BOOLEAN, handler : BOOLEAN,
                           todo : SUBSET Kinds]
        /\ resetting'.todo = {}
    BY <1>6 DEF ResetDone, ForwardingInv, TypeOK
  <2>3. TypeOK'
    BY <1>2, <2>1, <2>2 DEF ForwardingInv, TypeOK
  <2> QED BY <1>2, <2>1, <2>2, <2>3, SenderStep
<1> QED BY <1>3, <1>4, <1>5, <1>6

-----------------------------------------------------------------------------
(* A change is pushed into trackCh: an addition of a track that lives, or  *)
(* a removal of one that the sender has not, or that a reset takes back.   *)
LEMMA PushKeeps ==
  ASSUME ForwardingInv, NEW c \in Change, trackCh' = Append(trackCh, c),
         UNCHANGED <<target, tracker>>,
         \A x \in Tracks : track'[x].pump = track[x].pump \/ track'[x].pump \notin {"none", "done"}
                             \/ (track'[x].pump = "done" /\ c = RemovalOf(x)),
         track'[c.track].pump # "none",
         c.remove \/ track'[c.track].pump # "done"
  PROVE  NotYet' /\ RemovalFollows' /\ DeadRemoved'
<1>1. /\ trackCh' \in Seq(Change) /\ Len(trackCh') = Len(trackCh) + 1 /\ Len(trackCh) \in Nat
      /\ \A i \in 1..Len(trackCh) : trackCh'[i] = trackCh[i]
      /\ trackCh'[Len(trackCh) + 1] = c
  BY Pushed DEF ForwardingInv, TypeOK
<1>2. \A d : Queued(d)' <=> Queued(d) \/ d = c
  BY <1>1 DEF Queued
<1>3. NotYet'
  BY <1>1 DEF ForwardingInv, NotYet
<1>4. \A x \in Tracks : AddOf(x) # RemovalOf(x) /\ AddOf(x).track = x /\ ~AddOf(x).remove
  BY DEF AddOf, RemovalOf
<1>5. RemovalFollows'
  <2> SUFFICES ASSUME NEW x \in Tracks, track'[x].pump = "done"
      PROVE  /\ \A i \in 1..Len(trackCh') : trackCh'[i] = AddOf(x) =>
                  \E j \in 1..Len(trackCh') : j > i /\ trackCh'[j] = RemovalOf(x)
             /\ tracker.todo # {} /\ Taken(AddOf(x)) => Queued(RemovalOf(x))'
    BY DEF RemovalFollows, Taken
  <2>1. c # AddOf(x)
    BY <1>4
  <2>2. CASE c = RemovalOf(x)
    BY <1>1, <1>2, <2>1, <2>2
  <2>3. CASE c # RemovalOf(x)
    <3>1. track[x].pump = "done"
      BY <2>3
    <3>2. ASSUME NEW i \in 1..Len(trackCh'), trackCh'[i] = AddOf(x)
          PROVE  \E j \in 1..Len(trackCh') : j > i /\ trackCh'[j] = RemovalOf(x)
      <4>1. i \in 1..Len(trackCh) /\ trackCh[i] = AddOf(x)
        BY <1>1, <2>1, <3>2
      <4>2. PICK j \in 1..Len(trackCh) : j > i /\ trackCh[j] = RemovalOf(x)
        BY <3>1, <4>1 DEF ForwardingInv, RemovalFollows
      <4> QED BY <1>1, <4>2
    <3> QED BY <1>2, <3>1, <3>2 DEF ForwardingInv, RemovalFollows
  <2> QED BY <2>2, <2>3
<1>6. DeadRemoved'
  BY <1>2 DEF ForwardingInv, DeadRemoved, Forwarded, Taken
<1> QED BY <1>3, <1>5, <1>6

LEMMA ResetPushStep ==
  ASSUME ForwardingInv, ResetPush
  PROVE  ForwardingInv'
<1> DEFINE x(k) == sender.tracks[k]
<1>1. PICK k \in resetting.todo :
        /\ IF x(k) = NoTrack THEN UNCHANGED trackCh
           ELSE ~Full(trackCh) /\ trackCh' = Append(trackCh, RemovalOf(x(k)))
        /\ resetting' = [resetting EXCEPT !.todo = @ \ {k}]
        /\ UNCHANGED <<sender, lastSender, track, targetVars, receiverCh, workerVars>>
  BY DEF ResetPush, RemovalOf
<1>2. UNCHANGED <<sender, lastSender, track, target, connects, handler, receiverCh, tracker, receiver>>
  BY <1>1 DEF targetVars, workerVars
<1>3. /\ resetting' \in [busy : BOOLEAN, locked : BOOLEAN, handler : BOOLEAN, todo : SUBSET Kinds]
      /\ resetting'.busy /\ k \in Kinds
  BY <1>1 DEF ForwardingInv, TypeOK, ResetRemoves
<1>4. CASE UNCHANGED trackCh
  <2>1. TypeOK'
    BY <1>2, <1>3, <1>4 DEF ForwardingInv, TypeOK
  <2> QED BY <1>2, <1>3, <1>4, <2>1, SenderStep
<1>5. CASE x(k) # NoTrack /\ ~Full(trackCh) /\ trackCh' = Append(trackCh, RemovalOf(x(k)))
  <2>1. x(k) \in Tracks /\ track[x(k)].pump # "none"
    BY <1>3, <1>5 DEF ForwardingInv, TypeOK, RegisteredLive
  <2>2. RemovalOf(x(k)) \in Change /\ RemovalOf(x(k)).track = x(k) /\ RemovalOf(x(k)).remove
    BY <2>1, Changes DEF RemovalOf
  <2> HIDE DEF x
  <2>3. trackCh' \in Seq(Change) /\ Len(trackCh') = Len(trackCh) + 1
    BY <1>5, <2>2, Pushed DEF ForwardingInv, TypeOK
  <2>4. TypeOK'
    <3>1. Len(trackCh') <= ChSize
      BY <1>5, <2>3, LenProperties, ForwardingAssumption DEF ForwardingAssumption, ForwardingInv, TypeOK, Full
    <3> QED BY <1>2, <1>3, <2>3, <3>1 DEF ForwardingInv, TypeOK
  <2>5. NotYet' /\ RemovalFollows' /\ DeadRemoved'
    BY <1>2, <1>5, <2>1, <2>2, PushKeeps
  <2>6. TracksHaveSenders' /\ OnlyConnected' /\ RegisteredLive'
    BY <1>2 DEF ForwardingInv, TracksHaveSenders, OnlyConnected, RegisteredLive
  <2>7. ResetRemoves' /\ MissingAdded'
    BY <1>3 DEF ResetRemoves, MissingAdded
  <2> QED BY <2>4, <2>5, <2>6, <2>7 DEF ForwardingInv
<1> QED BY <1>1, <1>4, <1>5

-----------------------------------------------------------------------------
(* A pump comes to another point of its life.                              *)
LEMMA PumpSet ==
  ASSUME ForwardingInv, NEW x \in Tracks, NEW point \in PumpPoint, Pump(x, point)
  PROVE  /\ track' \in [Tracks -> [kind : Kinds, pc : 0..MaxSenders, pump : PumpPoint]]
         /\ track'[x].pump = point
         /\ \A y \in Tracks : /\ track'[y].kind = track[y].kind
                              /\ y # x => track'[y].pump = track[y].pump
<1>1. track \in [Tracks -> [kind : Kinds, pc : 0..MaxSenders, pump : PumpPoint]]
  BY DEF ForwardingInv, TypeOK
<1>2. track' = [track EXCEPT ![x] = [track[x] EXCEPT !.pump = point]]
  BY DEF Pump
<1>3. [track[x] EXCEPT !.pump = point] \in [kind : Kinds, pc : 0..MaxSenders, pump : PumpPoint]
  BY <1>1
<1> QED BY <1>1, <1>2, <1>3

LEMMA OnTrackStep ==
  ASSUME ForwardingInv, NEW x \in Tracks, OnTrack(x)
  PROVE  ForwardingInv'
<1>1. /\ track[x].pump = "none"
      /\ UNCHANGED <<lastSender, resetting, target, connects, handler, trackCh, receiverCh,
                     tracker, receiver>>
  BY DEF OnTrack, pumpEnv, targetVars, workerVars
<1>2. PICK k \in Kinds :
        /\ sender.tracks[k] = NoTrack
        /\ sender' = [sender EXCEPT !.tracks[k] = x]
        /\ track' = [track EXCEPT ![x] = [kind |-> k, pc |-> sender.pc, pump |-> "announce"]]
  BY DEF OnTrack
<1>3. /\ sender \in [pc : 0..MaxSenders, tracks : [Kinds -> Tracks \cup {NoTrack}]]
      /\ track \in [Tracks -> [kind : Kinds, pc : 0..MaxSenders, pump : PumpPoint]]
  BY DEF ForwardingInv, TypeOK
<1>4. /\ sender' \in [pc : 0..MaxSenders, tracks : [Kinds -> Tracks \cup {NoTrack}]]
      /\ sender'.tracks[k] = x
      /\ \A h \in Kinds : h # k => sender'.tracks[h] = sender.tracks[h]
  BY <1>2, <1>3
<1>5. /\ track' \in [Tracks -> [kind : Kinds, pc : 0..MaxSenders, pump : PumpPoint]]
      /\ track'[x].kind = k /\ track'[x].pump = "announce"
      /\ \A y \in Tracks : y # x => track'[y] = track[y]
  BY <1>2, <1>3 DEF PumpPoint
<1>6. TypeOK'
  BY <1>1, <1>4, <1>5 DEF ForwardingInv, TypeOK
<1>7. \A h \in Kinds : sender.tracks[h] # x
  BY <1>1, TrackNumbers DEF ForwardingInv, RegisteredLive
<1>8. TracksHaveSenders' /\ OnlyConnected'
  BY <1>1 DEF ForwardingInv, TracksHaveSenders, OnlyConnected
<1>9. RegisteredLive'
  BY <1>3, <1>4, <1>5, <1>7 DEF ForwardingInv, RegisteredLive
<1>10. NotYet' /\ RemovalFollows' /\ DeadRemoved'
  BY <1>1, <1>5 DEF ForwardingInv, NotYet, RemovalFollows, DeadRemoved, Queued, Taken, Forwarded
<1>11. ResetRemoves'
  <2>1. RemovalOf(x).track = x
    BY DEF RemovalOf
  <2>2. /\ \A i \in 1..Len(trackCh) : trackCh[i] # RemovalOf(x)
        /\ tracker.todo # {} => tracker.track # x
    BY <1>1, <2>1 DEF ForwardingInv, NotYet
  <2>3. ~Queued(RemovalOf(x)) /\ (tracker.todo # {} => ~Taken(RemovalOf(x)))
    BY <2>1, <2>2 DEF Queued, Taken
  <2> QED BY <1>1, <1>4, <2>3 DEF ForwardingInv, ResetRemoves, Queued, Taken
<1>12. MissingAdded'
  <2> SUFFICES ASSUME ~resetting.busy, NEW h \in Kinds, NEW t \in Targets,
                      sender'.tracks[h] # NoTrack, target[t].pc # NoPc,
                      sender'.tracks[h] \notin Forwarded(t)
               PROVE  \/ track'[sender'.tracks[h]].pump = "announce"
                      \/ Queued(AddOf(sender'.tracks[h]))
                      \/ Taken(AddOf(sender'.tracks[h])) /\ t \in tracker.todo
                      \/ Visited(t)
    BY <1>1 DEF MissingAdded, Queued, Taken, Visited, Forwarded
  <2>1. CASE h = k
    BY <1>4, <1>5, <2>1
  <2>2. CASE h # k
    <3>1. sender'.tracks[h] = sender.tracks[h] /\ sender.tracks[h] \in Tracks
      BY <1>3, <1>4, <2>2
    <3>2. track'[sender.tracks[h]] = track[sender.tracks[h]]
      BY <1>5, <1>7, <3>1
    <3> QED BY <3>1, <3>2 DEF ForwardingInv, MissingAdded
  <2> QED BY <2>1, <2>2
<1> QED BY <1>6, <1>8, <1>9, <1>10, <1>11, <1>12 DEF ForwardingInv

LEMMA PumpPushes ==
  ASSUME ForwardingInv, NEW x \in Tracks, PumpAnnounce(x) \/ PumpRemove(x)
  PROVE  ForwardingInv'
<1> DEFINE c == IF track[x].pump = "announce" THEN AddOf(x) ELSE RemovalOf(x)
           point == IF track[x].pump = "announce" THEN "reading" ELSE "done"
<1>1. /\ track[x].pump \in {"announce", "remove"} /\ ~Full(trackCh)
      /\ trackCh' = Append(trackCh, c) /\ Pump(x, point) /\ point \in PumpPoint
      /\ UNCHANGED <<sender, lastSender, resetting, target, connects, handler, receiverCh,
                     tracker, receiver>>
  BY DEF PumpAnnounce, PumpRemove, AddOf, RemovalOf, pumpEnv, targetVars, workerVars, PumpPoint
<1>2. c \in Change /\ c.track = x /\ (c.remove <=> track[x].pump # "announce")
  BY Changes DEF AddOf, RemovalOf
<1>3. /\ track' \in [Tracks -> [kind : Kinds, pc : 0..MaxSenders, pump : PumpPoint]]
      /\ track'[x].pump = point
      /\ \A y \in Tracks : /\ track'[y].kind = track[y].kind
                           /\ y # x => track'[y].pump = track[y].pump
  BY <1>1, PumpSet
<1>4. /\ trackCh' \in Seq(Change) /\ Len(trackCh') = Len(trackCh) + 1 /\ Len(trackCh) \in Nat
      /\ \A i \in 1..Len(trackCh) : trackCh'[i] = trackCh[i]
      /\ trackCh'[Len(trackCh) + 1] = c
  BY <1>1, <1>2, Pushed DEF ForwardingInv, TypeOK
<1>5. TypeOK'
  <2>1. Len(trackCh') <= ChSize
    BY <1>1, <1>4, ForwardingAssumption DEF ForwardingAssumption, Full
  <2> QED BY <1>1, <1>3, <1>4, <2>1 DEF ForwardingInv, TypeOK
<1>6. NotYet' /\ RemovalFollows' /\ DeadRemoved'
  <2>1. track[x].pump # "announce" => c = RemovalOf(x)
    OBVIOUS
  <2> HIDE DEF c
  <2> QED BY <1>1, <1>2, <1>3, <1>4, <2>1, PushKeeps
<1>7. TracksHaveSenders' /\ OnlyConnected'
  BY <1>1 DEF ForwardingInv, TracksHaveSenders, OnlyConnected
<1>8. \A k \in Kinds :
        /\ sender.tracks[k] \in Tracks \cup {NoTrack}
        /\ track[x].pump = "remove" => sender.tracks[k] # x
  BY TrackNumbers DEF ForwardingInv, TypeOK, RegisteredLive
<1>9. RegisteredLive'
  BY <1>1, <1>3, <1>8 DEF ForwardingInv, RegisteredLive
<1>10. \A d : Queued(d)' <=> Queued(d) \/ d = c
  BY <1>4 DEF Queued
<1>11. ResetRemoves'
  <2> SUFFICES ASSUME ~resetting.busy, NEW k \in Kinds, sender.tracks[k] # NoTrack,
                      NEW i \in 1..Len(trackCh'), trackCh'[i] = RemovalOf(sender.tracks[k])
               PROVE  FALSE
    BY <1>1 DEF ForwardingInv, ResetRemoves, Taken, Queued
  <2>1. \A j \in 1..Len(trackCh) : trackCh[j] # RemovalOf(sender.tracks[k])
    BY DEF ForwardingInv, ResetRemoves, Queued
  <2>2. c = RemovalOf(sender.tracks[k])
    BY <1>4, <2>1
  <2>3. c.track = sender.tracks[k] /\ c.remove
    BY <2>2 DEF RemovalOf
  <2> HIDE DEF c
  <2> QED BY <1>1, <1>2, <1>8, <2>3
<1>12. MissingAdded'
  <2> HIDE DEF c
  <2> SUFFICES ASSUME ~resetting.busy, NEW k \in Kinds, NEW t \in Targets,
                      sender.tracks[k] # NoTrack, target[t].pc # NoPc,
                      sender.tracks[k] \notin Forwarded(t)
               PROVE  \/ track'[sender.tracks[k]].pump = "announce"
                      \/ Queued(AddOf(sender.tracks[k]))'
                      \/ Taken(AddOf(sender.tracks[k])) /\ t \in tracker.todo
                      \/ Visited(t)
    BY <1>1 DEF MissingAdded, Queued, Taken, Visited, Forwarded
  <2>1. CASE sender.tracks[k] = x
    <3>1. track[x].pump = "announce"
      BY <1>1, <1>8, <2>1
    <3>2. c = AddOf(x)
      BY <3>1 DEF c
    <3>3. trackCh'[Len(trackCh) + 1] = AddOf(x) /\ Len(trackCh) + 1 \in 1..Len(trackCh')
      BY <1>4, <3>2
    <3> QED BY <1>1, <2>1, <3>3 DEF Queued
  <2>2. CASE sender.tracks[k] # x
    <3>1. track'[sender.tracks[k]].pump = track[sender.tracks[k]].pump
      BY <1>3, <1>8, <2>2
    <3>2. Queued(AddOf(sender.tracks[k])) => Queued(AddOf(sender.tracks[k]))'
      BY <1>1, <1>4 DEF Queued
    <3> QED BY <3>1, <3>2 DEF ForwardingInv, MissingAdded
  <2> QED BY <2>1, <2>2
<1> QED BY <1>5, <1>6, <1>7, <1>9, <1>11, <1>12 DEF ForwardingInv

LEMMA PumpEndsStep ==
  ASSUME ForwardingInv, NEW x \in Tracks, PumpEnds(x) \/ PumpDelete(x)
  PROVE  ForwardingInv'
<1> DEFINE point == IF track[x].pump = "reading" THEN "delete" ELSE "remove"
<1>1. /\ track[x].pump \in {"reading", "delete"} /\ Pump(x, point) /\ point \in PumpPoint
      /\ UNCHANGED <<lastSender, resetting, target, connects, handler, trackCh, receiverCh,
                     tracker, receiver>>
  BY DEF PumpEnds, PumpDelete, pumpEnv, targetVars, workerVars, PumpPoint
<1>2. /\ track' \in [Tracks -> [kind : Kinds, pc : 0..MaxSenders, pump : PumpPoint]]
      /\ track'[x].pump = point
      /\ \A y \in Tracks : /\ track'[y].kind = track[y].kind
                           /\ y # x => track'[y].pump = track[y].pump
  BY <1>1, PumpSet
<1>3. /\ sender \in [pc : 0..MaxSenders, tracks : [Kinds -> Tracks \cup {NoTrack}]]
      /\ track[x].kind \in Kinds
  BY DEF ForwardingInv, TypeOK
<1>4. /\ sender' \in [pc : 0..MaxSenders, tracks : [Kinds -> Tracks \cup {NoTrack}]]
      /\ \A k \in Kinds : sender'.tracks[k] = sender.tracks[k] \/ sender'.tracks[k] = NoTrack
      /\ track[x].pump = "delete" => sender'.tracks[track[x].kind] = NoTrack
  <2>1. CASE PumpEnds(x)
    BY <1>3, <2>1 DEF PumpEnds
  <2>2. CASE PumpDelete(x)
    BY <1>3, <2>2 DEF PumpDelete
  <2> QED BY <2>1, <2>2
<1>5. TypeOK'
  BY <1>1, <1>2, <1>4 DEF ForwardingInv, TypeOK
<1>6. TracksHaveSenders' /\ OnlyConnected'
  BY <1>1 DEF ForwardingInv, TracksHaveSenders, OnlyConnected
<1>7. RegisteredLive'
  <2> SUFFICES ASSUME NEW k \in Kinds, sender'.tracks[k] # NoTrack
               PROVE  /\ track'[sender'.tracks[k]].kind = k
                      /\ track'[sender'.tracks[k]].pump \in {"announce", "reading", "delete"}
    BY DEF RegisteredLive
  <2>1. sender'.tracks[k] = sender.tracks[k] /\ sender.tracks[k] \in Tracks
    BY <1>3, <1>4
  <2>2. /\ track[sender.tracks[k]].kind = k
        /\ track[sender.tracks[k]].pump \in {"announce", "reading", "delete"}
    BY <2>1, TrackNumbers DEF ForwardingInv, RegisteredLive
  <2> QED BY <1>1, <1>2, <1>4, <2>1, <2>2
<1>8. NotYet' /\ RemovalFollows' /\ DeadRemoved'
  <2>1. \A y \in Tracks : track'[y].pump \in {"none", "done"} => track'[y].pump = track[y].pump
    BY <1>2
  <2> QED BY <1>1, <2>1 DEF ForwardingInv, NotYet, RemovalFollows, DeadRemoved, Queued, Taken, Forwarded
<1>9. ResetRemoves'
  BY <1>1, <1>4 DEF ForwardingInv, ResetRemoves, Queued, Taken
<1>10. MissingAdded'
  <2>1. \A k \in Kinds : 
          /\ sender'.tracks[k] # NoTrack
          /\ track[sender.tracks[k]].pump = "announce"
          => track'[sender.tracks[k]].pump = "announce"
    BY <1>1, <1>2, <1>3, <1>4
  <2> QED BY <1>1, <1>4, <2>1 DEF ForwardingInv, MissingAdded, Queued, Taken, Visited, Forwarded
<1> QED BY <1>5, <1>6, <1>7, <1>8, <1>9, <1>10 DEF ForwardingInv

-----------------------------------------------------------------------------
(* The track worker takes a change.                                        *)
LEMMA ChangeIs ==
  ASSUME NEW c \in Change, NEW x
  PROVE  /\ c = AddOf(x) <=> c.track = x /\ ~c.remove
         /\ c = RemovalOf(x) <=> c.track = x /\ c.remove
<1>1. PICK y \in Tracks, b \in BOOLEAN : c = [track |-> y, remove |-> b]
  BY DEF Change
<1>2. CASE b
  BY <1>1, <1>2 DEF AddOf, RemovalOf
<1>3. CASE ~b
  BY <1>1, <1>3 DEF AddOf, RemovalOf
<1> QED BY <1>2, <1>3

LEMMA TrackTakeStep ==
  ASSUME ForwardingInv, TrackTake
  PROVE  ForwardingInv'
<1> DEFINE c == trackCh[1]
<1>1. /\ UNCHANGED <<sender, lastSender, resetting, track, target, connects, handler,
                     receiverCh, receiver>>
      /\ tracker.todo = {} /\ trackCh # <<>> /\ trackCh' = Tail(trackCh)
  BY DEF TrackTake, senderVars, targetVars
<1>2. /\ trackCh' \in Seq(Change) /\ Len(trackCh) \in Nat /\ Len(trackCh) > 0
      /\ Len(trackCh') = Len(trackCh) - 1 /\ Head(trackCh) = c /\ c \in Change
      /\ \A i \in 1..Len(trackCh) - 1 : trackCh'[i] = trackCh[i + 1]
  BY <1>1, Popped DEF ForwardingInv, TypeOK
<1>3. tracker' = [todo |-> Targets, track |-> c.track, remove |-> c.remove, transceiver |-> FALSE]
  BY <1>2 DEF TrackTake
<1>4. c.track \in Tracks /\ c.remove \in BOOLEAN
  BY <1>2 DEF Change
<1> HIDE DEF c
<1>5. TypeOK'
  <2>1. Len(trackCh') <= ChSize
    BY <1>2, ForwardingAssumption DEF ForwardingInv, TypeOK, ForwardingAssumption
  <2>2. tracker' \in [todo : SUBSET Targets, track : Tracks \cup {NoTrack},
                      remove : BOOLEAN, transceiver : BOOLEAN]
    BY <1>3, <1>4
  <2> QED BY <1>1, <1>2, <2>1, <2>2 DEF ForwardingInv, TypeOK
<1>6. \A x : /\ Taken(AddOf(x))' <=> c = AddOf(x)
             /\ Taken(RemovalOf(x))' <=> c = RemovalOf(x)
  <2> TAKE x
  <2>1. /\ Taken(AddOf(x))' <=> c.track = x /\ c.remove = FALSE
        /\ Taken(RemovalOf(x))' <=> c.track = x /\ c.remove = TRUE
    BY <1>3 DEF Taken, AddOf, RemovalOf
  <2> QED BY <1>2, <1>4, <2>1, ChangeIs
<1>7. ASSUME NEW d, Queued(d)
      PROVE  c = d \/ Queued(d)'
  <2>1. PICK i \in 1..Len(trackCh) : trackCh[i] = d
    BY <1>7 DEF Queued
  <2>2. CASE i = 1
    BY <2>1, <2>2 DEF c
  <2>3. CASE i # 1
    <3>1. i - 1 \in 1..Len(trackCh) - 1 /\ trackCh'[i - 1] = d
      BY <1>2, <2>1, <2>3
    <3> QED BY <1>2, <3>1 DEF Queued
  <2> QED BY <2>2, <2>3
<1>8. ASSUME NEW d, Queued(d)' \/ c = d
      PROVE  Queued(d)
  BY <1>2, <1>8 DEF Queued, c
<1>9. TracksHaveSenders' /\ OnlyConnected' /\ RegisteredLive'
  BY <1>1 DEF ForwardingInv, TracksHaveSenders, OnlyConnected, RegisteredLive
<1>10. NotYet'
  <2>1. tracker'.track = c.track /\ tracker'.track # NoTrack
    BY <1>3, <1>4, TrackNumbers
  <2> QED BY <1>1, <1>2, <2>1 DEF ForwardingInv, NotYet, c
<1>11. RemovalFollows'
  <2> SUFFICES ASSUME NEW x \in Tracks, track[x].pump = "done"
      PROVE  /\ \A i \in 1..Len(trackCh') : trackCh'[i] = AddOf(x) =>
                  \E j \in 1..Len(trackCh') : j > i /\ trackCh'[j] = RemovalOf(x)
             /\ Taken(AddOf(x))' => Queued(RemovalOf(x))'
    BY <1>1 DEF RemovalFollows, Taken, Queued, AddOf, RemovalOf
  <2>1. \A i \in 1..Len(trackCh) : trackCh[i] = AddOf(x) =>
          \E j \in 1..Len(trackCh) : j > i /\ trackCh[j] = RemovalOf(x)
    BY DEF ForwardingInv, RemovalFollows
  <2>2. ASSUME NEW i \in 1..Len(trackCh'), trackCh'[i] = AddOf(x)
        PROVE  \E j \in 1..Len(trackCh') : j > i /\ trackCh'[j] = RemovalOf(x)
    <3>1. PICK j \in 1..Len(trackCh) : j > i + 1 /\ trackCh[j] = RemovalOf(x)
      BY <1>2, <2>1, <2>2
    <3>2. j - 1 \in 1..Len(trackCh') /\ j - 1 > i /\ trackCh'[j - 1] = RemovalOf(x)
      BY <1>2, <3>1
    <3> QED BY <3>2
  <2>3. ASSUME c = AddOf(x)
        PROVE  Queued(RemovalOf(x))'
    <3>1. PICK j \in 1..Len(trackCh) : j > 1 /\ trackCh[j] = RemovalOf(x)
      BY <1>2, <2>1, <2>3 DEF c
    <3>2. j - 1 \in 1..Len(trackCh') /\ trackCh'[j - 1] = RemovalOf(x)
      BY <1>2, <3>1
    <3> QED BY <3>2 DEF Queued
  <2> QED BY <1>6, <2>2, <2>3
<1>12. DeadRemoved'
  <2> SUFFICES ASSUME NEW x \in Tracks, NEW t \in Targets, track[x].pump = "done",
                      x \in Forwarded(t)
               PROVE  Queued(RemovalOf(x))' \/ Taken(RemovalOf(x))'
    BY <1>1, <1>3 DEF DeadRemoved, Forwarded
  <2>1. Queued(RemovalOf(x))
    BY <1>1 DEF ForwardingInv, DeadRemoved
  <2> QED BY <1>6, <1>7, <2>1
<1>13. ResetRemoves'
  <2>1. ASSUME ~resetting.busy, NEW k \in Kinds, sender.tracks[k] # NoTrack
        PROVE  ~Queued(RemovalOf(sender.tracks[k]))' /\ ~Taken(RemovalOf(sender.tracks[k]))'
    <3>1. ~Queued(RemovalOf(sender.tracks[k]))
      BY <2>1 DEF ForwardingInv, ResetRemoves
    <3> DEFINE d == RemovalOf(sender.tracks[k])
    <3>2. d' = d
      BY <1>1
    <3> HIDE DEF d
    <3>3. ~Queued(d)'
      BY <1>8, <3>1, <3>2 DEF d
    <3> QED BY <1>1, <1>6, <1>8, <3>1, <3>2, <3>3 DEF d, Taken
  <2> QED BY <1>1, <2>1 DEF ForwardingInv, ResetRemoves
<1>14. MissingAdded'
  <2> SUFFICES ASSUME ~resetting.busy, NEW k \in Kinds, NEW t \in Targets,
                      sender.tracks[k] # NoTrack, target[t].pc # NoPc,
                      sender.tracks[k] \notin Forwarded(t),
                      track[sender.tracks[k]].pump # "announce", ~Visited(t)
               PROVE  \/ Queued(AddOf(sender.tracks[k]))'
                      \/ Taken(AddOf(sender.tracks[k]))'
    BY <1>1, <1>3 DEF MissingAdded, Forwarded, Visited
  <2>1. Queued(AddOf(sender.tracks[k]))
    BY <1>1 DEF ForwardingInv, MissingAdded
  <2> DEFINE d == AddOf(sender.tracks[k])
  <2>2. c = d \/ \E i \in 1..Len(trackCh') : trackCh'[i] = d
    <3> HIDE DEF d
    <3>1. PICK i \in 1..Len(trackCh) : trackCh[i] = d
      BY <2>1 DEF Queued, d
    <3>2. i # 1 => i - 1 \in 1..Len(trackCh') /\ trackCh'[i - 1] = d
      BY <1>2, <3>1
    <3> QED BY <3>1, <3>2 DEF c
  <2> QED BY <1>1, <1>6, <2>2 DEF Queued, Taken
<1> QED BY <1>5, <1>9, <1>10, <1>11, <1>12, <1>13, <1>14 DEF ForwardingInv

(* What addTrack and removeTrack do to a record.                           *)
LEMMA AddTrackShape ==
  ASSUME NEW r \in Target, NEW t, NEW x \in Tracks, NEW b
  PROVE  LET s == AddTrack(r, t, x, b) IN
         /\ s \in Target /\ s.pc = r.pc
         /\ s.tracks \cup s.pending = r.tracks \cup r.pending \cup {x}
         /\ r.tracks \subseteq r.senders => s.tracks \subseteq s.senders
BY DEF AddTrack, Added, Target

LEMMA RemoveTrackShape ==
  ASSUME NEW r \in Target, NEW x, r.tracks \subseteq r.senders
  PROVE  LET s == RemoveTrack(r, x) IN
         /\ s \in Target /\ s.pc = r.pc
         /\ s.tracks \cup s.pending = (r.tracks \cup r.pending) \ {x}
         /\ s.tracks \subseteq s.senders
BY DEF RemoveTrack, Target

LEMMA TrackTargetStep ==
  ASSUME ForwardingInv, NEW t \in Targets, TrackTarget(t)
  PROVE  ForwardingInv'
<1> DEFINE r == target[t]
           x == tracker.track
           s == IF r.pc = NoPc THEN r
                ELSE IF tracker.remove THEN RemoveTrack(r, x)
                ELSE AddTrack(r, t, x, tracker.transceiver)
<1>1. /\ t \in tracker.todo
      /\ target' = [target EXCEPT ![t] = s]
      /\ \E b : tracker' = [tracker EXCEPT !.todo = @ \ {t}, !.transceiver = @ \/ b]
      /\ UNCHANGED <<sender, lastSender, resetting, track, connects, handler, trackCh,
                     receiverCh, receiver>>
  BY DEF TrackTarget, senderVars
<1>2. /\ target \in [Targets -> Target] /\ r \in Target /\ r.tracks \subseteq r.senders
      /\ tracker \in [todo : SUBSET Targets, track : Tracks \cup {NoTrack},
                      remove : BOOLEAN, transceiver : BOOLEAN]
  BY DEF ForwardingInv, TypeOK, TracksHaveSenders
<1>3. x \in Tracks
  BY <1>1, <1>2 DEF ForwardingInv, NotYet
<1>4. /\ s \in Target /\ s.pc = r.pc /\ s.tracks \subseteq s.senders
      /\ s.tracks \cup s.pending =
           IF r.pc = NoPc THEN {}
           ELSE IF tracker.remove THEN (r.tracks \cup r.pending) \ {x}
           ELSE r.tracks \cup r.pending \cup {x}
  <2>1. CASE r.pc = NoPc
    BY <1>2, <2>1 DEF ForwardingInv, OnlyConnected
  <2>2. CASE r.pc # NoPc /\ tracker.remove
    <3> HIDE DEF r, x
    <3>1. s = RemoveTrack(r, x)
      BY <2>2
    <3> QED BY <1>2, <2>2, <3>1, RemoveTrackShape
  <2>3. CASE r.pc # NoPc /\ ~tracker.remove
    <3>1. r \in Target /\ r.tracks \subseteq r.senders
      BY <1>2
    <3> HIDE DEF r, x
    <3> DEFINE a == AddTrack(r, t, x, tracker.transceiver)
    <3>2. /\ a \in Target /\ a.pc = r.pc
          /\ a.tracks \cup a.pending = r.tracks \cup r.pending \cup {x}
          /\ r.tracks \subseteq r.senders => a.tracks \subseteq a.senders
      BY <1>3, <3>1, AddTrackShape
    <3>3. s = a /\ r.pc # NoPc /\ ~tracker.remove
      BY <2>3
    <3> HIDE DEF s, a
    <3> QED BY <3>1, <3>2, <3>3
  <2> QED BY <2>1, <2>2, <2>3
<1>5. /\ tracker'.todo = tracker.todo \ {t} /\ tracker'.track = x
      /\ tracker'.remove = tracker.remove
      /\ tracker' \in [todo : SUBSET Targets, track : Tracks \cup {NoTrack},
                       remove : BOOLEAN, transceiver : BOOLEAN]
  BY <1>1, <1>2
<1> HIDE DEF s
<1>6. /\ target' \in [Targets -> Target] /\ target'[t] = s
      /\ \A u \in Targets : u # t => target'[u] = target[u]
  BY <1>1, <1>2, <1>4
<1>7. TypeOK'
  BY <1>1, <1>5, <1>6 DEF ForwardingInv, TypeOK
<1>8. TracksHaveSenders' /\ OnlyConnected' /\ RegisteredLive'
  <2>1. s.pc = NoPc => s.tracks = {} /\ s.pending = {}
    BY <1>4
  <2>2. \A u \in Targets : target'[u].pc = target[u].pc
    BY <1>4, <1>6
  <2>3. TracksHaveSenders' /\ RegisteredLive'
    BY <1>1, <1>4, <1>6 DEF ForwardingInv, TracksHaveSenders, RegisteredLive
  <2>4. OnlyConnected'
    BY <1>1, <1>4, <1>6, <2>1, <2>2 DEF ForwardingInv, OnlyConnected
  <2> QED BY <2>3, <2>4
<1>9. \A y, u : u # t => (y \in Forwarded(u)' <=> y \in Forwarded(u)) \/ u \notin Targets
  BY <1>6 DEF Forwarded
<1>10. \A y : y \in Forwarded(t)' <=> /\ r.pc # NoPc
                                      /\ IF tracker.remove THEN y # x /\ y \in Forwarded(t)
                                         ELSE y = x \/ y \in Forwarded(t)
  BY <1>4, <1>6 DEF Forwarded
<1>11. \A y : (Taken(AddOf(y))' <=> Taken(AddOf(y))) /\ (Taken(RemovalOf(y))' <=> Taken(RemovalOf(y)))
  BY <1>5 DEF Taken, AddOf, RemovalOf
<1>12. \A y : (Taken(AddOf(y)) <=> y = x /\ tracker.remove = FALSE)
              /\ (Taken(RemovalOf(y)) <=> y = x /\ tracker.remove = TRUE)
  BY DEF Taken, AddOf, RemovalOf
<1>13. \A d : d' = d => (Queued(d)' <=> Queued(d))
  BY <1>1 DEF Queued
<1>14. NotYet'
  <2>1. \A y \in Tracks : track[y].pump = "none" =>
          \A u \in Targets : y \notin Forwarded(u)'
    <3> SUFFICES ASSUME NEW y \in Tracks, track[y].pump = "none", NEW u \in Targets
                 PROVE  y \notin Forwarded(u)'
      OBVIOUS
    <3>1. y # x /\ y \notin Forwarded(u)
      BY <1>1 DEF ForwardingInv, NotYet, Forwarded
    <3> HIDE DEF r, x
    <3> QED BY <1>9, <1>10, <3>1
  <2>2. \A y \in Tracks : track[y].pump = "none" =>
          /\ \A u \in Targets : y \notin target'[u].tracks /\ y \notin target'[u].pending
          /\ \A i \in 1..Len(trackCh) : trackCh[i].track # y
          /\ y # x
    BY <1>1, <2>1 DEF ForwardingInv, NotYet, Forwarded
  <2> QED BY <1>1, <1>3, <1>5, <2>2, TrackNumbers DEF NotYet
<1>15. RemovalFollows'
  <2> SUFFICES ASSUME NEW y \in Tracks, track[y].pump = "done"
      PROVE  /\ \A i \in 1..Len(trackCh) : trackCh[i] = AddOf(y) =>
                  \E j \in 1..Len(trackCh) : j > i /\ trackCh[j] = RemovalOf(y)
             /\ tracker'.todo # {} /\ Taken(AddOf(y))' => Queued(RemovalOf(y))
    BY <1>1 DEF RemovalFollows, Queued, Taken
  <2>1. tracker'.todo # {} => tracker.todo # {}
    BY <1>1
  <2> QED BY <1>11, <2>1 DEF ForwardingInv, RemovalFollows
<1>16. DeadRemoved'
  <2> SUFFICES ASSUME NEW y \in Tracks, NEW u \in Targets, track[y].pump = "done",
                      y \in Forwarded(u)', ~Queued(RemovalOf(y))
               PROVE  Taken(RemovalOf(y)) /\ u \in tracker.todo \ {t}
    BY <1>1, <1>5 DEF DeadRemoved, Queued, Taken, RemovalOf
  <2>1. CASE u # t
    BY <1>9, <2>1 DEF ForwardingInv, DeadRemoved
  <2>2. CASE u = t
    <3> HIDE DEF r
    <3>1. CASE tracker.remove
      BY <1>2, <1>10, <1>12, <2>2, <3>1 DEF ForwardingInv, DeadRemoved
    <3>2. CASE ~tracker.remove
      <4>1. ~Taken(AddOf(y))
        BY <1>1 DEF ForwardingInv, RemovalFollows
      <4>2. y # x
        BY <1>2, <1>12, <3>2, <4>1
      <4>3. y \in Forwarded(t)
        BY <1>10, <2>2, <3>2, <4>2
      <4>4. ~Taken(RemovalOf(y))
        BY <1>12, <4>2
      <4> QED BY <4>3, <4>4 DEF ForwardingInv, DeadRemoved
    <3> QED BY <3>1, <3>2
  <2> QED BY <2>1, <2>2
<1>17. ResetRemoves'
  BY <1>1, <1>5 DEF ForwardingInv, ResetRemoves, Taken, Queued, RemovalOf
<1>18. MissingAdded'
  <2> SUFFICES ASSUME ~resetting.busy, NEW k \in Kinds, NEW u \in Targets,
                      sender.tracks[k] # NoTrack, target'[u].pc # NoPc,
                      sender.tracks[k] \notin Forwarded(u)',
                      track[sender.tracks[k]].pump # "announce", ~Visited(u),
                      ~Queued(AddOf(sender.tracks[k]))
               PROVE  Taken(AddOf(sender.tracks[k])) /\ u \in tracker.todo \ {t}
    <3>1. /\ UNCHANGED <<resetting, sender, track>>
          /\ \A u \in Targets : Visited(u)' <=> Visited(u)
          /\ \A c : /\ Queued(c)' <=> Queued(c)
                    /\ Taken(c)' <=> Taken(c)
      BY <1>1, <1>5 DEF Visited, Queued, Taken
    <3> QED BY <1>5, <3>1 DEF MissingAdded, AddOf
  <2> DEFINE y == sender.tracks[k]
  <2>1. target[u].pc # NoPc
    BY <1>4, <1>6
  <2>2. y \notin Forwarded(u) => Taken(AddOf(y)) /\ u \in tracker.todo
    BY <2>1 DEF ForwardingInv, MissingAdded
  <2>3. tracker.remove = TRUE => y # x
    <3>1. ~Taken(RemovalOf(y))
      BY <1>1 DEF ForwardingInv, ResetRemoves
    <3> QED BY <1>12, <3>1
  <2> HIDE DEF y, r, x
  <2>4. u # t
    <3> SUFFICES ASSUME u = t
                 PROVE  FALSE
      OBVIOUS
    <3>1. y \notin Forwarded(t)'
      BY DEF y
    <3>2. r.pc # NoPc
      BY <2>1 DEF r
    <3>3. CASE tracker.remove
      <4>1. y \notin Forwarded(t) /\ tracker.remove = TRUE
        BY <1>2, <1>10, <2>3, <3>1, <3>2, <3>3
      <4> QED BY <1>12, <2>2, <4>1
    <3>4. CASE ~tracker.remove
      <4>1. y # x /\ y \notin Forwarded(t)
        BY <1>10, <3>1, <3>2, <3>4
      <4> QED BY <1>12, <2>2, <4>1
    <3> QED BY <3>3, <3>4
  <2>5. y \notin Forwarded(u)
    BY <1>9, <2>4 DEF y
  <2> QED BY <2>2, <2>4, <2>5 DEF y
<1> QED BY <1>7, <1>8, <1>14, <1>15, <1>16, <1>17, <1>18 DEF ForwardingInv

-----------------------------------------------------------------------------
(* The records of targets change otherwise: none gets a track that the     *)
(* sender has not, and one that is connected loses none, but when it is    *)
(* given all or will be visited by the receiver worker.                    *)
LEMMA TargetStep ==
  ASSUME ForwardingInv, TypeOK', TracksHaveSenders', OnlyConnected',
         UNCHANGED <<sender, resetting, track, trackCh, tracker>>,
         \A t \in Targets : Forwarded(t)' \subseteq Forwarded(t) \cup Registered,
         \A t \in Targets : target'[t].pc # NoPc =>
           \/ Registered \subseteq Forwarded(t)'
           \/ Visited(t)'
           \/ /\ target[t].pc # NoPc /\ Forwarded(t) \subseteq Forwarded(t)'
              /\ ~Visited(t)
  PROVE  ForwardingInv'
<1>1. \A y \in Registered : y \in Tracks /\ track[y].pump \in {"announce", "reading", "delete"}
  BY DEF Registered, ForwardingInv, TypeOK, RegisteredLive
<1>2. RegisteredLive' /\ RemovalFollows' /\ ResetRemoves'
  BY DEF ForwardingInv, RegisteredLive, RemovalFollows, ResetRemoves, Queued, Taken
<1>3. NotYet'
  <2>1. \A y \in Tracks, t \in Targets : track[y].pump = "none" => y \notin Forwarded(t)'
    BY <1>1 DEF ForwardingInv, NotYet, Forwarded
  <2> QED BY <2>1 DEF ForwardingInv, NotYet, Forwarded
<1>4. DeadRemoved'
  <2> SUFFICES ASSUME NEW y \in Tracks, NEW t \in Targets, track[y].pump = "done",
                      y \in Forwarded(t)'
               PROVE  Queued(RemovalOf(y)) \/ (Taken(RemovalOf(y)) /\ t \in tracker.todo)
    BY DEF DeadRemoved, Queued, Taken
  <2>1. y \in Forwarded(t)
    BY <1>1
  <2> QED BY <2>1 DEF ForwardingInv, DeadRemoved
<1>5. MissingAdded'
  <2> SUFFICES ASSUME ~resetting.busy, NEW k \in Kinds, NEW t \in Targets,
                      sender.tracks[k] # NoTrack, target'[t].pc # NoPc,
                      sender.tracks[k] \notin Forwarded(t)', ~Visited(t)'
               PROVE  \/ track[sender.tracks[k]].pump = "announce"
                      \/ Queued(AddOf(sender.tracks[k]))
                      \/ Taken(AddOf(sender.tracks[k])) /\ t \in tracker.todo
    BY DEF MissingAdded, Queued, Taken, Visited, Forwarded
  <2>1. sender.tracks[k] \in Registered
    BY DEF Registered
  <2>2. target[t].pc # NoPc /\ sender.tracks[k] \notin Forwarded(t) /\ ~Visited(t)
    BY <2>1
  <2> QED BY <2>2 DEF ForwardingInv, MissingAdded
<1> QED BY <1>2, <1>3, <1>4, <1>5 DEF ForwardingInv

LEMMA ReceiverStep ==
  ASSUME ForwardingInv, ReceiverTake \/ ReceiverLock \/ ReceiverPush
  PROVE  ForwardingInv'
<1>1. UNCHANGED <<sender, lastSender, resetting, track, target, connects, trackCh, tracker>>
  BY DEF ReceiverTake, ReceiverLock, ReceiverPush, senderVars, targetVars, targetEnv, workerVars
<1>2. /\ receiverCh \in Seq(Targets) /\ Len(receiverCh) <= ChSize
      /\ handler \in Targets \cup {Nobody}
      /\ receiver \in [at : {"idle", "target", "sender"}, target : Targets \cup {Nobody}]
      /\ ChSize \in Nat /\ Len(receiverCh) \in Nat
  BY ForwardingAssumption, LenProperties DEF ForwardingInv, TypeOK, ForwardingAssumption
<1>3. ASSUME /\ receiverCh' \in Seq(Targets) /\ Len(receiverCh') <= ChSize
             /\ handler' \in Targets \cup {Nobody}
             /\ receiver' \in [at : {"idle", "target", "sender"}, target : Targets \cup {Nobody}]
             /\ receiver'.at # "idle" => receiver'.target \in Targets
             /\ receiver'.at = "sender" => target[receiver'.target].pc # NoPc,
             \A t \in Targets : target[t].pc # NoPc /\ Visited(t) => Visited(t)'
      PROVE  ForwardingInv'
  <2>1. TypeOK'
    BY <1>1, <1>3 DEF ForwardingInv, TypeOK
  <2>2. TracksHaveSenders' /\ OnlyConnected'
    BY <1>1, <1>3 DEF ForwardingInv, TracksHaveSenders, OnlyConnected
  <2> QED BY <1>1, <1>3, <2>1, <2>2, TargetStep DEF Forwarded
<1>4. CASE ReceiverTake
  <2>1. /\ receiver.at = "idle" /\ receiverCh # <<>> /\ receiverCh' = Tail(receiverCh)
        /\ receiver' = [at |-> "target", target |-> Head(receiverCh)] /\ UNCHANGED handler
    BY <1>4 DEF ReceiverTake, targetVars
  <2>2. /\ receiverCh' \in Seq(Targets) /\ Len(receiverCh') = Len(receiverCh) - 1
        /\ Head(receiverCh) = receiverCh[1] /\ receiverCh[1] \in Targets
        /\ \A i \in 1..Len(receiverCh) - 1 : receiverCh'[i] = receiverCh[i + 1]
    BY <1>2, <2>1, Popped
  <2>3. ASSUME NEW t \in Targets, Visited(t)
        PROVE  Visited(t)'
    <3>1. CASE handler = t
      BY <2>1, <3>1 DEF Visited
    <3>2. CASE \E i \in 1..Len(receiverCh) : receiverCh[i] = t
      <4>1. PICK i \in 1..Len(receiverCh) : receiverCh[i] = t
        BY <3>2
      <4>2. CASE i = 1
        <5>1. receiver'.at # "idle" /\ receiver'.target = t
          BY <2>1, <2>2, <4>1, <4>2
        <5> QED BY <5>1 DEF Visited
      <4>3. CASE i # 1
        <5>1. i - 1 \in 1..Len(receiverCh') /\ receiverCh'[i - 1] = t
          BY <1>2, <2>2, <4>1, <4>3
        <5> QED BY <5>1 DEF Visited
      <4> QED BY <4>2, <4>3
    <3> QED BY <2>1, <2>3, <3>1, <3>2 DEF Visited
  <2>4. /\ Len(receiverCh') <= ChSize /\ handler' \in Targets \cup {Nobody}
        /\ receiver' \in [at : {"idle", "target", "sender"}, target : Targets \cup {Nobody}]
        /\ receiver'.at = "target" /\ receiver'.target \in Targets
    BY <1>2, <2>1, <2>2
  <2> QED BY <1>3, <2>2, <2>3, <2>4
<1>5. CASE ReceiverLock
  <2>1. /\ receiver.at = "target" /\ UNCHANGED <<handler, receiverCh>>
        /\ receiver' = IF target[receiver.target].pc # NoPc
                       THEN [receiver EXCEPT !.at = "sender"] ELSE ReceiverIdle
    BY <1>5 DEF ReceiverLock, targetVars
  <2>2. receiver' \in [at : {"idle", "target", "sender"}, target : Targets \cup {Nobody}]
    BY <1>2, <2>1 DEF ReceiverIdle
  <2>3. target[receiver.target].pc # NoPc => receiver'.at # "idle" /\ receiver'.target = receiver.target
    BY <1>2, <2>1
  <2>4. \A t \in Targets : target[t].pc # NoPc /\ Visited(t) => Visited(t)'
    BY <2>1, <2>3 DEF Visited
  <2>5. ~target[receiver.target].pc # NoPc => receiver'.at = "idle"
    BY <2>1 DEF ReceiverIdle
  <2>6. receiver.target \in Targets
    BY <2>1 DEF ForwardingInv, OnlyConnected
  <2> QED BY <1>2, <1>3, <2>1, <2>2, <2>3, <2>4, <2>5, <2>6
<1>6. CASE ReceiverPush
  <2>1. /\ handler # Nobody /\ ~Full(receiverCh) /\ handler' = Nobody
        /\ receiverCh' = Append(receiverCh, handler) /\ UNCHANGED receiver
    BY <1>6 DEF ReceiverPush, targetEnv, workerVars
  <2>2. handler \in Targets
    BY <1>2, <2>1
  <2>3. /\ receiverCh' \in Seq(Targets) /\ Len(receiverCh') = Len(receiverCh) + 1
        /\ \A i \in 1..Len(receiverCh) : receiverCh'[i] = receiverCh[i]
        /\ receiverCh'[Len(receiverCh) + 1] = handler
    BY <1>2, <2>1, <2>2, Pushed
  <2>4. Len(receiverCh') <= ChSize
    BY <1>2, <2>1, <2>3, ForwardingAssumption DEF ForwardingAssumption, Full
  <2>5. \A t \in Targets : Visited(t) => Visited(t)'
    <3>1. Len(receiverCh) + 1 \in 1..Len(receiverCh')
      BY <1>2, <2>3
    <3>2. 1..Len(receiverCh) \subseteq 1..Len(receiverCh')
      BY <1>2, <2>3
    <3> QED BY <2>1, <2>3, <3>1, <3>2 DEF Visited
  <2> QED BY <1>2, <1>3, <2>1, <2>3, <2>4, <2>5 DEF ForwardingInv, OnlyConnected
<1> QED BY <1>4, <1>5, <1>6

(* One record changes, which the receiver worker has not locked or gives   *)
(* up now.                                                                 *)
LEMMA RecordStep ==
  ASSUME ForwardingInv, NEW t \in Targets, NEW r \in Target, target' = [target EXCEPT ![t] = r],
         r.tracks \subseteq r.senders,
         r.pc = NoPc => r.tracks = {} /\ r.pending = {},
         r.tracks \cup r.pending \subseteq Forwarded(t) \cup Registered,
         UNCHANGED <<sender, lastSender, resetting, track, receiverCh, trackCh, tracker>>,
         connects' \in 0..MaxConnects, handler' \in Targets \cup {Nobody},
         receiver' = receiver \/ receiver' = ReceiverIdle,
         receiver'.at = "sender" /\ receiver.target = t => r.pc # NoPc,
         \A u \in Targets : u # t /\ Visited(u) => Visited(u)',
         \/ r.pc = NoPc
         \/ Registered \subseteq r.tracks \cup r.pending
         \/ Visited(t)'
         \/ /\ target[t].pc # NoPc /\ Forwarded(t) \subseteq r.tracks \cup r.pending
            /\ ~Visited(t)
  PROVE  ForwardingInv'
<1>1. /\ target \in [Targets -> Target]
      /\ receiver \in [at : {"idle", "target", "sender"}, target : Targets \cup {Nobody}]
  BY DEF ForwardingInv, TypeOK
<1>2. /\ target' \in [Targets -> Target] /\ target'[t] = r
      /\ \A u \in Targets : u # t => target'[u] = target[u]
  BY <1>1
<1>3. TypeOK'
  <2>1. receiver' \in [at : {"idle", "target", "sender"}, target : Targets \cup {Nobody}]
    BY <1>1 DEF ReceiverIdle
  <2> QED BY <1>2, <2>1 DEF ForwardingInv, TypeOK
<1>4. TracksHaveSenders'
  BY <1>2 DEF ForwardingInv, TracksHaveSenders
<1>5. OnlyConnected'
  <2>1. receiver'.at # "idle" => receiver' = receiver
    BY DEF ReceiverIdle
  <2> QED BY <1>2, <2>1 DEF ForwardingInv, OnlyConnected
<1>6. /\ Forwarded(t)' = r.tracks \cup r.pending
      /\ \A u \in Targets : u # t => /\ Forwarded(u)' = Forwarded(u)
                                     /\ target'[u].pc = target[u].pc
  BY <1>2 DEF Forwarded
<1> QED BY <1>2, <1>3, <1>4, <1>5, <1>6, TargetStep

LEMMA ReceiverFillStep ==
  ASSUME ForwardingInv, ReceiverFill
  PROVE  ForwardingInv'
<1> DEFINE t == receiver.target
           s == Filled(target[t], t)
<1>1. /\ receiver.at = "sender" /\ target' = [target EXCEPT ![t] = s]
      /\ receiver' = ReceiverIdle
      /\ UNCHANGED <<sender, lastSender, resetting, track, connects, handler, trackCh,
                     receiverCh, tracker>>
  BY DEF ReceiverFill, senderVars
<1>2. /\ t \in Targets /\ target[t] \in Target /\ target[t].pc # NoPc
      /\ target[t].tracks \subseteq target[t].senders
      /\ connects \in 0..MaxConnects /\ handler \in Targets \cup {Nobody}
  BY <1>1 DEF ForwardingInv, OnlyConnected, TypeOK, TracksHaveSenders
<1>3. Registered \subseteq Tracks
  BY DEF Registered, ForwardingInv, TypeOK
<1>4. /\ s \in Target /\ s.pc # NoPc /\ s.tracks \subseteq s.senders
      /\ s.tracks \cup s.pending = Forwarded(t) \cup Registered
  <2> DEFINE new == Registered \ (target[t].tracks \cup target[t].pending)
  <2>1. new \subseteq Tracks
    BY <1>3
  <2>2. new \cup Forwarded(t) = Forwarded(t) \cup Registered
    BY DEF Forwarded
  <2>3. s = IF t \in Initiators THEN Added(target[t], new)
            ELSE [target[t] EXCEPT !.pending = @ \cup new]
    BY DEF Filled
  <2> HIDE DEF new, s
  <2> QED BY <1>2, <2>1, <2>2, <2>3 DEF Added, Target, Forwarded
<1>5. \A u \in Targets : u # t /\ Visited(u) => Visited(u)'
  BY <1>1 DEF Visited
<1>6. receiver'.at = "idle"
  BY <1>1 DEF ReceiverIdle
<1> HIDE DEF t, s
<1> QED BY <1>1, <1>2, <1>4, <1>5, <1>6, RecordStep

LEMMA TargetSteps ==
  ASSUME ForwardingInv, NEW t \in Targets,
         TargetConnect(t) \/ TargetClear(t) \/ TargetReset(t) \/ TargetOffer(t)
  PROVE  ForwardingInv'
<1> DEFINE r == target[t]
<1>1. /\ UNCHANGED <<sender, lastSender, resetting, track, receiverCh, trackCh, tracker, receiver>>
      /\ ~TargetLocked(t)
  BY DEF TargetConnect, TargetClear, TargetReset, TargetOffer, targetEnv, senderVars, workerVars
<1>2. /\ r \in Target /\ r.tracks \subseteq r.senders
      /\ r.pc = NoPc => r.tracks = {} /\ r.pending = {}
      /\ connects \in 0..MaxConnects /\ MaxConnects \in Nat
      /\ handler \in Targets \cup {Nobody}
  BY ForwardingAssumption
     DEF ForwardingInv, TypeOK, TracksHaveSenders, OnlyConnected, ForwardingAssumption
<1>3. ~(receiver.at = "sender" /\ receiver.target = t)
  BY <1>1 DEF TargetLocked
<1>4. CASE TargetConnect(t)
  <2> DEFINE s == [(IF r.pc # NoPc THEN Cleared(r) ELSE r) EXCEPT !.pc = connects + 1]
  <2>1. /\ target' = [target EXCEPT ![t] = s] /\ handler' = t
        /\ handler = Nobody /\ connects' \in 0..MaxConnects
    BY <1>2, <1>4 DEF TargetConnect, ReadPumpIdle
  <2>2. s \in Target /\ s.pc # NoPc /\ s.tracks = {} /\ s.pending = {}
    <3>1. connects + 1 \in 0..MaxConnects /\ connects + 1 # NoPc
      BY <1>2, <1>4 DEF TargetConnect, NoPc
    <3> QED BY <1>2, <3>1 DEF Cleared, Target, NoPc
  <2>3. Visited(t)' /\ \A u \in Targets : u # t /\ Visited(u) => Visited(u)'
    BY <1>1, <2>1, ForwardingAssumption DEF Visited, ForwardingAssumption
  <2> HIDE DEF s
  <2> QED BY <1>1, <2>1, <2>2, <2>3, RecordStep
<1>5. ASSUME ~TargetConnect(t)
      PROVE  /\ UNCHANGED <<connects, handler>>
             /\ \A u \in Targets : Visited(u) <=> Visited(u)'
  BY <1>1, <1>5 DEF TargetClear, TargetReset, TargetOffer, Visited
<1>6. CASE TargetClear(t) /\ ~TargetConnect(t)
  <2> DEFINE s == Cleared(r)
  <2>1. target' = [target EXCEPT ![t] = s]
    BY <1>6 DEF TargetClear
  <2>2. s \in Target /\ s.pc = NoPc /\ s.tracks = {} /\ s.pending = {}
    <3>1. r \in Target /\ NoPc \in 0..MaxConnects
      BY <1>2 DEF NoPc
    <3> HIDE DEF r
    <3> QED BY <3>1 DEF Cleared, Target
  <2>3. /\ connects' \in 0..MaxConnects /\ handler' \in Targets \cup {Nobody}
        /\ \A u \in Targets : Visited(u) => Visited(u)'
    BY <1>2, <1>5, <1>6
  <2>4. /\ s.tracks \subseteq s.senders
        /\ s.tracks \cup s.pending \subseteq Forwarded(t) \cup Registered
        /\ receiver' = receiver /\ ~(receiver'.at = "sender" /\ receiver.target = t)
    BY <1>1, <1>3, <2>2
  <2>5. UNCHANGED <<sender, lastSender, resetting, track, receiverCh, trackCh, tracker>>
    BY <1>1
  <2> HIDE DEF s, r
  <2> QED BY <2>1, <2>2, <2>3, <2>4, <2>5, RecordStep
<1>7. CASE TargetReset(t) /\ ~TargetConnect(t)
  <2>1. target' = [target EXCEPT ![t] = NotConnected]
    BY <1>7 DEF TargetReset
  <2>2. /\ NotConnected \in Target /\ NotConnected.pc = NoPc
        /\ NotConnected.tracks = {} /\ NotConnected.pending = {}
    BY <1>2 DEF NotConnected, Target, NoPc
  <2> QED BY <1>1, <1>2, <1>3, <1>5, <1>7, <2>1, <2>2, RecordStep
<1>8. CASE TargetOffer(t) /\ ~TargetConnect(t)
  <2> DEFINE s == [Added(r, r.pending \ r.tracks) EXCEPT !.pending = {}]
  <2>1. target' = [target EXCEPT ![t] = s] /\ r.pc # NoPc
    BY <1>8 DEF TargetOffer
  <2>2. /\ s \in Target /\ s.pc # NoPc /\ s.tracks \subseteq s.senders
        /\ s.tracks \cup s.pending = Forwarded(t)
    BY <1>2, <2>1 DEF Added, Target, Forwarded
  <2> HIDE DEF s
  <2>3. Visited(t) => Visited(t)'
    BY <1>5, <1>8
  <2> QED BY <1>1, <1>2, <1>3, <1>5, <1>8, <2>1, <2>2, <2>3, RecordStep
<1> QED BY <1>4, <1>6, <1>7, <1>8

-----------------------------------------------------------------------------
LEMMA ForwardingInit ==
  ASSUME Init
  PROVE  ForwardingInv
<1> USE ForwardingAssumption DEF ForwardingAssumption
<1>1. /\ sender \in [pc : 0..MaxSenders, tracks : [Kinds -> Tracks \cup {NoTrack}]]
      /\ \A k \in Kinds : sender.tracks[k] = NoTrack
  BY DEF Init, NoTracks, NoPc
<1>2. /\ track \in [Tracks -> [kind : Kinds, pc : 0..MaxSenders, pump : PumpPoint]]
      /\ \A x \in Tracks : track[x].pump = "none"
  BY DEF Init, NoPc, PumpPoint
<1>3. /\ target \in [Targets -> Target]
      /\ \A t \in Targets : target[t].tracks = {} /\ target[t].pending = {}
  BY DEF Init, NotConnected, Target, NoPc
<1>4. /\ trackCh = <<>> /\ receiverCh = <<>> /\ trackCh \in Seq(Change) /\ receiverCh \in Seq(Targets)
      /\ Len(trackCh) = 0 /\ Len(receiverCh) = 0
  BY EmptySeq DEF Init
<1>5. /\ resetting \in [busy : BOOLEAN, locked : BOOLEAN, handler : BOOLEAN, todo : SUBSET Kinds]
      /\ resetting.todo = {}
  BY DEF Init
<1>6. /\ tracker \in [todo : SUBSET Targets, track : Tracks \cup {NoTrack},
                      remove : BOOLEAN, transceiver : BOOLEAN]
      /\ tracker.todo = {}
      /\ receiver \in [at : {"idle", "target", "sender"}, target : Targets \cup {Nobody}]
      /\ receiver.at = "idle"
  BY DEF Init, ReceiverIdle
<1>7. TypeOK
  BY <1>1, <1>2, <1>3, <1>4, <1>5, <1>6 DEF TypeOK, Init
<1>8. TracksHaveSenders /\ OnlyConnected /\ RegisteredLive
  BY <1>1, <1>3, <1>6 DEF TracksHaveSenders, OnlyConnected, RegisteredLive
<1>9. NotYet /\ RemovalFollows /\ DeadRemoved
  BY <1>2, <1>3, <1>4, <1>6 DEF NotYet, RemovalFollows, DeadRemoved
<1>10. ResetRemoves /\ MissingAdded
  BY <1>1, <1>5 DEF ResetRemoves, MissingAdded
<1> QED BY <1>7, <1>8, <1>9, <1>10 DEF ForwardingInv

LEMMA ForwardingStep ==
  ASSUME ForwardingInv, [Next]_vars
  PROVE  ForwardingInv'
<1>1. CASE UNCHANGED vars
  <2>1. /\ TypeOK' /\ TracksHaveSenders' /\ OnlyConnected' /\ RegisteredLive' /\ NotYet'
    BY <1>1 DEF vars, senderVars, targetVars, workerVars, ForwardingInv, TypeOK,
       TracksHaveSenders, OnlyConnected, RegisteredLive, NotYet
  <2> QED BY <1>1, <2>1, SenderStep DEF vars, senderVars, targetVars, workerVars, ForwardingInv, ResetRemoves
<1>2. CASE SenderConnect \/ SenderClear \/ SenderReset \/ Resetter
  BY <1>2, ForwardingAssumption, SenderSteps, ResetPushStep DEF Resetter
<1>3. CASE \E x \in Tracks : OnTrack(x) \/ PumpStep(x) \/ PumpEnds(x)
  BY <1>3, OnTrackStep, PumpPushes, PumpEndsStep DEF PumpStep
<1>4. CASE TrackWorker \/ ReceiverWorker \/ ReceiverPush
  BY <1>4, TrackTakeStep, TrackTargetStep, ReceiverStep, ReceiverFillStep
     DEF TrackWorker, ReceiverWorker
<1>5. CASE \E t \in Targets : TargetConnect(t) \/ TargetClear(t) \/ TargetReset(t) \/ TargetOffer(t)
  BY <1>5, TargetSteps
<1> QED BY <1>1, <1>2, <1>3, <1>4, <1>5 DEF Next

LEMMA ForwardingInvariant == Spec => []ForwardingInv
<1>1. Init => ForwardingInv
  BY ForwardingInit
<1>2. ForwardingInv /\ [Next]_vars => ForwardingInv'
  BY ForwardingStep
<1> QED BY <1>1, <1>2, PTL DEF Spec

(* Every variable keeps its type, and no channel gets more than it holds.  *)
THEOREM ForwardingTypes == Spec => []TypeOK
<1>1. ForwardingInv => TypeOK
  BY DEF ForwardingInv
<1> QED BY <1>1, ForwardingInvariant, PTL

(* Whatever was added to a target can be removed from it.                  *)
THEOREM TracksRemovable == Spec => []TracksHaveSenders
<1>1. ForwardingInv => TracksHaveSenders
  BY DEF ForwardingInv
<1> QED BY <1>1, ForwardingInvariant, PTL

(* When nobody has anything left to do no target has a track that has      *)
(* ended, however many targets there are and whatever became of them.      *)
THEOREM DeadTracksRemoved == Spec => []NoDeadTrack
<1>1. ASSUME ForwardingInv, Quiet, NEW t \in Targets, NEW x \in Forwarded(t)
      PROVE  x \in Reading
  <2>1. x \in Tracks
    BY <1>1 DEF ForwardingInv, TypeOK, Target, Forwarded
  <2>2. Len(trackCh) = 0 /\ tracker.todo = {}
    BY <1>1 DEF Quiet
  <2>3. track[x].pump # "none"
    BY <1>1, <2>1 DEF ForwardingInv, NotYet, Forwarded
  <2>4. track[x].pump # "done"
    BY <1>1, <2>1, <2>2 DEF ForwardingInv, DeadRemoved, Queued
  <2> QED BY <1>1, <2>1, <2>3, <2>4 DEF Quiet, Reading
<1>2. ForwardingInv => NoDeadTrack
  BY <1>1 DEF NoDeadTrack
<1> QED BY <1>2, ForwardingInvariant, PTL

(* When nobody has anything left to do every connected target has the      *)
(* tracks of the sender.                                                   *)
THEOREM RegisteredTracksForwarded == Spec => []RegisteredForwarded
<1>1. ASSUME ForwardingInv, Quiet, NEW t \in Targets, target[t].pc # NoPc, NEW x \in Registered
      PROVE  x \in Forwarded(t)
  <2>1. PICK k \in Kinds : x = sender.tracks[k] /\ x # NoTrack
    BY <1>1 DEF Registered
  <2>2. x \in Tracks /\ track[x].pump # "announce"
    <3>1. x \in Tracks
      BY <1>1, <2>1 DEF ForwardingInv, TypeOK
    <3> QED BY <1>1, <3>1 DEF Quiet
  <2>3. Len(trackCh) = 0 /\ tracker.todo = {} /\ ~resetting.busy
    BY <1>1 DEF Quiet
  <2>4. ~Visited(t)
    <3>1. Len(receiverCh) = 0 /\ handler = Nobody /\ receiver.at = "idle"
      BY <1>1 DEF Quiet
    <3> QED BY <3>1, ForwardingAssumption DEF Visited, ForwardingAssumption
  <2> QED BY <1>1, <2>1, <2>2, <2>3, <2>4 DEF ForwardingInv, MissingAdded, Queued
<1>2. ForwardingInv => RegisteredForwarded
  BY <1>1 DEF RegisteredForwarded
<1> QED BY <1>2, ForwardingInvariant, PTL

-----------------------------------------------------------------------------
(* A full channel has something in it.                                     *)
LEMMA FullNotEmpty ==
  ASSUME NEW S, NEW ch \in Seq(S), Full(ch)
  PROVE  ch # <<>>
BY ForwardingAssumption, EmptySeq DEF ForwardingAssumption, Full

(* Whoever is asked for the one it waits for comes to somebody who goes    *)
(* on, or back to where the question began.                                *)
LEMMA CircleOrWorker ==
  ASSUME ForwardingInv
  PROVE  OnlyDeadlocksStop
<1> SUFFICES ASSUME ~Deadlocked, ~SomebodyGoesOn
    PROVE  /\ trackCh = <<>> /\ receiverCh = <<>> /\ tracker.todo = {}
           /\ receiver.at = "idle" /\ handler = Nobody /\ ~resetting.busy
  BY DEF OnlyDeadlocksStop
<1>1. /\ resetting.busy => ResetWaits
      /\ trackCh # <<>> \/ tracker.todo # {} => TrackWorkerWaits
      /\ receiverCh # <<>> \/ receiver.at # "idle" => ReceiverWorkerWaits
      /\ handler # Nobody => ReadPumpWaits
  BY DEF SomebodyGoesOn
<1>2. /\ trackCh \in Seq(Change) /\ receiverCh \in Seq(Targets)
      /\ tracker.todo \subseteq Targets /\ Nobody \notin Targets
      /\ receiver.at # "idle" => receiver.target \in Targets
      /\ receiver = [at |-> receiver.at, target |-> receiver.target]
  BY ForwardingAssumption DEF ForwardingAssumption, ForwardingInv, TypeOK, OnlyConnected
<1>3. ~(SenderLocked /\ receiver.at = "sender")
  <2> SUFFICES ASSUME SenderLocked, receiver.at = "sender" PROVE FALSE
    OBVIOUS
  <2>1. /\ Full(trackCh)
        /\ resetting.todo # {} /\ \A k \in resetting.todo : sender.tracks[k] # NoTrack
    BY <1>1 DEF SenderLocked, ResetWaits
  <2>2. TrackWorkerWaits
    BY <1>1, <1>2, <2>1, FullNotEmpty
  <2>3. PICK t \in tracker.todo : handler = t \/ receiver.target = t
    BY <2>2 DEF TrackWorkerWaits, TargetLocked
  <2>4. CASE receiver.target = t
    BY <2>1, <2>3, <2>4 DEF Deadlocked, ResetDeadlock
  <2>5. CASE handler = t
    <3>1. Full(receiverCh)
      BY <1>1, <1>2, <2>5 DEF ReadPumpWaits
    <3> QED BY <2>1, <2>5, <3>1 DEF Deadlocked, ConnectDeadlock
  <2> QED BY <2>3, <2>4, <2>5
<1>4. handler = Nobody
  <2> SUFFICES ASSUME handler # Nobody PROVE FALSE
    OBVIOUS
  <2>1. Full(receiverCh)
    BY <1>1 DEF ReadPumpWaits
  <2>2. ReceiverWorkerWaits
    BY <1>1, <1>2, <2>1, FullNotEmpty
  <2>3. receiver.at = "target" /\ receiver.target = handler
    BY <1>3, <2>2 DEF ReceiverWorkerWaits, TargetLocked
  <2> QED BY <1>2, <2>1, <2>3 DEF Deadlocked, ReceiverDeadlock
<1>5. receiver.at = "idle" /\ receiverCh = <<>>
  BY <1>1, <1>2, <1>3, <1>4 DEF ReceiverWorkerWaits, TargetLocked
<1>6. trackCh = <<>> /\ tracker.todo = {}
  BY <1>1, <1>2, <1>4, <1>5 DEF TrackWorkerWaits, TargetLocked
<1>7. ~resetting.busy
  BY <1>1, <1>2, <1>6, FullNotEmpty DEF ResetWaits
<1> QED BY <1>4, <1>5, <1>6, <1>7

(* While there is work somebody goes on, or one of the three circles has   *)
(* closed: in no other way can workers, resets and the readPump stop, for  *)
(* any number of targets and kinds and channels of any size.               *)
THEOREM CirclesAreKnown == Spec => []OnlyDeadlocksStop
BY CircleOrWorker, ForwardingInvariant, PTL

(* The steps that a goroutine in a circle could take.                      *)
LEMMA ReceiverDeadlockStays ==
  ASSUME ForwardingInv, ReceiverDeadlock, [Next]_vars
  PROVE  ReceiverDeadlock'
<1>1. /\ handler # Nobody /\ Full(receiverCh)
      /\ receiver.at = "target" /\ receiver.target = handler
  BY DEF ReceiverDeadlock
<1>2. UNCHANGED <<handler, receiverCh, receiver>>
  <2>1. CASE UNCHANGED vars
    BY <2>1 DEF vars, targetVars, workerVars
  <2>2. CASE SenderConnect \/ SenderClear \/ SenderReset \/ Resetter
    BY <2>2 DEF SenderConnect, SenderClear, SenderReset, Resetter, ResetPush, ResetDone,
       targetVars, workerVars
  <2>3. CASE \E x \in Tracks : OnTrack(x) \/ PumpStep(x) \/ PumpEnds(x)
    BY <2>3 DEF OnTrack, PumpStep, PumpAnnounce, PumpDelete, PumpRemove, PumpEnds, pumpEnv,
       targetVars, workerVars
  <2>4. CASE TrackWorker
    BY <2>4 DEF TrackWorker, TrackTake, TrackTarget, targetVars
  <2>5. CASE ReceiverWorker \/ ReceiverPush
    BY <1>1, <2>5 DEF ReceiverWorker, ReceiverTake, ReceiverLock, ReceiverFill, ReceiverPush,
       TargetLocked
  <2>6. CASE \E t \in Targets : TargetConnect(t) \/ TargetClear(t) \/ TargetReset(t) \/ TargetOffer(t)
    BY <1>1, <2>6 DEF TargetConnect, TargetClear, TargetReset, TargetOffer, targetEnv,
       workerVars, ReadPumpIdle
  <2> QED BY <2>1, <2>2, <2>3, <2>4, <2>5, <2>6 DEF Next
<1> QED BY <1>2 DEF ReceiverDeadlock, Full

(* A reset that waits with the sender's lock, with the track worker at a   *)
(* target that somebody has locked and the receiver worker at the sender.  *)
ResetStopped ==
  /\ SenderLocked /\ Full(trackCh)
  /\ \E k \in resetting.todo : sender.tracks[k] # NoTrack
  /\ receiver.at = "sender"

LEMMA ResetStoppedStays ==
  ASSUME ForwardingInv, ResetStopped, [Next]_vars, tracker.todo # {}
  PROVE  /\ ResetStopped'
         /\ UNCHANGED receiver
         /\ \A t \in tracker.todo : TargetLocked(t) => t \in tracker'.todo
<1>1. /\ resetting.busy /\ resetting.locked /\ Full(trackCh) /\ receiver.at = "sender"
  BY DEF ResetStopped, SenderLocked
<1>2. PICK k \in resetting.todo : sender.tracks[k] # NoTrack
  BY DEF ResetStopped
<1>3. resetting \in [busy : BOOLEAN, locked : BOOLEAN, handler : BOOLEAN, todo : SUBSET Kinds]
  BY DEF ForwardingInv, TypeOK
<1>4. CASE UNCHANGED <<trackCh, sender, resetting, tracker, receiver>>
  BY <1>4 DEF ResetStopped, SenderLocked, Full
<1>5. CASE SenderConnect \/ SenderClear \/ SenderReset \/ ResetDone
  BY <1>1, <1>2, <1>5 DEF SenderConnect, SenderClear, SenderReset, ResetDone, SenderLocked
<1>6. CASE ResetPush
  <2>1. PICK h \in resetting.todo :
          /\ IF sender.tracks[h] = NoTrack THEN UNCHANGED trackCh ELSE ~Full(trackCh)
          /\ resetting' = [resetting EXCEPT !.todo = @ \ {h}]
          /\ UNCHANGED <<sender, workerVars>>
    BY <1>6 DEF ResetPush
  <2>2. UNCHANGED <<trackCh, sender, tracker, receiver>> /\ h # k
    BY <1>1, <1>2, <2>1 DEF workerVars
  <2>3. resetting'.busy /\ resetting'.locked /\ k \in resetting'.todo
    BY <1>1, <1>3, <2>1, <2>2
  <2> QED BY <1>1, <1>2, <2>2, <2>3 DEF ResetStopped, SenderLocked, Full
<1>7. CASE \E x \in Tracks : OnTrack(x) \/ PumpStep(x) \/ PumpEnds(x)
  BY <1>1, <1>4, <1>7 DEF OnTrack, PumpStep, PumpAnnounce, PumpDelete, PumpRemove, PumpEnds,
     pumpEnv, workerVars, SenderLocked
<1>8. CASE TrackWorker
  <2>1. PICK t \in tracker.todo :
          /\ ~TargetLocked(t)
          /\ tracker'.todo = tracker.todo \ {t}
          /\ UNCHANGED <<trackCh, sender, resetting, receiver>>
    <3>1. PICK t \in Targets : TrackTarget(t)
      BY <1>8 DEF TrackWorker, TrackTake
    <3>2. tracker'.todo = tracker.todo \ {t}
      BY <3>1 DEF TrackTarget, ForwardingInv, TypeOK
    <3> QED BY <3>1, <3>2 DEF TrackTarget, senderVars
  <2> QED BY <2>1 DEF ResetStopped, SenderLocked, Full
<1>9. CASE ReceiverWorker \/ ReceiverPush
  BY <1>1, <1>4, <1>9 DEF ReceiverWorker, ReceiverTake, ReceiverLock, ReceiverFill,
     ReceiverPush, SenderLocked, targetEnv, senderVars, workerVars
<1>10. CASE \E t \in Targets : TargetConnect(t) \/ TargetClear(t) \/ TargetReset(t) \/ TargetOffer(t)
  BY <1>4, <1>10 DEF TargetConnect, TargetClear, TargetReset, TargetOffer, targetEnv,
     senderVars, workerVars
<1>11. CASE UNCHANGED vars
  BY <1>4, <1>11 DEF vars, senderVars, workerVars
<1> QED BY <1>5, <1>6, <1>7, <1>8, <1>9, <1>10, <1>11 DEF Next, Resetter

LEMMA DeadlockStep ==
  ASSUME ForwardingInv, Deadlocked, [Next]_vars
  PROVE  Deadlocked'
<1>1. CASE ReceiverDeadlock
  BY <1>1, ReceiverDeadlockStays DEF Deadlocked
<1>2. CASE ResetDeadlock
  <2>1. ResetStopped /\ receiver.target \in tracker.todo /\ TargetLocked(receiver.target)
    BY <1>2 DEF ResetDeadlock, ResetStopped, TargetLocked
  <2> QED BY <2>1, ResetStoppedStays DEF Deadlocked, ResetDeadlock, ResetStopped
<1>3. CASE ConnectDeadlock
  <2>1. /\ ResetStopped /\ handler \in tracker.todo /\ TargetLocked(handler)
        /\ Full(receiverCh) /\ receiver.at = "sender" /\ handler # Nobody
    BY <1>3, ForwardingAssumption
       DEF ConnectDeadlock, ResetStopped, TargetLocked, ForwardingAssumption, ForwardingInv, TypeOK
  <2>2. ResetStopped' /\ UNCHANGED receiver /\ handler \in tracker'.todo
    BY <2>1, ResetStoppedStays
  <2>3. UNCHANGED <<handler, receiverCh>>
    <3>1. CASE ReceiverWorker \/ ReceiverPush \/ TrackWorker
      BY <2>1, <3>1 DEF ReceiverWorker, ReceiverTake, ReceiverLock, ReceiverFill, ReceiverPush,
         TrackWorker, TrackTake, TrackTarget, targetVars
    <3>2. CASE \E t \in Targets : TargetConnect(t) \/ TargetClear(t) \/ TargetReset(t) \/ TargetOffer(t)
      BY <2>1, <3>2 DEF TargetConnect, TargetClear, TargetReset, TargetOffer, ReadPumpIdle
    <3>3. CASE \E x \in Tracks : OnTrack(x) \/ PumpStep(x) \/ PumpEnds(x)
      BY <3>3 DEF OnTrack, PumpStep, PumpAnnounce, PumpDelete, PumpRemove, PumpEnds, pumpEnv,
         targetVars
    <3>4. CASE SenderConnect \/ SenderClear \/ SenderReset \/ Resetter
      BY <3>4 DEF SenderConnect, SenderClear, SenderReset, Resetter, ResetPush, ResetDone, targetVars
    <3>5. CASE UNCHANGED vars
      BY <3>5 DEF vars, targetVars
    <3> QED BY <3>1, <3>2, <3>3, <3>4, <3>5 DEF Next
  <2>4. Full(receiverCh)'
    BY <2>1, <2>3 DEF Full
  <2> QED BY <2>2, <2>3, <2>4 DEF Deadlocked, ConnectDeadlock, ResetStopped
<1> QED BY <1>1, <1>2, <1>3 DEF Deadlocked

(* A circle once closed stays closed, whatever pumps, resets, callbacks    *)
(* and the remote still do.                                                *)
THEOREM CirclesStayClosed == Spec => DeadlocksStay
<1>1. ForwardingInv /\ [Next]_vars => [Deadlocked => Deadlocked']_vars
  BY DeadlockStep
<1> QED BY <1>1, ForwardingInvariant, PTL DEF Spec, DeadlocksStay

-----------------------------------------------------------------------------
(* The refinement of Distribution: what a step makes of the tracks and of  *)
(* the targets, in the terms of Forwarding. *)

Unmoved == \A x \in Tracks : TrackState(x)' = TrackState(x)
Keeps(t) == target'[t].pc = target[t].pc /\ Forwarded(t)' = Forwarded(t)
OthersKeep(t) == \A u \in Targets \ {t} : Keeps(u)
AllKeep == \A t \in Targets : Keeps(t)
Here(x) == TrackState(x) \in {"live", "leaving"}

(* A new peer connection of a target is none that it has had.              *)
Counted == \A t \in Targets : target[t].pc <= connects

LEMMA NothingMoves ==
  ASSUME Unmoved, AllKeep
  PROVE  UNCHANGED D!vars
<1>1. UNCHANGED [x \in Tracks |-> TrackState(x)]
  BY DEF Unmoved
<1>2. UNCHANGED [t \in Targets |-> target[t].pc]
  BY DEF AllKeep, Keeps
<1>3. UNCHANGED [t \in Targets |-> Forwarded(t)]
  BY DEF AllKeep, Keeps
<1> QED BY <1>1, <1>2, <1>3 DEF D!vars

LEMMA TracksMove ==
  ASSUME AllKeep
  PROVE  /\ UNCHANGED [t \in Targets |-> target[t].pc]
         /\ UNCHANGED [t \in Targets |-> Forwarded(t)]
<1>1. UNCHANGED [t \in Targets |-> target[t].pc]
  BY DEF AllKeep, Keeps
<1>2. UNCHANGED [t \in Targets |-> Forwarded(t)]
  BY DEF AllKeep, Keeps
<1> QED BY <1>1, <1>2

LEMMA TrackComes ==
  ASSUME AllKeep, NEW x \in Tracks, TrackState(x) = "new",
         TrackState(x)' \in {"live", "leaving"},
         \A y \in Tracks \ {x} : TrackState(y)' = TrackState(y)
  PROVE  D!Next
<1> DEFINE st == [y \in Tracks |-> TrackState(y)]
<1>1. st' = [st EXCEPT ![x] = TrackState(x)'] /\ st[x] = "new"
  OBVIOUS
<1>2. D!Come(x)
  BY <1>1, TracksMove DEF D!Come
<1> QED BY <1>2 DEF D!Next, D!Tracks, Tracks

LEMMA TracksLost ==
  ASSUME AllKeep,
         \A x \in Tracks : \/ TrackState(x)' = TrackState(x)
                           \/ TrackState(x) = "live" /\ TrackState(x)' = "leaving"
  PROVE  D!Next
<1> DEFINE st == [x \in Tracks |-> TrackState(x)]
           lost == {x \in Tracks : st[x] = "live" /\ st'[x] = "leaving"}
<1>1. st' = [x \in Tracks |-> IF x \in lost THEN "leaving" ELSE st[x]]
  OBVIOUS
<1>2. lost \in SUBSET {x \in Tracks : st[x] = "live"}
  OBVIOUS
<1>3. D!Lose
  <2> HIDE DEF lost
  <2> QED BY <1>1, <1>2, TracksMove DEF D!Lose, D!Live, D!Tracks, Tracks
<1> QED BY <1>3 DEF D!Next

LEMMA TrackVanishes ==
  ASSUME AllKeep, NEW x \in Tracks, TrackState(x) = "leaving", TrackState(x)' = "gone",
         \A y \in Tracks \ {x} : TrackState(y)' = TrackState(y),
         \A t \in Targets : x \notin Forwarded(t)
  PROVE  D!Next
<1> DEFINE st == [y \in Tracks |-> TrackState(y)]
<1>1. st' = [st EXCEPT ![x] = "gone"] /\ st[x] = "leaving"
  OBVIOUS
<1>2. D!Vanish(x)
  BY <1>1, TracksMove DEF D!Vanish, D!Leaving, D!Tracks, Tracks
<1> QED BY <1>2 DEF D!Next, D!Tracks, Tracks

LEMMA TargetGets ==
  ASSUME Unmoved, NEW t \in Targets, OthersKeep(t), NEW X \in SUBSET Tracks,
         \A x \in X : Here(x),
         \/ /\ target[t].pc # NoPc /\ target'[t].pc = target[t].pc
            /\ Forwarded(t)' = Forwarded(t) \cup X
         \/ /\ target'[t].pc \in 1..MaxConnects /\ target[t].pc < target'[t].pc
            /\ Forwarded(t)' = X
         \/ target'[t].pc = NoPc /\ Forwarded(t)' = {}
  PROVE  D!Next
<1> DEFINE st == [y \in Tracks |-> TrackState(y)]
           conn == [u \in Targets |-> target[u].pc]
           fwd == [u \in Targets |-> Forwarded(u)]
<1>1. UNCHANGED st
  BY DEF Unmoved
<1>2. X \in SUBSET (D!Live \cup D!Leaving)
  BY DEF D!Live, D!Leaving, D!Tracks, Tracks, Here
<1>3. \A u \in Targets \ {t} : conn'[u] = conn[u] /\ fwd'[u] = fwd[u]
  BY DEF OthersKeep, Keeps
<1>4. fwd' = [fwd EXCEPT ![t] = Forwarded(t)'] /\ conn' = [conn EXCEPT ![t] = target'[t].pc]
  BY <1>3
<1>5. conn[t] = target[t].pc /\ fwd[t] = Forwarded(t)
  OBVIOUS
<1>6. CASE /\ target[t].pc # NoPc /\ target'[t].pc = target[t].pc
           /\ Forwarded(t)' = Forwarded(t) \cup X
  <2>1. UNCHANGED conn
    BY <1>3, <1>6
  <2>2. fwd' = [fwd EXCEPT ![t] = @ \cup X]
    BY <1>4, <1>6
  <2>3. conn[t] # D!NoConnection
    BY <1>6 DEF D!NoConnection, NoPc
  <2>4. D!Give(t)
    <3> HIDE DEF st, conn, fwd
    <3> QED BY <1>1, <1>2, <2>1, <2>2, <2>3 DEF D!Give, st, conn, fwd
  <2> QED BY <2>4 DEF D!Next
<1>7. CASE /\ target'[t].pc \in 1..MaxConnects /\ target[t].pc < target'[t].pc
           /\ Forwarded(t)' = X
  <2>1. PICK c \in D!Connections : c = target'[t].pc /\ conn[t] < c
    BY <1>5, <1>7 DEF D!Connections
  <2>2. conn' = [conn EXCEPT ![t] = c] /\ fwd' = [fwd EXCEPT ![t] = X]
    BY <1>4, <1>7, <2>1
  <2>3. D!Connect(t)
    <3> HIDE DEF st, conn, fwd
    <3> QED BY <1>1, <1>2, <2>1, <2>2 DEF D!Connect, st, conn, fwd
  <2> QED BY <2>3 DEF D!Next
<1>8. CASE target'[t].pc = NoPc /\ Forwarded(t)' = {}
  <2>1. conn' = [conn EXCEPT ![t] = D!NoConnection] /\ fwd' = [fwd EXCEPT ![t] = {}]
    BY <1>4, <1>8 DEF D!NoConnection, NoPc
  <2>2. D!Disconnect(t)
    <3> HIDE DEF st, conn, fwd
    <3> QED BY <1>1, <2>1 DEF D!Disconnect, st, conn, fwd
  <2> QED BY <2>2 DEF D!Next
<1> QED BY <1>6, <1>7, <1>8

LEMMA TargetLoses ==
  ASSUME NEW t \in Targets, OthersKeep(t), NEW x \in Tracks, TrackState(x) = "leaving",
         target'[t].pc = target[t].pc,
         Forwarded(t)' = Forwarded(t) \ {x},
         \A y \in Tracks \ {x} : TrackState(y)' = TrackState(y),
         \/ TrackState(x)' = "leaving"
         \/ TrackState(x)' = "gone" /\ \A u \in Targets \ {t} : x \notin Forwarded(u)
  PROVE  D!Next
<1> DEFINE st == [y \in Tracks |-> TrackState(y)]
           conn == [u \in Targets |-> target[u].pc]
           fwd == [u \in Targets |-> Forwarded(u)]
<1>1. \A u \in Targets \ {t} : conn'[u] = conn[u] /\ fwd'[u] = fwd[u]
  BY DEF OthersKeep, Keeps
<1>2. UNCHANGED conn
  BY <1>1
<1>3. fwd' = [fwd EXCEPT ![t] = @ \ {x}]
  BY <1>1
<1>4. st[x] = "leaving" /\ (UNCHANGED st \/ st' = [st EXCEPT ![x] = TrackState(x)'])
  OBVIOUS
<1>5. UNCHANGED st
       \/ (st' = [st EXCEPT ![x] = "gone"] /\ \A u \in Targets \ {t} : x \notin fwd[u])
  <2>1. CASE TrackState(x)' = "leaving"
    <3>1. \A y \in Tracks : st'[y] = st[y]
      BY <2>1
    <3> QED BY <3>1
  <2>2. CASE TrackState(x)' = "gone" /\ \A u \in Targets \ {t} : x \notin Forwarded(u)
    BY <1>4, <2>2
  <2> QED BY <2>1, <2>2
<1>6. D!Take(t, x)
  <2> HIDE DEF st, conn, fwd
  <2>1. x \in D!Leaving
    BY <1>4 DEF D!Leaving, D!Tracks, Tracks, st
  <2> QED BY <1>2, <1>3, <1>5, <2>1 DEF D!Take, st, conn, fwd
<1> QED BY <1>6 DEF D!Next, D!Tracks, Tracks

(* Which state a track is in, once the cases are known to exclude each     *)
(* other: the sender has no track that has not come or is deleted.         *)
StateSays(x) ==
  /\ TrackState(x) \in {"new", "live", "leaving", "gone"}
  /\ TrackState(x) = "new" <=> track[x].pump = "none"
  /\ TrackState(x) = "gone" <=> track[x].pump = "done" /\ ~Pending(x)
  /\ TrackState(x) = "live" <=> x \in Registered /\ ~resetting.busy
  /\ x \in Registered => track[x].pump \in {"announce", "reading", "delete"}

LEMMA StateIs ==
  ASSUME ForwardingInv, ForwardingInv', NEW x \in Tracks
  PROVE  StateSays(x) /\ StateSays(x)'
<1>1. x \in Registered => track[x].pump \in {"announce", "reading", "delete"}
  BY DEF ForwardingInv, RegisteredLive, Registered
<1>2. (x \in Registered => track[x].pump \in {"announce", "reading", "delete"})'
  BY DEF ForwardingInv, RegisteredLive, Registered
<1>3. StateSays(x)
  BY <1>1 DEF StateSays, TrackState
<1>4. StateSays(x)'
  BY <1>2 DEF StateSays, TrackState
<1> QED BY <1>3, <1>4

(* What the state of a track depends on.                                   *)
LEMMA StateStays ==
  ASSUME ForwardingInv, ForwardingInv', NEW x \in Tracks,
         track'[x].pump = "none" <=> track[x].pump = "none",
         track'[x].pump = "done" /\ ~Pending(x)' <=> track[x].pump = "done" /\ ~Pending(x),
         x \in Registered' /\ ~resetting'.busy <=> x \in Registered /\ ~resetting.busy
  PROVE  TrackState(x)' = TrackState(x)
BY StateIs DEF StateSays

LEMMA SameTargets ==
  ASSUME UNCHANGED target
  PROVE  AllKeep
BY DEF AllKeep, Keeps, Forwarded

LEMMA SameStates ==
  ASSUME UNCHANGED <<trackCh, track, sender, resetting, tracker>>
  PROVE  Unmoved
BY DEF Unmoved, TrackState, Pending, Registered

LEMMA SenderRefines ==
  ASSUME ForwardingInv, ForwardingInv', SenderConnect \/ SenderClear \/ SenderReset \/ ResetDone
  PROVE  [D!Next]_D!vars
<1>1. AllKeep /\ UNCHANGED <<trackCh, track, tracker>>
  BY SameTargets DEF SenderConnect, SenderClear, SenderReset, ResetDone, targetVars, workerVars
<1>2. \A x \in Tracks : /\ Pending(x)' <=> Pending(x)
                        /\ track'[x].pump = track[x].pump
  BY <1>1 DEF Pending
<1>3. CASE SenderConnect
  <2>1. sender'.tracks = sender.tracks /\ UNCHANGED resetting
    BY <1>3 DEF SenderConnect, ForwardingInv, TypeOK
  <2>2. UNCHANGED <<Registered, resetting>>
    BY <2>1 DEF Registered
  <2>3. Unmoved
    BY <1>2, <2>2, StateStays DEF Unmoved
  <2> QED BY <1>1, <2>3, NothingMoves
<1>4. CASE SenderClear \/ SenderReset
  <2>1. ASSUME NEW x \in Tracks
        PROVE  ~(x \in Registered' /\ ~resetting'.busy)
    <3>1. CASE SenderClear
      <4>1. \A k \in Kinds : sender'.tracks[k] = NoTrack
        BY <3>1 DEF SenderClear, NoTracks
      <4> QED BY <4>1 DEF Registered
    <3>2. CASE SenderReset
      BY <3>2 DEF SenderReset
    <3> QED BY <1>4, <3>1, <3>2
  <2>2. \A x \in Tracks : \/ TrackState(x)' = TrackState(x)
                          \/ TrackState(x) = "live" /\ TrackState(x)' = "leaving"
    <3>1. TAKE x \in Tracks
    <3> QED BY <1>2, <2>1, StateIs DEF StateSays
  <2>3. D!Next
    BY <1>1, <2>2, TracksLost
  <2> QED BY <2>3
<1>5. CASE ResetDone
  <2>1. resetting.busy /\ \A x \in Tracks : x \notin Registered'
    BY <1>5 DEF ResetDone, Registered, NoTracks
  <2>2. Unmoved
    BY <1>2, <2>1, StateStays DEF Unmoved
  <2> QED BY <1>1, <2>2, NothingMoves
<1> QED BY <1>3, <1>4, <1>5

LEMMA PushedPending ==
  ASSUME ForwardingInv, NEW c \in Change, trackCh' = Append(trackCh, c), UNCHANGED tracker
  PROVE  \A x \in Tracks : Pending(x)' <=> Pending(x) \/ x = c.track
<1>1. /\ Len(trackCh') = Len(trackCh) + 1 /\ Len(trackCh) \in Nat
      /\ \A i \in 1..Len(trackCh) : trackCh'[i] = trackCh[i]
      /\ trackCh'[Len(trackCh) + 1] = c
  BY Pushed DEF ForwardingInv, TypeOK
<1>2. TAKE x \in Tracks
<1>3. (\E i \in 1..Len(trackCh') : trackCh'[i].track = x)
        <=> (\E i \in 1..Len(trackCh) : trackCh[i].track = x) \/ x = c.track
  BY <1>1
<1> QED BY <1>3 DEF Pending

(* A change in the queue is of a track that has not been forgotten.        *)
LEMMA PushRefines ==
  ASSUME ForwardingInv, ForwardingInv', AllKeep, NEW c \in Change, trackCh' = Append(trackCh, c),
         UNCHANGED <<sender, resetting, tracker>>,
         \A x \in Tracks : /\ track'[x].pump = "none" <=> track[x].pump = "none"
                           /\ x # c.track => track'[x].pump = track[x].pump,
         track[c.track].pump # "done"
  PROVE  [D!Next]_D!vars
<1>2. \A x \in Tracks : Pending(x)' <=> Pending(x) \/ x = c.track
  BY PushedPending
<1>3. UNCHANGED Registered
  BY DEF Registered
<1>4. ASSUME NEW x \in Tracks
      PROVE  TrackState(x)' = TrackState(x)
  <2>1. track'[x].pump = "none" <=> track[x].pump = "none"
    OBVIOUS
  <2>2. track'[x].pump = "done" /\ ~Pending(x)' <=> track[x].pump = "done" /\ ~Pending(x)
    <3>1. Pending(x)' <=> Pending(x) \/ x = c.track
      BY <1>2 DEF Pending
    <3>2. CASE x = c.track
      BY <3>1, <3>2
    <3>3. CASE x # c.track
      BY <3>1, <3>3
    <3> QED BY <3>2, <3>3
  <2>3. x \in Registered' /\ ~resetting'.busy <=> x \in Registered /\ ~resetting.busy
    BY <1>3
  <2> QED BY <2>1, <2>2, <2>3, StateStays
<1>5. Unmoved
  BY <1>4 DEF Unmoved
<1> QED BY <1>5, NothingMoves

LEMMA ResetPushRefines ==
  ASSUME ForwardingInv, ForwardingInv', ResetPush
  PROVE  [D!Next]_D!vars
<1>1. PICK k \in resetting.todo :
        /\ IF sender.tracks[k] = NoTrack THEN UNCHANGED trackCh
           ELSE trackCh' = Append(trackCh, RemovalOf(sender.tracks[k]))
        /\ resetting' = [resetting EXCEPT !.todo = @ \ {k}]
        /\ UNCHANGED <<sender, track, targetVars, workerVars>>
  BY DEF ResetPush, RemovalOf
<1>2. AllKeep /\ UNCHANGED <<track, tracker, sender>>
  BY <1>1, SameTargets DEF targetVars, workerVars
<1>3. resetting.busy /\ resetting'.busy /\ k \in Kinds
  BY <1>1 DEF ForwardingInv, TypeOK, ResetRemoves
<1>4. CASE UNCHANGED trackCh
  <2>1. \A x \in Tracks : Pending(x)' <=> Pending(x)
    BY <1>2, <1>4 DEF Pending
  <2>2. Unmoved
    BY <1>2, <1>3, <2>1, StateStays DEF Unmoved
  <2> QED BY <1>2, <2>2, NothingMoves
<1>5. CASE sender.tracks[k] # NoTrack /\ trackCh' = Append(trackCh, RemovalOf(sender.tracks[k]))
  <2> DEFINE y == sender.tracks[k]
  <2>1. y \in Tracks /\ track[y].pump # "done"
    BY <1>3, <1>5 DEF ForwardingInv, TypeOK, RegisteredLive
  <2>2. RemovalOf(y) \in Change /\ RemovalOf(y).track = y
    BY <2>1, Changes DEF RemovalOf
  <2> HIDE DEF y
  <2>3. \A x \in Tracks : Pending(x)' <=> Pending(x) \/ x = y
    BY <1>2, <1>5, <2>2, PushedPending DEF y
  <2>4. ASSUME NEW x \in Tracks
        PROVE  TrackState(x)' = TrackState(x)
    <3>1. CASE x = y
      BY <1>2, <1>3, <2>1, <3>1, StateStays
    <3>2. CASE x # y
      BY <1>2, <1>3, <2>3, <3>2, StateStays
    <3> QED BY <3>1, <3>2
  <2>5. Unmoved
    BY <2>4 DEF Unmoved
  <2> QED BY <1>2, <2>5, NothingMoves
<1> QED BY <1>1, <1>4, <1>5

LEMMA OnTrackRefines ==
  ASSUME ForwardingInv, ForwardingInv', NEW x \in Tracks, OnTrack(x)
  PROVE  D!Next
<1>1. track[x].pump = "none" /\ UNCHANGED <<resetting, target, trackCh, tracker>>
  BY DEF OnTrack, pumpEnv, targetVars, workerVars
<1>2. PICK k \in Kinds :
        /\ sender.tracks[k] = NoTrack
        /\ sender' = [sender EXCEPT !.tracks[k] = x]
        /\ track' = [track EXCEPT ![x] = [kind |-> k, pc |-> sender.pc, pump |-> "announce"]]
  BY DEF OnTrack
<1>3. /\ sender \in [pc : 0..MaxSenders, tracks : [Kinds -> Tracks \cup {NoTrack}]]
      /\ track \in [Tracks -> [kind : Kinds, pc : 0..MaxSenders, pump : PumpPoint]]
  BY DEF ForwardingInv, TypeOK
<1>4. /\ \A h \in Kinds : sender'.tracks[h] = IF h = k THEN x ELSE sender.tracks[h]
      /\ track'[x].pump = "announce"
      /\ \A y \in Tracks : y # x => track'[y] = track[y]
  BY <1>2, <1>3
<1>5. TrackState(x) = "new" /\ TrackState(x)' \in {"live", "leaving"}
  BY <1>1, <1>4, StateIs DEF StateSays
<1>6. \A y \in Tracks \ {x} : y \in Registered' <=> y \in Registered
  BY <1>2, <1>4, TrackNumbers DEF Registered
<1>7. \A y \in Tracks : Pending(y)' <=> Pending(y)
  BY <1>1 DEF Pending
<1>8. ASSUME NEW y \in Tracks \ {x}
      PROVE  TrackState(y)' = TrackState(y)
  BY <1>1, <1>4, <1>6, <1>7, StateStays
<1>9. AllKeep
  BY <1>1, SameTargets
<1> QED BY <1>5, <1>8, <1>9, TrackComes

LEMMA PumpRefines ==
  ASSUME ForwardingInv, ForwardingInv', NEW x \in Tracks, PumpStep(x) \/ PumpEnds(x)
  PROVE  [D!Next]_D!vars
<1>1. UNCHANGED <<resetting, target, tracker>>
  BY DEF PumpStep, PumpAnnounce, PumpDelete, PumpRemove, PumpEnds, pumpEnv, targetVars, workerVars
<1>2. AllKeep
  BY <1>1, SameTargets
<1>3. CASE PumpAnnounce(x)
  <2>1. /\ UNCHANGED sender /\ trackCh' = Append(trackCh, AddOf(x)) /\ Pump(x, "reading")
        /\ track[x].pump = "announce" /\ AddOf(x) \in Change /\ AddOf(x).track = x
    BY <1>3, Changes DEF PumpAnnounce, AddOf
  <2>2. /\ track'[x].pump = "reading"
        /\ \A y \in Tracks : y # x => track'[y].pump = track[y].pump
    BY <2>1, PumpSet DEF PumpPoint
  <2> QED BY <1>1, <1>2, <2>1, <2>2, PushRefines
<1>4. CASE PumpRemove(x)
  <2>1. /\ UNCHANGED sender /\ trackCh' = Append(trackCh, RemovalOf(x)) /\ Pump(x, "done")
        /\ track[x].pump = "remove" /\ RemovalOf(x) \in Change /\ RemovalOf(x).track = x
    BY <1>4, Changes DEF PumpRemove, RemovalOf
  <2>2. /\ track'[x].pump = "done"
        /\ \A y \in Tracks : y # x => track'[y].pump = track[y].pump
    BY <2>1, PumpSet DEF PumpPoint
  <2> QED BY <1>1, <1>2, <2>1, <2>2, PushRefines
<1>5. CASE PumpEnds(x) \/ PumpDelete(x)
  <2>1. \A y \in Tracks : Pending(y)' <=> Pending(y)
    BY <1>1, <1>5 DEF Pending, PumpEnds, PumpDelete
  <2>2. \E point \in {"delete", "remove"} : Pump(x, point)
    BY <1>5 DEF PumpEnds, PumpDelete
  <2>3. /\ track[x].pump \in {"reading", "delete"} /\ track'[x].pump \in {"delete", "remove"}
        /\ \A y \in Tracks : y # x => track'[y].pump = track[y].pump
    BY <1>5, <2>2, PumpSet DEF PumpEnds, PumpDelete, PumpPoint
  <2>4. Registered' \ {NoTrack} \subseteq Registered
    <3>1. CASE PumpEnds(x)
      BY <3>1 DEF PumpEnds, Registered
    <3>2. CASE PumpDelete(x)
      <4>1. \A k \in Kinds : sender'.tracks[k] \in {sender.tracks[k], NoTrack}
        BY <3>2 DEF PumpDelete, ForwardingInv, TypeOK
      <4> QED BY <4>1 DEF Registered
    <3> QED BY <1>5, <3>1, <3>2
  <2>5. \A y \in Tracks : \/ TrackState(y)' = TrackState(y)
                          \/ TrackState(y) = "live" /\ TrackState(y)' = "leaving"
    <3>1. TAKE y \in Tracks
    <3>2. y \in Registered' => y \in Registered
      BY <2>4, TrackNumbers
    <3>3. /\ track'[y].pump = "none" <=> track[y].pump = "none"
          /\ track'[y].pump = "done" <=> track[y].pump = "done"
      BY <2>3
    <3> QED BY <1>1, <2>1, <3>2, <3>3, StateIs DEF StateSays
  <2>6. D!Next
    BY <1>2, <2>5, TracksLost
  <2> QED BY <2>6
<1> QED BY <1>3, <1>4, <1>5 DEF PumpStep

(* A change that is taken from the queue is with the track worker until    *)
(* it has been made at every target, at once if there is none.             *)
LEMMA TrackTakeRefines ==
  ASSUME ForwardingInv, ForwardingInv', TrackTake
  PROVE  [D!Next]_D!vars
<1>1. /\ UNCHANGED <<sender, resetting, track, target>>
      /\ tracker.todo = {} /\ trackCh # <<>> /\ trackCh' = Tail(trackCh)
      /\ tracker'.todo = Targets /\ tracker'.track = Head(trackCh).track
  BY DEF TrackTake, senderVars, targetVars
<1>2. AllKeep
  BY <1>1, SameTargets
<1>3. /\ Len(trackCh) \in Nat /\ Len(trackCh) > 0 /\ Len(trackCh') = Len(trackCh) - 1
      /\ Head(trackCh) = trackCh[1] /\ trackCh[1] \in Change
      /\ \A i \in 1..Len(trackCh) - 1 : trackCh'[i] = trackCh[i + 1]
  BY <1>1, Popped DEF ForwardingInv, TypeOK
<1>4. PICK z \in Tracks : z = trackCh[1].track
  BY <1>3 DEF Change
<1>5. ASSUME NEW y \in Tracks
      PROVE  Pending(y) <=> y = z \/ \E i \in 1..Len(trackCh') : trackCh'[i].track = y
  <2>1. ASSUME NEW i \in 1..Len(trackCh), trackCh[i].track = y, i # 1
        PROVE  \E j \in 1..Len(trackCh') : trackCh'[j].track = y
    <3>1. i - 1 \in 1..Len(trackCh') /\ trackCh'[i - 1] = trackCh[i]
      BY <1>3, <2>1
    <3> QED BY <2>1, <3>1
  <2>2. ASSUME NEW j \in 1..Len(trackCh'), trackCh'[j].track = y
        PROVE  \E i \in 1..Len(trackCh) : trackCh[i].track = y
    <3>1. j + 1 \in 1..Len(trackCh) /\ trackCh'[j] = trackCh[j + 1]
      BY <1>3, <2>2
    <3> QED BY <2>2, <3>1
  <2>3. 1 \in 1..Len(trackCh)
    BY <1>3
  <2> QED BY <1>1, <1>4, <2>1, <2>2, <2>3 DEF Pending
<1>6. ASSUME NEW y \in Tracks
      PROVE  Pending(y)' <=> \/ Targets # {} /\ y = z
                             \/ \E i \in 1..Len(trackCh') : trackCh'[i].track = y
  BY <1>1, <1>3, <1>4 DEF Pending
<1>7. \A y \in Tracks : y \in Registered' <=> y \in Registered
  BY <1>1 DEF Registered
<1>8. ASSUME NEW y \in Tracks, y # z \/ (Pending(y)' <=> Pending(y)) \/ track[y].pump # "done"
      PROVE  TrackState(y)' = TrackState(y)
  <2>1. track'[y].pump = "done" /\ ~Pending(y)' <=> track[y].pump = "done" /\ ~Pending(y)
    BY <1>1, <1>5, <1>6, <1>8
  <2> QED BY <1>1, <1>7, <2>1, StateStays
<1>9. CASE (Pending(z)' <=> Pending(z)) \/ track[z].pump # "done"
  <2>1. Unmoved
    BY <1>8, <1>9 DEF Unmoved
  <2> QED BY <1>2, <2>1, NothingMoves
<1>10. CASE ~(Pending(z)' <=> Pending(z)) /\ track[z].pump = "done"
  <2>1. Pending(z) /\ ~Pending(z)' /\ Targets = {}
    BY <1>4, <1>5, <1>6, <1>10
  <2>2. TrackState(z) = "leaving" /\ TrackState(z)' = "gone"
    BY <1>1, <1>4, <1>10, <2>1, StateIs DEF StateSays
  <2>3. \A y \in Tracks \ {z} : TrackState(y)' = TrackState(y)
    BY <1>8
  <2>4. D!Next
    BY <1>2, <1>4, <2>1, <2>2, <2>3, TrackVanishes
  <2> QED BY <2>4
<1> QED BY <1>9, <1>10

(* One record changes.                                                     *)
LEMMA RecordIs ==
  ASSUME ForwardingInv, NEW t \in Targets, NEW r, target' = [target EXCEPT ![t] = r]
  PROVE  /\ OthersKeep(t) /\ target'[t].pc = r.pc
         /\ Forwarded(t)' = r.tracks \cup r.pending
<1>1. target'[t] = r /\ \A u \in Targets : u # t => target'[u] = target[u]
  BY DEF ForwardingInv, TypeOK
<1> QED BY <1>1 DEF OthersKeep, Keeps, Forwarded

(* The worker takes back only what is leaving, and the last target it      *)
(* comes to is the last that can have a track that ends there.             *)
LEMMA TrackTargetRefines ==
  ASSUME ForwardingInv, ForwardingInv', NEW t \in Targets, TrackTarget(t)
  PROVE  [D!Next]_D!vars
<1> DEFINE r == target[t]
           s == IF r.pc = NoPc THEN r
                ELSE IF tracker.remove THEN RemoveTrack(r, tracker.track)
                ELSE AddTrack(r, t, tracker.track, tracker.transceiver)
<1>1. /\ t \in tracker.todo /\ target' = [target EXCEPT ![t] = s]
      /\ UNCHANGED <<sender, resetting, track, trackCh>>
  BY DEF TrackTarget, senderVars
<1>2. /\ r \in Target /\ r.tracks \subseteq r.senders
      /\ r.pc = NoPc => r.tracks = {} /\ r.pending = {}
      /\ tracker \in [todo : SUBSET Targets, track : Tracks \cup {NoTrack},
                      remove : BOOLEAN, transceiver : BOOLEAN]
  BY DEF ForwardingInv, TypeOK, TracksHaveSenders, OnlyConnected
<1>3. tracker.track \in Tracks
  BY <1>1, <1>2 DEF ForwardingInv, NotYet
<1>4. PICK x \in Tracks : x = tracker.track
  BY <1>3
<1>5. tracker'.todo = tracker.todo \ {t} /\ tracker'.track = x /\ tracker'.remove = tracker.remove
  BY <1>2, <1>4 DEF TrackTarget
<1>6. /\ s.pc = r.pc
      /\ s.tracks \cup s.pending =
           IF r.pc = NoPc THEN Forwarded(t)
           ELSE IF tracker.remove THEN Forwarded(t) \ {x}
           ELSE Forwarded(t) \cup {x}
  <2>1. CASE r.pc = NoPc
    BY <2>1 DEF Forwarded
  <2>2. CASE r.pc # NoPc /\ tracker.remove
    <3>1. s = RemoveTrack(target[t], x)
      BY <1>4, <2>2
    <3> HIDE DEF s
    <3> QED BY <1>2, <2>2, <3>1, RemoveTrackShape DEF Forwarded
  <2>3. CASE r.pc # NoPc /\ ~tracker.remove
    <3>1. s = AddTrack(target[t], t, x, tracker.transceiver)
      BY <1>4, <2>3
    <3> HIDE DEF s
    <3>2. /\ s.pc = target[t].pc
          /\ s.tracks \cup s.pending = target[t].tracks \cup target[t].pending \cup {x}
      BY <1>2, <3>1 DEF AddTrack, Added, Target
    <3> QED BY <2>3, <3>2 DEF Forwarded
  <2> QED BY <2>1, <2>2, <2>3
<1> HIDE DEF s
<1>7. /\ OthersKeep(t) /\ target'[t].pc = target[t].pc
      /\ Forwarded(t)' = s.tracks \cup s.pending
  BY <1>1, <1>6, RecordIs
<1>8. /\ Pending(x) /\ track[x].pump # "none"
      /\ \A y \in Tracks : y # x => (Pending(y)' <=> Pending(y))
  BY <1>1, <1>4, <1>5 DEF Pending, ForwardingInv, NotYet
<1>9. \A y \in Tracks : y \in Registered' <=> y \in Registered
  BY <1>1 DEF Registered
<1>10. ASSUME NEW y \in Tracks, y # x \/ Pending(x)' \/ track[x].pump # "done"
       PROVE  TrackState(y)' = TrackState(y)
  <2>1. track'[y].pump = "done" /\ ~Pending(y)' <=> track[y].pump = "done" /\ ~Pending(y)
    BY <1>1, <1>8, <1>10
  <2> QED BY <1>1, <1>9, <2>1, StateStays
<1>11. CASE ~tracker.remove
  <2>1. Pending(x)' \/ track[x].pump # "done"
    <3>1. tracker.todo # {} /\ Taken(AddOf(x))
      BY <1>1, <1>2, <1>4, <1>11 DEF Taken, AddOf
    <3>2. track[x].pump = "done" => Queued(RemovalOf(x))
      BY <3>1 DEF ForwardingInv, RemovalFollows
    <3>3. Queued(RemovalOf(x)) => Pending(x)'
      BY <1>1 DEF Queued, RemovalOf, Pending
    <3> QED BY <3>2, <3>3
  <2>2. Unmoved
    BY <1>10, <2>1 DEF Unmoved
  <2>3. CASE ~target[t].pc # NoPc
    <3>1. Keeps(t)
      BY <1>6, <1>7, <2>3 DEF Keeps
    <3>2. AllKeep
      BY <1>7, <3>1 DEF AllKeep, OthersKeep
    <3> QED BY <2>2, <3>2, NothingMoves
  <2>4. CASE target[t].pc # NoPc
    <3>1. Here(x)
      BY <1>8, StateIs DEF StateSays, Here
    <3>2. Forwarded(t)' = Forwarded(t) \cup {x}
      BY <1>6, <1>7, <1>11, <2>4
    <3>3. PICK X \in SUBSET Tracks : X = {x}
      OBVIOUS
    <3>4. (\A y \in X : Here(y)) /\ Forwarded(t)' = Forwarded(t) \cup X
      BY <3>1, <3>2, <3>3
    <3>5. D!Next
      BY <1>7, <2>2, <2>4, <3>4, TargetGets
    <3> QED BY <3>5
  <2> QED BY <2>3, <2>4
<1>12. CASE tracker.remove
  <2>1. Forwarded(t)' = Forwarded(t) \ {x}
    BY <1>2, <1>6, <1>7, <1>12 DEF Forwarded
  <2>2. ~(x \in Registered /\ ~resetting.busy)
    BY <1>1, <1>4, <1>12 DEF ForwardingInv, ResetRemoves, Registered, Taken, RemovalOf
  <2>3. TrackState(x) = "leaving"
    BY <1>8, <2>2, StateIs DEF StateSays
  <2>4. \A y \in Tracks \ {x} : TrackState(y)' = TrackState(y)
    BY <1>10
  <2>5. \/ TrackState(x)' = "leaving"
        \/ TrackState(x)' = "gone" /\ \A u \in Targets \ {t} : x \notin Forwarded(u)
    <3>1. CASE Pending(x)' \/ track[x].pump # "done"
      BY <1>10, <2>3, <3>1
    <3>2. CASE ~Pending(x)' /\ track[x].pump = "done"
      <4>1. TrackState(x)' = "gone"
        BY <1>1, <3>2, StateIs DEF StateSays
      <4>2. \A u \in Targets : x \notin Forwarded(u)'
        <5>1. ~Queued(RemovalOf(x))'
          BY <3>2 DEF Queued, Pending, RemovalOf
        <5>2. \A u \in Targets : ~(Taken(RemovalOf(x))' /\ u \in tracker'.todo)
          BY <3>2 DEF Taken, Pending, RemovalOf
        <5> QED BY <1>1, <3>2, <5>1, <5>2 DEF ForwardingInv, DeadRemoved
      <4>3. \A u \in Targets \ {t} : x \notin Forwarded(u)
        BY <1>7, <4>2 DEF OthersKeep, Keeps
      <4> QED BY <4>1, <4>3
    <3> QED BY <3>1, <3>2
  <2>6. D!Next
    BY <1>7, <2>1, <2>3, <2>4, <2>5, TargetLoses
  <2> QED BY <2>6
<1> QED BY <1>11, <1>12

LEMMA ReceiverRefines ==
  ASSUME ForwardingInv, ForwardingInv', ReceiverWorker \/ ReceiverPush
  PROVE  [D!Next]_D!vars
<1>1. Unmoved
  BY SameStates DEF ReceiverWorker, ReceiverTake, ReceiverLock, ReceiverFill, ReceiverPush,
                    senderVars, targetEnv, workerVars
<1>2. CASE ReceiverTake \/ ReceiverLock \/ ReceiverPush
  <2>1. AllKeep
    BY <1>2, SameTargets DEF ReceiverTake, ReceiverLock, ReceiverPush, targetVars
  <2> QED BY <1>1, <2>1, NothingMoves
<1>3. CASE ReceiverFill
  <2>1. receiver.at = "sender" /\ receiver.target \in Targets /\ target[receiver.target].pc # NoPc
    BY <1>3 DEF ReceiverFill, ForwardingInv, OnlyConnected
  <2>2. PICK t \in Targets : t = receiver.target
    BY <2>1
  <2>3. target[t] \in Target /\ target' = [target EXCEPT ![t] = Filled(target[t], t)]
    BY <1>3, <2>2 DEF ReceiverFill, ForwardingInv, TypeOK
  <2>4. /\ Filled(target[t], t).pc = target[t].pc
        /\ Filled(target[t], t).tracks \cup Filled(target[t], t).pending
             = Forwarded(t) \cup Registered
    BY <2>3 DEF Filled, Added, Target, Forwarded
  <2>5. /\ OthersKeep(t) /\ target'[t].pc = target[t].pc /\ target[t].pc # NoPc
        /\ Forwarded(t)' = Forwarded(t) \cup Registered
    BY <2>1, <2>2, <2>3, <2>4, RecordIs
  <2>6. Registered \in SUBSET Tracks
    BY DEF Registered, ForwardingInv, TypeOK
  <2>7. \A x \in Registered : Here(x)
    BY <2>6, StateIs DEF StateSays, Here
  <2>8. D!Next
    BY <1>1, <2>5, <2>6, <2>7, TargetGets
  <2> QED BY <2>8
<1> QED BY <1>2, <1>3 DEF ReceiverWorker

LEMMA TargetRefines ==
  ASSUME ForwardingInv, ForwardingInv', Counted, NEW t \in Targets,
         TargetConnect(t) \/ TargetClear(t) \/ TargetReset(t) \/ TargetOffer(t)
  PROVE  [D!Next]_D!vars
<1>1. Unmoved
  BY SameStates DEF TargetConnect, TargetClear, TargetReset, TargetOffer,
                    targetEnv, senderVars, workerVars
<1>2. /\ target[t] \in Target
      /\ ~target[t].pc # NoPc => target[t].tracks = {} /\ target[t].pending = {}
  BY DEF ForwardingInv, TypeOK, OnlyConnected
<1>3. CASE TargetConnect(t)
  <2> DEFINE s == [(IF target[t].pc # NoPc THEN Cleared(target[t]) ELSE target[t])
                     EXCEPT !.pc = connects + 1]
  <2>1. target' = [target EXCEPT ![t] = s]
    BY <1>3 DEF TargetConnect
  <2>2. s.pc = connects + 1 /\ s.tracks \cup s.pending = {}
    BY <1>2 DEF Cleared, Target
  <2> HIDE DEF s
  <2>3. OthersKeep(t) /\ target'[t].pc = connects + 1 /\ Forwarded(t)' = {}
    BY <2>1, <2>2, RecordIs
  <2>4. connects + 1 \in 1..MaxConnects /\ target[t].pc < connects + 1
    BY <1>2, <1>3, ForwardingAssumption
       DEF TargetConnect, ForwardingInv, TypeOK, ForwardingAssumption, Target, Counted
  <2>5. D!Next
    BY <1>1, <2>3, <2>4, TargetGets
  <2> QED BY <2>5
<1>4. CASE TargetClear(t) \/ TargetReset(t)
  <2>1. /\ Cleared(target[t]).pc = NoPc
        /\ Cleared(target[t]).tracks \cup Cleared(target[t]).pending = {}
    BY <1>2 DEF Cleared, Target
  <2>2. PICK s : /\ target' = [target EXCEPT ![t] = s]
                 /\ s.pc = NoPc /\ s.tracks \cup s.pending = {}
    <3>1. CASE TargetClear(t)
      BY <2>1, <3>1 DEF TargetClear
    <3>2. CASE TargetReset(t)
      <4>1. NotConnected.pc = NoPc /\ NotConnected.tracks \cup NotConnected.pending = {}
        BY DEF NotConnected
      <4> QED BY <3>2, <4>1 DEF TargetReset
    <3> QED BY <1>4, <3>1, <3>2
  <2>3. OthersKeep(t) /\ target'[t].pc = NoPc /\ Forwarded(t)' = {}
    BY <2>2, RecordIs
  <2>4. D!Next
    BY <1>1, <2>3, TargetGets
  <2> QED BY <2>4
<1>5. CASE TargetOffer(t)
  <2> DEFINE s == [Added(target[t], target[t].pending \ target[t].tracks) EXCEPT !.pending = {}]
  <2>1. target' = [target EXCEPT ![t] = s]
    BY <1>5 DEF TargetOffer
  <2>2. s.pc = target[t].pc /\ s.tracks \cup s.pending = Forwarded(t)
    BY <1>2 DEF Added, Target, Forwarded
  <2> HIDE DEF s
  <2>3. OthersKeep(t) /\ Keeps(t)
    BY <2>1, <2>2, RecordIs DEF Keeps
  <2>4. AllKeep
    BY <2>3 DEF AllKeep, OthersKeep
  <2> QED BY <1>1, <2>4, NothingMoves
<1> QED BY <1>3, <1>4, <1>5

LEMMA InitRefines ==
  ASSUME Init
  PROVE  D!Init
<1>1. \A x \in Tracks : TrackState(x) = "new"
  <2>1. \A x \in Tracks : track[x].pump = "none" /\ x \notin Registered
    BY TrackNumbers DEF Init, NoTracks, Registered
  <2> QED BY <2>1 DEF TrackState
<1>2. \A t \in Targets : target[t].pc = D!NoConnection /\ Forwarded(t) = {}
  BY DEF Init, NotConnected, Forwarded, D!NoConnection, NoPc
<1> QED BY <1>1, <1>2 DEF D!Init, D!Tracks, Tracks

LEMMA NextRefines ==
  ASSUME ForwardingInv, ForwardingInv', Counted, [Next]_vars
  PROVE  [D!Next]_D!vars
<1>1. CASE SenderConnect \/ SenderClear \/ SenderReset \/ Resetter
  BY <1>1, SenderRefines, ResetPushRefines DEF Resetter
<1>2. ASSUME NEW x \in Tracks, OnTrack(x) \/ PumpStep(x) \/ PumpEnds(x)
      PROVE  [D!Next]_D!vars
  <2>1. CASE OnTrack(x)
    BY <2>1, OnTrackRefines
  <2>2. CASE PumpStep(x) \/ PumpEnds(x)
    BY <2>2, PumpRefines
  <2> QED BY <1>2, <2>1, <2>2
<1>3. CASE TrackWorker \/ ReceiverWorker \/ ReceiverPush
  BY <1>3, TrackTakeRefines, TrackTargetRefines, ReceiverRefines DEF TrackWorker
<1>4. ASSUME NEW t \in Targets,
             TargetConnect(t) \/ TargetClear(t) \/ TargetReset(t) \/ TargetOffer(t)
      PROVE  [D!Next]_D!vars
  BY <1>4, TargetRefines
<1>5. CASE UNCHANGED vars
  <2>1. UNCHANGED <<sender, resetting, track, target, trackCh, tracker>>
    BY <1>5 DEF vars, senderVars, targetVars, workerVars
  <2> QED BY <2>1, SameStates, SameTargets, NothingMoves
<1> QED BY <1>1, <1>2, <1>3, <1>4, <1>5 DEF Next

LEMMA CountedKept ==
  ASSUME ForwardingInv, ForwardingInv', Counted, [Next]_vars
  PROVE  Counted'
<1>1. /\ target \in [Targets -> Target] /\ connects \in 0..MaxConnects
      /\ MaxConnects \in Nat
  BY ForwardingAssumption DEF ForwardingInv, TypeOK, ForwardingAssumption
<1>2. CASE UNCHANGED <<target, connects>>
  BY <1>2 DEF Counted
<1>3. ASSUME NEW t \in Targets, NEW s, target' = [target EXCEPT ![t] = s],
             \/ s.pc \in {target[t].pc, NoPc} /\ UNCHANGED connects
             \/ s.pc = connects + 1 /\ connects' = connects + 1
      PROVE  Counted'
  <2>1. \A u \in Targets : target[u].pc \in 0..MaxConnects
    BY <1>1 DEF Target
  <2>2. target'[t] = s /\ \A u \in Targets : u # t => target'[u] = target[u]
    BY <1>1, <1>3
  <2> QED BY <1>1, <1>3, <2>1, <2>2 DEF Counted, NoPc
<1>4. ASSUME NEW t \in Targets, TrackTarget(t)
      PROVE  Counted'
  <2> DEFINE s == IF target[t].pc = NoPc THEN target[t]
                  ELSE IF tracker.remove THEN RemoveTrack(target[t], tracker.track)
                  ELSE AddTrack(target[t], t, tracker.track, tracker.transceiver)
  <2>1. target' = [target EXCEPT ![t] = s] /\ UNCHANGED connects
    BY <1>4 DEF TrackTarget
  <2>2. s.pc = target[t].pc
    BY <1>1 DEF RemoveTrack, AddTrack, Added, Target
  <2> HIDE DEF s
  <2> QED BY <1>3, <2>1, <2>2
<1>5. CASE ReceiverFill
  <2>1. receiver.target \in Targets
    BY <1>5 DEF ReceiverFill, ForwardingInv, OnlyConnected
  <2>2. PICK t \in Targets : t = receiver.target
    BY <2>1
  <2>3. target' = [target EXCEPT ![t] = Filled(target[t], t)] /\ UNCHANGED connects
    BY <1>5, <2>2 DEF ReceiverFill
  <2>4. Filled(target[t], t).pc = target[t].pc
    BY <1>1 DEF Filled, Added, Target
  <2> QED BY <1>3, <2>3, <2>4
<1>6. ASSUME NEW t \in Targets, TargetConnect(t)
      PROVE  Counted'
  <2> DEFINE s == [(IF target[t].pc # NoPc THEN Cleared(target[t]) ELSE target[t])
                     EXCEPT !.pc = connects + 1]
  <2>1. target' = [target EXCEPT ![t] = s] /\ connects' = connects + 1
    BY <1>6 DEF TargetConnect
  <2>2. s.pc = connects + 1
    BY <1>1 DEF Cleared, Target
  <2> HIDE DEF s
  <2> QED BY <1>3, <2>1, <2>2
<1>7. ASSUME NEW t \in Targets, TargetClear(t) \/ TargetReset(t)
      PROVE  Counted'
  <2>1. Cleared(target[t]).pc = NoPc /\ NotConnected.pc = NoPc
    BY <1>1 DEF Cleared, NotConnected, Target
  <2>2. PICK s : /\ target' = [target EXCEPT ![t] = s]
                 /\ s.pc = NoPc /\ UNCHANGED connects
    BY <1>7, <2>1 DEF TargetClear, TargetReset
  <2> QED BY <1>3, <2>2
<1>8. ASSUME NEW t \in Targets, TargetOffer(t)
      PROVE  Counted'
  <2> DEFINE s == [Added(target[t], target[t].pending \ target[t].tracks) EXCEPT !.pending = {}]
  <2>1. target' = [target EXCEPT ![t] = s] /\ UNCHANGED connects
    BY <1>8 DEF TargetOffer
  <2>2. s.pc = target[t].pc
    BY <1>1 DEF Added, Target
  <2> HIDE DEF s
  <2> QED BY <1>3, <2>1, <2>2
<1>9. CASE SenderConnect \/ SenderClear \/ SenderReset \/ Resetter
  BY <1>2, <1>9 DEF SenderConnect, SenderClear, SenderReset, Resetter, ResetPush, ResetDone,
                    targetVars
<1>10. CASE \E x \in Tracks : OnTrack(x) \/ PumpStep(x) \/ PumpEnds(x)
  BY <1>2, <1>10 DEF OnTrack, PumpStep, PumpAnnounce, PumpDelete, PumpRemove, PumpEnds,
                     pumpEnv, targetVars
<1>11. CASE TrackTake \/ ReceiverTake \/ ReceiverLock \/ ReceiverPush
  BY <1>2, <1>11 DEF TrackTake, ReceiverTake, ReceiverLock, ReceiverPush, targetVars
<1>12. CASE UNCHANGED vars
  BY <1>2, <1>12 DEF vars, targetVars
<1> QED BY <1>4, <1>5, <1>6, <1>7, <1>8, <1>9, <1>10, <1>11, <1>12
           DEF Next, TrackWorker, ReceiverWorker

(* A target keeps what the sender has as long as it keeps its peer         *)
(* connection; a track that is to be taken back may still come to one, but *)
(* once the last change of it has been made it is nowhere and never comes  *)
(* back: the removal that follows every addition is all that guards        *)
(* against the worker that comes late.                                     *)
THEOREM DistributesTracks == Spec => ImplementsDistribution
<1>1. Init => D!Init /\ Counted
  BY InitRefines DEF Init, Counted, NotConnected, NoPc
<1>2. ForwardingInv /\ ForwardingInv' /\ Counted /\ [Next]_vars => [D!Next]_D!vars
  BY NextRefines
<1>3. ForwardingInv /\ ForwardingInv' /\ Counted /\ [Next]_vars => Counted'
  BY CountedKept
<1> QED BY <1>1, <1>2, <1>3, ForwardingInvariant, PTL DEF Spec, ImplementsDistribution, D!Spec
=============================================================================
