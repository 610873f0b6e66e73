----------------------------- MODULE Forwarding -----------------------------
(***************************************************************************)
(* How the tracks of one user, the source, get to the other users of a     *)
(* channel, the targets (channel.go, connectionrecord.go).                 *)
(*                                                                         *)
(* The source's default sender is the ConnectionRecord over which the      *)
(* bridge receives: sender.tracks has its track of each kind.  Every       *)
(* target has a ConnectionRecord for the source over which the bridge      *)
(* sends, target[t].  Between them work, each as a goroutine of its own:   *)
(*   - the pump of each track, which announces it to trackCh, reads it to  *)
(*     its end and then takes it back;                                     *)
(*   - the track worker, which takes a change from trackCh to one target   *)
(*     after the other;                                                    *)
(*   - the receiver worker, which adds the sender's tracks to the peer     *)
(*     connections that come through receiverCh;                           *)
(*   - the readPump, which makes peer connections and sends them there;    *)
(*   - callbacks, which reset records.                                     *)
(*                                                                         *)
(* The records have locks that are held while a channel is full.  A        *)
(* critical section that cannot wait for anything is one step; the steps   *)
(* of the others say which lock they hold.  Removing a track from a target *)
(* that is not bound to the source has no case of its own: a record that   *)
(* is not bound has no tracks.                                             *)
(***************************************************************************)
EXTENDS Naturals, Sequences, FiniteSets

CONSTANTS
  Targets,      \* the other users of the channel
  Nobody,       \* none of them
  Initiators,   \* those for whose records the bridge is the initiator
  Kinds,        \* audio and video
  ChSize,       \* maxChSize
  MaxSenders,   \* bound: peer connections of the sender
  MaxTracks,    \* bound: remote tracks
  MaxConnects   \* bound: peer connections of targets

ASSUME ForwardingAssumption ==
  /\ Initiators \subseteq Targets
  /\ Nobody \notin Targets
  /\ Kinds # {}
  /\ ChSize \in Nat \ {0}
  /\ MaxSenders \in Nat
  /\ MaxTracks \in Nat
  /\ MaxConnects \in Nat

NoTrack == 0
NoPc == 0
Tracks == 1..MaxTracks

VARIABLES
  sender,      \* the default sender of the source
  lastSender,  \* how many peer connections it has had
  track,       \* the remote tracks and their pumps
  resetting,   \* the reset of the sender that goes on
  target,      \* the targets' records
  connects,    \* how many peer connections they have had
  handler,     \* the target whose new peer connection the readPump holds
  trackCh, receiverCh,
  tracker,     \* the track worker
  receiver     \* the receiver worker

senderVars == <<sender, lastSender, resetting>>
targetVars == <<target, connects, handler>>
workerVars == <<tracker, receiver>>
vars == <<senderVars, track, targetVars, trackCh, receiverCh, workerVars>>

Change == [track : Tracks, remove : BOOLEAN]
PumpPoint == {"none", "announce", "reading", "delete", "remove", "done"}
Target ==
  [pc : 0..MaxConnects,
   tracks : SUBSET Tracks,
   senders : SUBSET Tracks,
   pending : SUBSET Tracks]

TypeOK ==
  /\ sender \in [pc : 0..MaxSenders, tracks : [Kinds -> Tracks \cup {NoTrack}]]
  /\ lastSender \in 0..MaxSenders
  /\ track \in [Tracks -> [kind : Kinds, pc : 0..MaxSenders, pump : PumpPoint]]
  /\ resetting \in [busy : BOOLEAN, locked : BOOLEAN, handler : BOOLEAN,
                    todo : SUBSET Kinds]
  /\ target \in [Targets -> Target]
  /\ connects \in 0..MaxConnects
  /\ handler \in Targets \cup {Nobody}
  /\ trackCh \in Seq(Change) /\ Len(trackCh) <= ChSize
  /\ receiverCh \in Seq(Targets) /\ Len(receiverCh) <= ChSize
  /\ tracker \in [todo : SUBSET Targets, track : Tracks \cup {NoTrack},
                  remove : BOOLEAN, transceiver : BOOLEAN]
  /\ receiver \in [at : {"idle", "target", "sender"}, target : Targets \cup {Nobody}]

Full(ch) == Len(ch) >= ChSize

SenderLocked == resetting.busy /\ resetting.locked
ReadPumpIdle == handler = Nobody /\ ~(resetting.busy /\ resetting.handler)
(* Mutant: the receiver worker takes the lock twice.                       *)
LockedTwice(t) == handler = t \/ receiver.target = t

TargetLocked(t) ==
  handler = t \/ (receiver.at = "sender" /\ receiver.target = t)

Registered == {sender.tracks[k] : k \in Kinds} \ {NoTrack}
NoTracks == [k \in Kinds |-> NoTrack]
NotConnected == [pc |-> NoPc, tracks |-> {}, senders |-> {}, pending |-> {}]

-----------------------------------------------------------------------------
(* The sender. *)

SenderConnect ==
  /\ ReadPumpIdle /\ ~SenderLocked
  /\ sender.pc = NoPc
  /\ lastSender < MaxSenders
  /\ lastSender' = lastSender + 1
  /\ sender' = [sender EXCEPT !.pc = lastSender + 1]
  /\ UNCHANGED <<resetting, track, targetVars, trackCh, receiverCh, workerVars>>

(* clearPeerConnection, when the source comes with a new pcid.             *)
SenderClear ==
  /\ ReadPumpIdle /\ ~SenderLocked
  /\ sender.pc # NoPc
  /\ sender' = [pc |-> NoPc, tracks |-> NoTracks]
  /\ UNCHANGED <<lastSender, resetting, track, targetVars, trackCh, receiverCh, workerVars>>

(* reset of a sender with a peer connection: it takes every track back     *)
(* before it forgets them.  Callbacks hold the lock meanwhile, the         *)
(* readPump does not always.                                               *)
SenderReset ==
  /\ ~resetting.busy
  /\ sender.pc # NoPc
  /\ sender' = [sender EXCEPT !.pc = NoPc]
  /\ \E locked, byHandler \in BOOLEAN :
       /\ byHandler => ReadPumpIdle
       /\ locked \/ byHandler
       /\ resetting' = [busy |-> TRUE, locked |-> locked, handler |-> byHandler,
                        todo |-> Kinds]
  /\ UNCHANGED <<lastSender, track, targetVars, trackCh, receiverCh, workerVars>>

ResetPush ==
  \E k \in resetting.todo :
    /\ IF sender.tracks[k] = NoTrack THEN UNCHANGED trackCh
       ELSE /\ ~Full(trackCh)
            /\ trackCh' = Append(trackCh, [track |-> sender.tracks[k], remove |-> TRUE])
    /\ resetting' = [resetting EXCEPT !.todo = @ \ {k}]
    /\ UNCHANGED <<sender, lastSender, track, targetVars, receiverCh, workerVars>>

ResetDone ==
  /\ resetting.busy /\ resetting.todo = {}
  /\ sender' = [sender EXCEPT !.tracks = NoTracks]
  /\ resetting' = [resetting EXCEPT !.busy = FALSE]
  /\ UNCHANGED <<lastSender, track, targetVars, trackCh, receiverCh, workerVars>>

-----------------------------------------------------------------------------
(* The tracks. *)

Pump(x, point) == track' = [track EXCEPT ![x] = [@ EXCEPT !.pump = point]]
pumpEnv == <<lastSender, resetting, targetVars, receiverCh, workerVars>>

(* OnTrack: a second track of a kind is ignored.                           *)
OnTrack(x) ==
  /\ ~SenderLocked
  /\ sender.pc # NoPc
  /\ track[x].pump = "none"
  /\ \E k \in Kinds :
       /\ sender.tracks[k] = NoTrack
       /\ sender' = [sender EXCEPT !.tracks[k] = x]
       /\ track' = [track EXCEPT ![x] = [kind |-> k, pc |-> sender.pc, pump |-> "announce"]]
  /\ UNCHANGED <<trackCh, pumpEnv>>

PumpAnnounce(x) ==
  /\ track[x].pump = "announce"
  /\ ~Full(trackCh)
  /\ trackCh' = Append(trackCh, [track |-> x, remove |-> FALSE])
  /\ Pump(x, "reading")
  /\ UNCHANGED <<sender, pumpEnv>>

(* ReadRTP fails when the peer connection is closed, or before.            *)
PumpEnds(x) ==
  /\ track[x].pump = "reading"
  /\ Pump(x, "delete")
  /\ UNCHANGED <<sender, trackCh, pumpEnv>>

(* The tracks of the record are deleted by kind.                           *)
PumpDelete(x) ==
  /\ track[x].pump = "delete"
  /\ ~SenderLocked
  /\ sender' = [sender EXCEPT !.tracks[track[x].kind] = NoTrack]
  /\ Pump(x, "remove")
  /\ UNCHANGED <<trackCh, pumpEnv>>

(* Mutant: the channel grows without a bound. *)
PumpRemoveUnbounded(x) ==
  /\ track[x].pump = "remove"
  /\ trackCh' = Append(trackCh, [track |-> x, remove |-> TRUE])
  /\ Pump(x, "done")
  /\ UNCHANGED <<sender, pumpEnv>>

PumpRemove(x) ==
  /\ track[x].pump = "remove"
  /\ ~Full(trackCh)
  /\ trackCh' = Append(trackCh, [track |-> x, remove |-> TRUE])
  /\ Pump(x, "done")
  /\ UNCHANGED <<sender, pumpEnv>>

-----------------------------------------------------------------------------
(* addTrack and removeTrack on the record r of a target. *)

Added(r, new) == [r EXCEPT !.tracks = @ \cup new, !.senders = @ \cup new]

(* A record that waits for the remote to offer a transceiver keeps the     *)
(* track in pending; the initiator, and any record once the TrackRecord    *)
(* has been marked, adds it.                                               *)
AddTrack(r, t, x, transceiver) ==
  IF t \in Initiators \/ transceiver
  THEN IF x \in r.tracks THEN r ELSE Added(r, {x})
  ELSE [r EXCEPT !.pending = @ \cup {x}]

RemoveTrack(r, x) ==
  LET s == [r EXCEPT !.pending = @ \ {x}]
  IN IF x \in s.senders
     THEN [s EXCEPT !.senders = @ \ {x}, !.tracks = @ \ {x}]
     ELSE s

-----------------------------------------------------------------------------
(* The track worker. *)

(* Mutant: the worker looks at the sender, under its lock. *)
TrackTakeLocking ==
  /\ ~SenderLocked
  /\ tracker.todo = {}
  /\ trackCh # <<>>
  /\ trackCh' = Tail(trackCh)
  /\ tracker' = [todo |-> Targets, track |-> Head(trackCh).track,
                 remove |-> Head(trackCh).remove, transceiver |-> FALSE]
  /\ UNCHANGED <<senderVars, track, targetVars, receiverCh, receiver>>

TrackTake ==
  /\ tracker.todo = {}
  /\ trackCh # <<>>
  /\ trackCh' = Tail(trackCh)
  /\ tracker' = [todo |-> Targets, track |-> Head(trackCh).track,
                 remove |-> Head(trackCh).remove, transceiver |-> FALSE]
  /\ UNCHANGED <<senderVars, track, targetVars, receiverCh, receiver>>

(* All targets share one TrackRecord, so that the first answerer marks it  *)
(* for those after it.                                                     *)
TrackTarget(t) ==
  LET r == target[t]
      x == tracker.track
      marks == r.pc # NoPc /\ ~tracker.remove /\ t \notin Initiators
               /\ x \notin r.pending
  IN /\ t \in tracker.todo
     /\ ~TargetLocked(t)
     /\ target' = [target EXCEPT ![t] =
                     IF r.pc = NoPc THEN r
                     ELSE IF tracker.remove THEN RemoveTrack(r, x)
                     ELSE AddTrack(r, t, x, tracker.transceiver)]
     /\ tracker' = [tracker EXCEPT !.todo = @ \ {t},
                                   !.transceiver = @ \/ marks]
     /\ UNCHANGED <<senderVars, track, connects, handler, trackCh, receiverCh, receiver>>

-----------------------------------------------------------------------------
(* The receiver worker. *)

ReceiverTake ==
  /\ receiver.at = "idle"
  /\ receiverCh # <<>>
  /\ receiverCh' = Tail(receiverCh)
  /\ receiver' = [at |-> "target", target |-> Head(receiverCh)]
  /\ UNCHANGED <<senderVars, track, targetVars, trackCh, tracker>>

ReceiverIdle == [at |-> "idle", target |-> Nobody]

ReceiverLock ==
  /\ receiver.at = "target"
  /\ ~TargetLocked(receiver.target)
  /\ receiver' = IF target[receiver.target].pc # NoPc
                 THEN [receiver EXCEPT !.at = "sender"]
                 ELSE ReceiverIdle
  /\ UNCHANGED <<senderVars, track, targetVars, trackCh, receiverCh, tracker>>

(* Mutant: only an initiator's tracks are kept. *)
FilledInitiator(r, t) ==
  IF t \in Initiators THEN Added(r, Registered \ (r.tracks \cup r.pending)) ELSE r

(* Mutant: the pending tracks are set, not extended.                       *)
FilledAfresh(r, t) ==
  LET new == Registered \ (r.tracks \cup r.pending)
  IN IF t \in Initiators THEN Added(r, new)
     ELSE [r EXCEPT !.pending = new]

Filled(r, t) ==
  LET new == Registered \ (r.tracks \cup r.pending)
  IN IF t \in Initiators THEN Added(r, new)
     ELSE [r EXCEPT !.pending = @ \cup new]

ReceiverFill ==
  LET t == receiver.target
  IN /\ receiver.at = "sender"
     /\ ~SenderLocked
     /\ target' = [target EXCEPT ![t] = Filled(@, t)]
     /\ receiver' = ReceiverIdle
     /\ UNCHANGED <<senderVars, track, connects, handler, trackCh, receiverCh, tracker>>

-----------------------------------------------------------------------------
(* The targets' records. *)

Cleared(r) == [r EXCEPT !.pc = NoPc, !.tracks = {}, !.pending = {}]

targetEnv == <<senderVars, track, trackCh, workerVars>>

(* Mutant: the receiver worker is not told. *)
TargetConnectSilent(t) ==
  /\ ReadPumpIdle
  /\ ~TargetLocked(t)
  /\ target[t].pc # NoPc => t \in Initiators
  /\ connects < MaxConnects
  /\ connects' = connects + 1
  /\ target' = [target EXCEPT ![t] =
                  [(IF @.pc # NoPc THEN Cleared(@) ELSE @) EXCEPT !.pc = connects + 1]]
  /\ UNCHANGED <<targetEnv, receiverCh, handler>>

(* createPeerConnection, for an initiator possibly right after             *)
(* clearPeerConnection; the readPump keeps the lock until receiverCh has   *)
(* taken the record.                                                       *)
TargetConnect(t) ==
  /\ ReadPumpIdle
  /\ ~TargetLocked(t)
  /\ target[t].pc # NoPc => t \in Initiators
  /\ connects < MaxConnects
  /\ connects' = connects + 1
  /\ target' = [target EXCEPT ![t] =
                  [(IF @.pc # NoPc THEN Cleared(@) ELSE @) EXCEPT !.pc = connects + 1]]
  /\ handler' = t
  /\ UNCHANGED <<targetEnv, receiverCh>>

ReceiverPush ==
  /\ handler # Nobody
  /\ ~Full(receiverCh)
  /\ receiverCh' = Append(receiverCh, handler)
  /\ handler' = Nobody
  /\ UNCHANGED <<targetEnv, target, connects>>

TargetClear(t) ==
  /\ ReadPumpIdle
  /\ ~TargetLocked(t)
  /\ target[t].pc # NoPc
  /\ target' = [target EXCEPT ![t] = Cleared(@)]
  /\ UNCHANGED <<targetEnv, receiverCh, connects, handler>>

TargetReset(t) ==
  /\ ~TargetLocked(t)
  /\ target[t].pc # NoPc
  /\ target' = [target EXCEPT ![t] = NotConnected]
  /\ UNCHANGED <<targetEnv, receiverCh, connects, handler>>

(* The remote's offer brings the transceivers that pending tracks need.    *)
TargetOffer(t) ==
  /\ ReadPumpIdle
  /\ ~TargetLocked(t)
  /\ target[t].pc # NoPc
  /\ target[t].pending # {}
  /\ target' = [target EXCEPT ![t] =
                  [Added(@, target[t].pending \ target[t].tracks) EXCEPT !.pending = {}]]
  /\ UNCHANGED <<targetEnv, receiverCh, connects, handler>>

-----------------------------------------------------------------------------
Init ==
  /\ sender = [pc |-> NoPc, tracks |-> NoTracks]
  /\ lastSender = 0
  /\ track = [x \in Tracks |-> [kind |-> CHOOSE k \in Kinds : TRUE,
                                pc |-> NoPc, pump |-> "none"]]
  /\ resetting = [busy |-> FALSE, locked |-> FALSE, handler |-> FALSE, todo |-> {}]
  /\ target = [t \in Targets |-> NotConnected]
  /\ connects = 0
  /\ handler = Nobody
  /\ trackCh = <<>>
  /\ receiverCh = <<>>
  /\ tracker = [todo |-> {}, track |-> NoTrack, remove |-> FALSE, transceiver |-> FALSE]
  /\ receiver = ReceiverIdle

TrackWorker == TrackTake \/ \E t \in Targets : TrackTarget(t)
ReceiverWorker == ReceiverTake \/ ReceiverLock \/ ReceiverFill
Resetter == ResetPush \/ ResetDone
PumpStep(x) == PumpAnnounce(x) \/ PumpDelete(x) \/ PumpRemove(x)

Next ==
  \/ SenderConnect \/ SenderClear \/ SenderReset \/ Resetter
  \/ \E x \in Tracks : OnTrack(x) \/ PumpStep(x) \/ PumpEnds(x)
  \/ TrackWorker \/ ReceiverWorker \/ ReceiverPush
  \/ \E t \in Targets : TargetConnect(t) \/ TargetClear(t) \/ TargetReset(t) \/ TargetOffer(t)

Spec == Init /\ [][Next]_vars

(* Goroutines that can go on do; the pump of a closed peer connection gets *)
(* its error.  The lock is fair to the workers, whose target is locked and *)
(* unlocked again and again by others only as often as the bounds allow.   *)
FairSpec ==
  /\ Spec
  /\ WF_vars(Resetter) /\ WF_vars(TrackWorker) /\ WF_vars(ReceiverWorker)
  /\ WF_vars(ReceiverPush)
  /\ \A x \in Tracks : /\ WF_vars(PumpStep(x))
                       /\ WF_vars(track[x].pc # sender.pc /\ PumpEnds(x))

-----------------------------------------------------------------------------
(* No goroutine has anything left to do. *)
Quiet ==
  /\ trackCh = <<>> /\ receiverCh = <<>>
  /\ tracker.todo = {} /\ receiver.at = "idle"
  /\ handler = Nobody /\ ~resetting.busy
  /\ \A x \in Tracks : \/ track[x].pump \in {"none", "done"}
                       \/ track[x].pump = "reading" /\ track[x].pc = sender.pc

Forwarded(t) == target[t].tracks \cup target[t].pending
Reading == {x \in Tracks : track[x].pump = "reading"}

(* A track that has ended is taken back from every target, however its end *)
(* is overtaken by resets, new peer connections of both sides and by the   *)
(* two workers.                                                            *)
NoDeadTrack == Quiet => \A t \in Targets : Forwarded(t) \subseteq Reading

(* A track that the sender has got to every target with a peer connection, *)
(* either by the track worker or by the receiver worker.                   *)
RegisteredForwarded ==
  Quiet => \A t \in Targets : target[t].pc # NoPc => Registered \subseteq Forwarded(t)

(* A track can be taken back from where it was added: removeTrack looks    *)
(* only at the senders.                                                    *)
TracksHaveSenders == \A t \in Targets : target[t].tracks \subseteq target[t].senders

(* What is left to be done with the track x, other than by its pump.       *)
Pending(x) ==
  \/ \E i \in 1..Len(trackCh) : trackCh[i].track = x
  \/ tracker.todo # {} /\ tracker.track = x

TrackState(x) ==
  CASE track[x].pump = "none" -> "new"
    [] track[x].pump = "done" /\ ~Pending(x) -> "gone"
    [] x \in Registered /\ ~resetting.busy -> "live"
    [] OTHER -> "leaving"

D == INSTANCE Distribution WITH
       state <- [x \in Tracks |-> TrackState(x)],
       MaxConnections <- MaxConnects,
       connection <- [t \in Targets |-> target[t].pc],
       has <- [t \in Targets |-> Forwarded(t)]

(* A target keeps what the sender has as long as it keeps its peer         *)
(* connection, whatever the workers, the remote and a pump that ends do    *)
(* meanwhile.  A track of which the last change has been made is nowhere   *)
(* and never comes back: not from a worker that saw the sender's tracks    *)
(* before, and not from a change that was overtaken.                       *)
ImplementsDistribution == D!Spec

(* The comment on the receiver worker: it adds all existing tracks to      *)
(* newly created peer connections.                                         *)
ExistingTracksAdded ==
  Quiet => \A t \in Targets : target[t].pc # NoPc => Reading \subseteq Forwarded(t)

(* The readPump holds the lock of a new peer connection's record until     *)
(* receiverCh has room, which only the receiver worker can make; it waits  *)
(* for that lock, for an earlier peer connection of the same record.       *)
ReceiverDeadlock ==
  /\ handler # Nobody
  /\ Full(receiverCh)
  /\ receiver = [at |-> "target", target |-> handler]

(* A reset holds the sender's lock until trackCh has room, which only the  *)
(* track worker can make; it waits for the target whose lock the receiver  *)
(* worker holds, and this one waits for the sender.                        *)
ResetDeadlock ==
  /\ SenderLocked
  /\ Full(trackCh)
  /\ \E k \in resetting.todo : sender.tracks[k] # NoTrack
  /\ receiver.at = "sender"
  /\ receiver.target \in tracker.todo

(* The same with more targets: the track worker waits for the target whose *)
(* lock the readPump holds, which in turn waits for the receiver worker.   *)
ConnectDeadlock ==
  /\ SenderLocked
  /\ Full(trackCh)
  /\ \E k \in resetting.todo : sender.tracks[k] # NoTrack
  /\ receiver.at = "sender"
  /\ Full(receiverCh)
  /\ handler \in tracker.todo

Deadlocked == ReceiverDeadlock \/ ResetDeadlock \/ ConnectDeadlock

(* Who has work to do and waits: for room, or for a lock.                  *)
ResetWaits ==
  /\ Full(trackCh)
  /\ resetting.todo # {} /\ \A k \in resetting.todo : sender.tracks[k] # NoTrack
TrackWorkerWaits == tracker.todo # {} /\ \A t \in tracker.todo : TargetLocked(t)
ReceiverWorkerWaits ==
  \/ receiver.at = "target" /\ TargetLocked(receiver.target)
  \/ receiver.at = "sender" /\ SenderLocked
ReadPumpWaits == handler # Nobody /\ Full(receiverCh)

SomebodyGoesOn ==
  \/ resetting.busy /\ ~ResetWaits
  \/ (trackCh # <<>> \/ tracker.todo # {}) /\ ~TrackWorkerWaits
  \/ (receiverCh # <<>> \/ receiver.at # "idle") /\ ~ReceiverWorkerWaits
  \/ handler # Nobody /\ ~ReadPumpWaits

(* As long as there is work for the workers, a reset or the readPump, one  *)
(* of them goes on: whatever they wait for, who has it waits for nobody or *)
(* for another of them, and only in the three deadlocks in a circle.       *)
OnlyDeadlocksStop ==
  \/ Deadlocked \/ SomebodyGoesOn
  \/ /\ trackCh = <<>> /\ receiverCh = <<>> /\ tracker.todo = {}
     /\ receiver.at = "idle" /\ handler = Nobody /\ ~resetting.busy

(* Nothing that still runs, neither a pump nor a reset, resolves one.      *)
DeadlocksStay == [][Deadlocked => Deadlocked']_vars

(* A registered track gets to a connected target, unless one of the two    *)
(* goes away, while the workers wait for locks and full channels: the      *)
(* deadlocks are the only way in which it does not.                        *)
TrackDelivered ==
  \A t \in Targets, x \in Tracks :
    x \in Registered /\ target[t].pc # NoPc
      ~> \/ x \in Forwarded(t) \/ x \notin Registered \/ ~target[t].pc # NoPc
         \/ Deadlocked

(* Nobody waits for ever but in the deadlocks: the pump of a track         *)
(* that has ended gets its removal through, a reset of the sender is       *)
(* finished, and the readPump gets rid of the lock of a record with a new  *)
(* peer connection, which CHANGELOG.md says of it ("Fix deadlock when      *)
(* adding existing tracks to new pc").                                     *)
NobodyWaitsForEver ==
  /\ \A x \in Tracks : track[x].pump = "delete" ~> track[x].pump = "done" \/ Deadlocked
  /\ resetting.busy ~> ~resetting.busy \/ Deadlocked
  /\ \A t \in Targets : handler = t ~> handler # t \/ Deadlocked
=============================================================================
