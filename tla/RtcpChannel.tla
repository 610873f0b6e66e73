---------------------------- MODULE RtcpChannel ----------------------------
(***************************************************************************)
(* The way back from the receivers of a sender's tracks to the sender:     *)
(* rtcpCh of a ConnectionRecord (connectionrecord.go).                     *)
(*                                                                         *)
(* The first track of a peer connection makes the channel and starts its   *)
(* consumer with the record's context.  Every receiver of a track has a    *)
(* subscriber, which reads RTCP and writes it to the channel it was given. *)
(* A reset and clearPeerConnection put a nil into the channel and forget   *)
(* it: the consumer ends at the nil, a subscriber when it finds that the   *)
(* record's channel is not its own.  A reset also cancels the context.     *)
(*                                                                         *)
(* Channels and contexts are numbered as they are made.  Contexts before   *)
(* the record's own have been cancelled.  NoCh is the nil channel.         *)
(***************************************************************************)
EXTENDS Naturals, Sequences

CONSTANTS
  Subscribers,   \* the RTPSenders of other records
  ChSize,        \* maxChSize
  MaxCh,         \* bound: channels ever made
  MaxCtx         \* bound: contexts, one more than there are resets

ASSUME RtcpChannelAssumption ==
  /\ ChSize \in Nat \ {0}
  /\ MaxCh \in Nat
  /\ MaxCtx \in Nat \ {0}

NoCh == 0
Channels == 1..MaxCh

VARIABLES
  record,      \* the sender's record
  closing,     \* what its readPump or a callback is doing with it
  lastCh,      \* how many channels it has had
  queue,       \* what is in them
  consumer,    \* their consumers
  subscriber,
  wsUp         \* the context of the websocket is not done

vars == <<record, closing, lastCh, queue, consumer, subscriber, wsUp>>

Item == {"packet", "nil"}

TypeOK ==
  /\ record \in [connected : BOOLEAN, rtcpCh : 0..MaxCh, ctx : 1..MaxCtx]
  /\ closing \in {"no", "reset", "unlockedReset", "clear"}
  /\ lastCh \in 0..MaxCh
  /\ queue \in [Channels -> Seq(Item)]
  /\ \A c \in Channels : Len(queue[c]) <= ChSize
  /\ consumer \in [Channels -> [at : {"none", "running", "ended"}, ctx : 1..MaxCtx]]
  /\ subscriber \in [Subscribers ->
                      [at : {"off", "read", "check", "push", "ended"}, ch : 0..MaxCh]]
  /\ wsUp \in BOOLEAN

Locked == closing \in {"reset", "clear"}
Cancelled(ctx) == ctx # record.ctx \/ ~wsUp

-----------------------------------------------------------------------------
(* The record. *)

recordEnv == <<queue, consumer, subscriber, wsUp>>

CreatePeerConnection ==
  /\ closing = "no"
  /\ ~record.connected
  /\ record' = [record EXCEPT !.connected = TRUE]
  /\ UNCHANGED <<closing, lastCh, recordEnv>>

(* Mutant: the consumer gets the context of the record's first channel. *)
OnTrackStale ==
  /\ closing = "no"
  /\ record.connected
  /\ record.rtcpCh = NoCh
  /\ lastCh < MaxCh
  /\ lastCh' = lastCh + 1
  /\ record' = [record EXCEPT !.rtcpCh = lastCh + 1]
  /\ consumer' = [consumer EXCEPT ![lastCh + 1] = [at |-> "running", ctx |-> 1]]
  /\ UNCHANGED <<closing, queue, subscriber, wsUp>>

OnTrack ==
  /\ closing = "no"
  /\ record.connected
  /\ record.rtcpCh = NoCh
  /\ lastCh < MaxCh
  /\ lastCh' = lastCh + 1
  /\ record' = [record EXCEPT !.rtcpCh = lastCh + 1]
  /\ consumer' = [consumer EXCEPT ![lastCh + 1] = [at |-> "running", ctx |-> record.ctx]]
  /\ UNCHANGED <<closing, queue, subscriber, wsUp>>

(* The readPump resets a record whose SDP is refused without its lock.     *)
Reset ==
  /\ closing = "no"
  /\ record.ctx < MaxCtx
  /\ record' = [record EXCEPT !.connected = FALSE, !.ctx = @ + 1]
  /\ IF record.rtcpCh = NoCh THEN UNCHANGED closing
     ELSE closing' \in {"reset", "unlockedReset"}
  /\ UNCHANGED <<lastCh, recordEnv>>

ClearPeerConnection ==
  /\ closing = "no"
  /\ record.connected
  /\ record' = [record EXCEPT !.connected = FALSE]
  /\ closing' = IF record.rtcpCh = NoCh THEN "no" ELSE "clear"
  /\ UNCHANGED <<lastCh, recordEnv>>

(* record.rtcpCh <- nil, and record.rtcpCh = nil. *)
CloseChannel ==
  /\ closing # "no"
  /\ Len(queue[record.rtcpCh]) < ChSize
  /\ queue' = [queue EXCEPT ![record.rtcpCh] = Append(@, "nil")]
  /\ record' = [record EXCEPT !.rtcpCh = NoCh]
  /\ closing' = "no"
  /\ UNCHANGED <<lastCh, consumer, subscriber, wsUp>>

(* RTMChannelSFU.Close, or the websocket is lost. *)
WebsocketEnds ==
  /\ wsUp
  /\ wsUp' = FALSE
  /\ UNCHANGED <<record, closing, lastCh, queue, consumer, subscriber>>

-----------------------------------------------------------------------------
(* The consumer of channel c.  When its context is done it may still take  *)
(* what is there: select chooses.                                          *)
Consume(c) ==
  /\ consumer[c].at = "running"
  /\ queue[c] # <<>>
  /\ queue' = [queue EXCEPT ![c] = Tail(@)]
  /\ consumer' = IF Head(queue[c]) = "nil"
                 THEN [consumer EXCEPT ![c].at = "ended"] ELSE consumer
  /\ UNCHANGED <<record, closing, lastCh, subscriber, wsUp>>

ConsumerCancelled(c) ==
  /\ consumer[c].at = "running"
  /\ Cancelled(consumer[c].ctx)
  /\ consumer' = [consumer EXCEPT ![c].at = "ended"]
  /\ UNCHANGED <<record, closing, lastCh, queue, subscriber, wsUp>>

-----------------------------------------------------------------------------
(* The subscribers. *)

SubscriberAt(s, point) == subscriber' = [subscriber EXCEPT ![s].at = point]
subscriberEnv == <<record, closing, lastCh, consumer, wsUp>>

(* addTrack takes the channel from the TrackRecord, which was made when    *)
(* the track came and may have been pending since.                         *)
Subscribe(s) ==
  /\ subscriber[s].at = "off"
  /\ \E c \in 1..lastCh : subscriber' = [subscriber EXCEPT ![s] = [at |-> "read", ch |-> c]]
  /\ UNCHANGED <<queue, subscriberEnv>>

ReadRTCP(s) ==
  /\ subscriber[s].at = "read"
  /\ SubscriberAt(s, "check") \/ SubscriberAt(s, "ended")
  /\ UNCHANGED <<queue, subscriberEnv>>

(* Mutant: the channels are not compared. *)
CheckNothing(s) ==
  /\ subscriber[s].at = "check"
  /\ ~Locked
  /\ SubscriberAt(s, "push")
  /\ UNCHANGED <<queue, subscriberEnv>>

CheckChannel(s) ==
  /\ subscriber[s].at = "check"
  /\ ~Locked
  /\ SubscriberAt(s, IF subscriber[s].ch = record.rtcpCh THEN "push" ELSE "ended")
  /\ UNCHANGED <<queue, subscriberEnv>>

(* Mutant: the channel grows without a bound. *)
PushPacketUnbounded(s) ==
  /\ subscriber[s].at = "push"
  /\ queue' = [queue EXCEPT ![subscriber[s].ch] = Append(@, "packet")]
  /\ SubscriberAt(s, "read")
  /\ UNCHANGED subscriberEnv

PushPacket(s) ==
  LET c == subscriber[s].ch
  IN /\ subscriber[s].at = "push"
     /\ Len(queue[c]) < ChSize
     /\ queue' = [queue EXCEPT ![c] = Append(@, "packet")]
     /\ SubscriberAt(s, "read")
     /\ UNCHANGED subscriberEnv

-----------------------------------------------------------------------------
Init ==
  /\ record = [connected |-> FALSE, rtcpCh |-> NoCh, ctx |-> 1]
  /\ closing = "no"
  /\ lastCh = 0
  /\ queue = [c \in Channels |-> <<>>]
  /\ consumer = [c \in Channels |-> [at |-> "none", ctx |-> 1]]
  /\ subscriber = [s \in Subscribers |-> [at |-> "off", ch |-> NoCh]]
  /\ wsUp = TRUE

ConsumerStep(c) == Consume(c) \/ ConsumerCancelled(c)
SubscriberStep(s) == ReadRTCP(s) \/ CheckChannel(s) \/ PushPacket(s)

Next ==
  \/ CreatePeerConnection \/ OnTrack \/ Reset \/ ClearPeerConnection
  \/ CloseChannel \/ WebsocketEnds
  \/ \E c \in Channels : ConsumerStep(c)
  \/ \E s \in Subscribers : Subscribe(s) \/ SubscriberStep(s)

Spec == Init /\ [][Next]_vars

(* Goroutines go on when they can.  ReadRTCP is fair because receivers     *)
(* report again and again until their connection is closed.  Go serves the *)
(* senders that wait for a channel in the order in which they came: strong *)
(* fairness of PushPacket.                                                 *)
FairSpec ==
  /\ Spec
  /\ WF_vars(CloseChannel)
  /\ \A c \in Channels : WF_vars(ConsumerStep(c))
  /\ \A s \in Subscribers : WF_vars(SubscriberStep(s)) /\ SF_vars(PushPacket(s))

-----------------------------------------------------------------------------
(* As long as the record hands its channel out, somebody reads it: over    *)
(* resets, which cancel the context that the consumer was started with,    *)
(* and new peer connections, which do not, the channel's consumer runs     *)
(* with the record's own context and no nil is on its way to it.  This is  *)
(* so also while a clear, which has the lock, waits with its nil for the   *)
(* room that only this consumer makes.                                     *)
ConsumerAlive ==
  closing \in {"no", "clear"} /\ record.rtcpCh # NoCh /\ wsUp =>
    /\ consumer[record.rtcpCh] = [at |-> "running", ctx |-> record.ctx]
    /\ \A i \in 1..Len(queue[record.rtcpCh]) : queue[record.rtcpCh][i] = "packet"

(* The consumer of a forgotten channel has a reason to end: the nil or its *)
(* context.                                                                *)
NoLeakedConsumer ==
  \A c \in Channels :
    consumer[c].at = "running" /\ c # record.rtcpCh =>
      \/ \E i \in 1..Len(queue[c]) : queue[c][i] = "nil"
      \/ Cancelled(consumer[c].ctx)

(* A channel that nobody will ever read again, and that has no room. *)
Abandoned(c) == c # NoCh /\ Len(queue[c]) = ChSize /\ consumer[c].at = "ended"

(* The nil of a reset "Closes subscribers", says the comment on it: those  *)
(* that have still to compare their channel with the record's end, unless  *)
(* they wait for the lock of a record whose reset waits for room in a      *)
(* channel whose consumer it has cancelled.  One that compared before the  *)
(* reset may wait for such room itself, and is not closed.                 *)
SubscribersEnd ==
  \A s \in Subscribers :
    /\ subscriber[s].at \in {"read", "check"} /\ subscriber[s].ch # record.rtcpCh
         ~> subscriber[s].at = "ended" \/ (Locked /\ Abandoned(record.rtcpCh))
    /\ subscriber[s].at = "push"
         ~> subscriber[s].at # "push" \/ Abandoned(subscriber[s].ch)
=============================================================================
