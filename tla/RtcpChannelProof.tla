-------------------------- MODULE RtcpChannelProof --------------------------
(***************************************************************************)
(* Proofs about RtcpChannel for any subscribers, any length of the         *)
(* channels and all bounds.                                                *)
(***************************************************************************)
EXTENDS RtcpChannel, TLAPS

ConsumerType == [at : {"none", "running", "ended"}, ctx : 1..MaxCtx]
SubscriberType == [at : {"off", "read", "check", "push", "ended"}, ch : 0..MaxCh]

(* What Append and Tail do to a channel.                                   *)
LEMMA Sent ==
  ASSUME NEW q \in Seq(Item), NEW i \in Item, Len(q) < ChSize, ChSize \in Nat
  PROVE  Append(q, i) \in Seq(Item) /\ Len(Append(q, i)) <= ChSize
  OBVIOUS

LEMMA Taken ==
  ASSUME NEW q \in Seq(Item), q # <<>>
  PROVE  Tail(q) \in Seq(Item) /\ Len(Tail(q)) <= Len(q) /\ Head(q) \in Item
  OBVIOUS

LEMMA TypeInit == ASSUME RtcpChannelAssumption, Init PROVE TypeOK
<1>1. \A c \in Channels : queue[c] = <<>>
  BY DEF Init
<1>2. <<>> \in Seq(Item) /\ Len(<<>>) <= ChSize
  BY DEF RtcpChannelAssumption
<1> QED BY <1>1, <1>2 DEF Init, TypeOK, RtcpChannelAssumption, NoCh

LEMMA TypeStep == ASSUME RtcpChannelAssumption, TypeOK, Next PROVE TypeOK'
<1> USE DEF RtcpChannelAssumption
<1>q. ASSUME NEW c \in Channels, NEW q \in Seq(Item), Len(q) <= ChSize
      PROVE  LET k == [queue EXCEPT ![c] = q]
             IN /\ k \in [Channels -> Seq(Item)]
                /\ \A d \in Channels : Len(k[d]) <= ChSize
  BY <1>q DEF TypeOK
<1>s. ASSUME NEW s \in Subscribers, NEW p \in {"read", "check", "push", "ended"}
      PROVE  [subscriber EXCEPT ![s].at = p] \in [Subscribers -> SubscriberType]
  BY DEF TypeOK, SubscriberType
<1>1. CASE CreatePeerConnection
  BY <1>1 DEF CreatePeerConnection, TypeOK, recordEnv
<1>2. CASE OnTrack
  <2>1. lastCh + 1 \in Channels /\ record.ctx \in 1..MaxCtx
    BY <1>2 DEF OnTrack, TypeOK, Channels
  <2>2. consumer' \in [Channels -> ConsumerType]
    BY <1>2, <2>1 DEF OnTrack, TypeOK, ConsumerType
  <2>3. record' \in [connected : BOOLEAN, rtcpCh : 0..MaxCh, ctx : 1..MaxCtx]
    <3>1. lastCh + 1 \in 0..MaxCh
      BY <2>1 DEF Channels
    <3>2. \A n \in 0..MaxCh :
            [record EXCEPT !.rtcpCh = n] \in [connected : BOOLEAN, rtcpCh : 0..MaxCh, ctx : 1..MaxCtx]
      BY DEF TypeOK
    <3> QED BY <1>2, <3>1, <3>2 DEF OnTrack
  <2>4. lastCh' \in 0..MaxCh
    BY <1>2, <2>1 DEF OnTrack, Channels
  <2> QED BY <1>2, <2>2, <2>3, <2>4 DEF OnTrack, TypeOK, ConsumerType
<1>3. CASE Reset
  <2>1. record.ctx + 1 \in 1..MaxCtx
    BY <1>3 DEF Reset, TypeOK
  <2>2. record' \in [connected : BOOLEAN, rtcpCh : 0..MaxCh, ctx : 1..MaxCtx]
    BY <1>3, <2>1 DEF Reset, TypeOK
  <2> QED BY <1>3, <2>2 DEF Reset, TypeOK, recordEnv
<1>4. CASE ClearPeerConnection
  BY <1>4 DEF ClearPeerConnection, TypeOK, recordEnv
<1>5. CASE CloseChannel
  <2>1. record.rtcpCh \in Channels \/ record.rtcpCh = NoCh
    BY DEF TypeOK, Channels, NoCh
  <2>2. /\ queue' \in [Channels -> Seq(Item)]
        /\ \A d \in Channels : Len(queue'[d]) <= ChSize
    <3>1. CASE record.rtcpCh \in Channels
      <4>1. "nil" \in Item /\ queue[record.rtcpCh] \in Seq(Item)
        BY <3>1 DEF Item, TypeOK
      <4> QED BY <1>5, <3>1, <4>1, <1>q, Sent DEF CloseChannel
    <3>2. CASE record.rtcpCh \notin Channels
      BY <1>5, <3>2 DEF CloseChannel, TypeOK
    <3> QED BY <3>1, <3>2
  <2>3. record' \in [connected : BOOLEAN, rtcpCh : 0..MaxCh, ctx : 1..MaxCtx]
    <3>1. 0 \in 0..MaxCh
      OBVIOUS
    <3>2. [record EXCEPT !.rtcpCh = 0] \in [connected : BOOLEAN, rtcpCh : 0..MaxCh, ctx : 1..MaxCtx]
      BY <3>1 DEF TypeOK
    <3> QED BY <1>5, <3>2 DEF CloseChannel, NoCh
  <2> QED BY <1>5, <2>2, <2>3 DEF CloseChannel, TypeOK
<1>6. CASE WebsocketEnds
  BY <1>6 DEF WebsocketEnds, TypeOK
<1>7. ASSUME NEW c \in Channels, Consume(c) PROVE TypeOK'
  <2>1. queue[c] \in Seq(Item) /\ Len(queue[c]) <= ChSize
    BY DEF TypeOK
  <2>2. Tail(queue[c]) \in Seq(Item) /\ Len(Tail(queue[c])) <= ChSize
    <3>1. Len(Tail(queue[c])) <= Len(queue[c]) /\ Tail(queue[c]) \in Seq(Item)
      BY <1>7, <2>1, Taken DEF Consume
    <3> QED BY <2>1, <3>1
  <2>3. /\ queue' \in [Channels -> Seq(Item)]
        /\ \A d \in Channels : Len(queue'[d]) <= ChSize
    BY <1>7, <2>2, <1>q DEF Consume
  <2>4. consumer' \in [Channels -> ConsumerType]
    <3>1. consumer \in [Channels -> ConsumerType]
      BY DEF TypeOK, ConsumerType
    <3>2. [consumer EXCEPT ![c].at = "ended"] \in [Channels -> ConsumerType]
      BY <3>1 DEF ConsumerType
    <3> QED BY <1>7, <3>1, <3>2 DEF Consume
  <2> QED BY <1>7, <2>3, <2>4 DEF Consume, TypeOK, ConsumerType
<1>8. ASSUME NEW c \in Channels, ConsumerCancelled(c) PROVE TypeOK'
  BY <1>8 DEF ConsumerCancelled, TypeOK
<1>9. ASSUME NEW s \in Subscribers, Subscribe(s) PROVE TypeOK'
  <2>1. \A c \in 1..lastCh : [at |-> "read", ch |-> c] \in SubscriberType
    BY DEF TypeOK, SubscriberType
  <2>2. subscriber' \in [Subscribers -> SubscriberType]
    BY <1>9, <2>1 DEF Subscribe, TypeOK, SubscriberType
  <2> QED BY <1>9, <2>2 DEF Subscribe, TypeOK, subscriberEnv, SubscriberType
<1>10. ASSUME NEW s \in Subscribers, ReadRTCP(s) PROVE TypeOK'
  <2>1. subscriber' \in [Subscribers -> SubscriberType]
    BY <1>10, <1>s DEF ReadRTCP, SubscriberAt
  <2> QED BY <1>10, <2>1 DEF ReadRTCP, TypeOK, subscriberEnv, SubscriberType
<1>11. ASSUME NEW s \in Subscribers, CheckChannel(s) PROVE TypeOK'
  <2>1. subscriber' \in [Subscribers -> SubscriberType]
    BY <1>11, <1>s DEF CheckChannel, SubscriberAt
  <2> QED BY <1>11, <2>1 DEF CheckChannel, TypeOK, subscriberEnv, SubscriberType
<1>12. ASSUME NEW s \in Subscribers, PushPacket(s) PROVE TypeOK'
  <2> DEFINE c == subscriber[s].ch
  <2>1. subscriber' \in [Subscribers -> SubscriberType]
    BY <1>12, <1>s DEF PushPacket, SubscriberAt
  <2>2. /\ queue' \in [Channels -> Seq(Item)]
        /\ \A d \in Channels : Len(queue'[d]) <= ChSize
    <3>1. CASE c \in Channels
      <4>1. "packet" \in Item /\ queue[c] \in Seq(Item)
        BY <3>1 DEF Item, TypeOK
      <4>2. queue' = [queue EXCEPT ![c] = Append(queue[c], "packet")] /\ Len(queue[c]) < ChSize
        BY <1>12, <3>1 DEF PushPacket, TypeOK
      <4> HIDE DEF c
      <4> QED BY <3>1, <4>1, <4>2, <1>q, Sent
    <3>2. CASE c \notin Channels
      BY <1>12, <3>2 DEF PushPacket, TypeOK
    <3> QED BY <3>1, <3>2
  <2> QED BY <1>12, <2>1, <2>2 DEF PushPacket, TypeOK, subscriberEnv, SubscriberType
<1> QED BY <1>1, <1>2, <1>3, <1>4, <1>5, <1>6, <1>7, <1>8, <1>9, <1>10, <1>11, <1>12
        DEF Next, ConsumerStep, SubscriberStep

(* Every variable keeps its type, and no channel holds more than ChSize.   *)
THEOREM ChannelTypes == Spec => []TypeOK
<1>1. TypeOK /\ [Next]_vars => TypeOK'
  <2>1. TypeOK /\ UNCHANGED vars => TypeOK'
    BY DEF TypeOK, vars
  <2> QED BY <2>1, RtcpChannelAssumption, TypeStep
<1>2. Init => TypeOK
  BY RtcpChannelAssumption, TypeInit
<1> QED BY <1>1, <1>2, PTL DEF Spec

-----------------------------------------------------------------------------
(* The invariant behind the two properties.  A channel that is not yet     *)
(* made is empty and has no consumer; the record's own channel has no nil  *)
(* in it and, unless a reset goes on, a consumer with the record's         *)
(* context; a context once cancelled is never the record's again.          *)
HasNil(q) == \E i \in 1..Len(q) : q[i] = "nil"

ChannelInv ==
  /\ record.rtcpCh <= lastCh
  /\ closing # "no" => record.rtcpCh # NoCh
  /\ \A c \in Channels : consumer[c].ctx <= record.ctx
  /\ \A c \in Channels : c > lastCh => queue[c] = <<>>
  /\ \A s \in Subscribers : subscriber[s].ch <= lastCh
  /\ \A c \in Channels : c = record.rtcpCh =>
       /\ ~HasNil(queue[c])
       /\ closing \in {"no", "clear"} /\ wsUp =>
            consumer[c].at = "running" /\ consumer[c].ctx = record.ctx
  /\ \A c \in Channels : c # record.rtcpCh /\ consumer[c].at = "running" =>
       HasNil(queue[c]) \/ Cancelled(consumer[c].ctx)

LEMMA NilSent ==
  ASSUME NEW q \in Seq(Item)
  PROVE  /\ HasNil(Append(q, "nil"))
         /\ HasNil(Append(q, "packet")) <=> HasNil(q)
<1>1. "nil" \in Item /\ "packet" \in Item
  BY DEF Item
<1>2. HasNil(Append(q, "nil"))
  <2>1. Append(q, "nil")[Len(q) + 1] = "nil" /\ Len(q) + 1 \in 1..Len(Append(q, "nil"))
    BY <1>1
  <2> QED BY <2>1 DEF HasNil
<1>3. HasNil(q) => HasNil(Append(q, "packet"))
  <2> SUFFICES ASSUME NEW i \in 1..Len(q), q[i] = "nil"
               PROVE  HasNil(Append(q, "packet"))
    BY DEF HasNil
  <2>1. Append(q, "packet")[i] = "nil" /\ i \in 1..Len(Append(q, "packet"))
    BY <1>1
  <2> QED BY <2>1 DEF HasNil
<1>4. HasNil(Append(q, "packet")) => HasNil(q)
  <2> SUFFICES ASSUME NEW i \in 1..Len(Append(q, "packet")), Append(q, "packet")[i] = "nil"
               PROVE  HasNil(q)
    BY DEF HasNil
  <2>1. i \in 1..Len(q) /\ q[i] = "nil"
    BY <1>1
  <2> QED BY <2>1 DEF HasNil
<1> QED BY <1>2, <1>3, <1>4

LEMMA NilTaken ==
  ASSUME NEW q \in Seq(Item), q # <<>>
  PROVE  /\ HasNil(Tail(q)) => HasNil(q)
         /\ HasNil(q) /\ Head(q) # "nil" => HasNil(Tail(q))
<1>1. HasNil(Tail(q)) => HasNil(q)
  <2> SUFFICES ASSUME NEW i \in 1..Len(Tail(q)), Tail(q)[i] = "nil" PROVE HasNil(q)
    BY DEF HasNil
  <2>1. i + 1 \in 1..Len(q) /\ q[i + 1] = "nil"
    OBVIOUS
  <2> QED BY <2>1 DEF HasNil
<1>2. ASSUME HasNil(q), Head(q) # "nil" PROVE HasNil(Tail(q))
  <2>1. PICK i \in 1..Len(q) : q[i] = "nil"
    BY <1>2 DEF HasNil
  <2>2. i # 1
    BY <1>2, <2>1
  <2>3. i - 1 \in 1..Len(Tail(q)) /\ Tail(q)[i - 1] = "nil"
    BY <2>1, <2>2
  <2> QED BY <2>3 DEF HasNil
<1> QED BY <1>1, <1>2

LEMMA ChannelInit == ASSUME RtcpChannelAssumption, Init PROVE ChannelInv
<1>1. \A c \in Channels : c # NoCh
  BY DEF Channels, NoCh
<1>2. NoCh <= 0
  BY DEF NoCh
<1> QED BY <1>1, <1>2 DEF Init, ChannelInv, HasNil

LEMMA ChannelStep == ASSUME RtcpChannelAssumption, TypeOK, ChannelInv, Next PROVE ChannelInv'
<1> USE DEF NoCh
<1>t. /\ record.rtcpCh \in 0..MaxCh /\ record.ctx \in 1..MaxCtx /\ lastCh \in 0..MaxCh
      /\ \A c \in Channels : /\ c \in 1..MaxCh /\ queue[c] \in Seq(Item)
                            /\ consumer[c].ctx \in 1..MaxCtx
      /\ \A s \in Subscribers : subscriber[s].ch \in 0..MaxCh
      /\ MaxCh \in Nat /\ MaxCtx \in Nat
  BY DEF TypeOK, Channels, RtcpChannelAssumption
<1>1. CASE CreatePeerConnection
  <2>1. /\ record'.rtcpCh = record.rtcpCh /\ record'.ctx = record.ctx
    BY <1>1 DEF CreatePeerConnection, TypeOK
  <2> QED BY <1>1, <2>1 DEF CreatePeerConnection, ChannelInv, recordEnv, Cancelled
<1>2. CASE OnTrack
  <2> DEFINE new == lastCh + 1
  <2>1. /\ record'.rtcpCh = new /\ record'.ctx = record.ctx /\ record.rtcpCh = 0
        /\ lastCh' = new /\ new \in Channels /\ closing = "no"
        /\ consumer'[new] = [at |-> "running", ctx |-> record.ctx]
        /\ \A c \in Channels : c # new => consumer'[c] = consumer[c]
        /\ UNCHANGED <<closing, queue, subscriber, wsUp>>
    BY <1>2, <1>t DEF OnTrack, TypeOK, Channels
  <2>2. ~HasNil(queue[new])
    <3>1. queue[new] = <<>>
      BY <2>1, <1>t DEF ChannelInv
    <3> QED BY <3>1 DEF HasNil
  <2> HIDE DEF new
  <2>3. \A c \in Channels : consumer'[c].ctx <= record'.ctx
    BY <1>t, <2>1 DEF ChannelInv
  <2>4. /\ record'.rtcpCh <= lastCh'
        /\ \A c \in Channels : c > lastCh' => queue'[c] = <<>>
        /\ \A s \in Subscribers : subscriber'[s].ch <= lastCh'
    BY <1>t, <2>1 DEF ChannelInv, new
  <2>5. \A c \in Channels : c = record'.rtcpCh =>
          /\ ~HasNil(queue'[c])
          /\ consumer'[c].at = "running" /\ consumer'[c].ctx = record'.ctx
    BY <2>1, <2>2
  <2>6. \A c \in Channels : c # record'.rtcpCh /\ consumer'[c].at = "running" =>
          HasNil(queue'[c]) \/ Cancelled(consumer[c].ctx)'
    BY <1>t, <2>1 DEF ChannelInv, Cancelled
  <2> QED BY <2>1, <2>3, <2>4, <2>5, <2>6 DEF ChannelInv
<1>3. CASE Reset
  <2>1. /\ record'.rtcpCh = record.rtcpCh /\ record'.ctx = record.ctx + 1
        /\ closing = "no" /\ (closing' # "no" => record.rtcpCh # 0)
        /\ (record.rtcpCh # 0 => closing' \in {"reset", "unlockedReset"})
        /\ UNCHANGED <<lastCh, queue, consumer, subscriber, wsUp>>
    BY <1>3 DEF Reset, TypeOK, recordEnv
  <2>2. \A c \in Channels : Cancelled(consumer[c].ctx)'
    BY <1>t, <2>1 DEF ChannelInv, Cancelled
  <2> QED BY <1>t, <2>1, <2>2 DEF ChannelInv
<1>4. CASE ClearPeerConnection
  <2>1. /\ record'.rtcpCh = record.rtcpCh /\ record'.ctx = record.ctx
        /\ closing = "no" /\ (closing' # "no" => record.rtcpCh # 0)
        /\ UNCHANGED <<lastCh, queue, consumer, subscriber, wsUp>>
    BY <1>4 DEF ClearPeerConnection, TypeOK, recordEnv
  <2> QED BY <1>t, <2>1 DEF ChannelInv, Cancelled
<1>5. CASE CloseChannel
  <2> DEFINE old == record.rtcpCh
  <2>1. /\ record'.rtcpCh = 0 /\ record'.ctx = record.ctx /\ closing' = "no"
        /\ old \in Channels /\ old <= lastCh
        /\ queue'[old] = Append(queue[old], "nil")
        /\ \A c \in Channels : c # old => queue'[c] = queue[c]
        /\ UNCHANGED <<lastCh, consumer, subscriber, wsUp>>
    BY <1>5, <1>t DEF CloseChannel, ChannelInv, TypeOK, Channels
  <2>2. HasNil(queue'[old])
    BY <1>t, <2>1, NilSent
  <2> HIDE DEF old
  <2>3. \A c \in Channels : c # record'.rtcpCh
    BY <1>t, <2>1
  <2>4. \A c \in Channels : consumer'[c].at = "running" =>
          HasNil(queue'[c]) \/ Cancelled(consumer[c].ctx)'
    BY <2>1, <2>2 DEF ChannelInv, Cancelled, old
  <2>5. \A c \in Channels : c > lastCh' => queue'[c] = <<>>
    BY <1>t, <2>1 DEF ChannelInv
  <2> QED BY <1>t, <2>1, <2>3, <2>4, <2>5 DEF ChannelInv
<1>6. CASE WebsocketEnds
  BY <1>6 DEF WebsocketEnds, ChannelInv, Cancelled
<1>7. ASSUME NEW c \in Channels, Consume(c) PROVE ChannelInv'
  <2>1. /\ queue'[c] = Tail(queue[c]) /\ queue[c] # <<>> /\ queue[c] \in Seq(Item)
        /\ \A d \in Channels : d # c => queue'[d] = queue[d] /\ consumer'[d] = consumer[d]
        /\ consumer[c].at = "running"
        /\ UNCHANGED <<record, closing, lastCh, subscriber, wsUp>>
    BY <1>7, <1>t DEF Consume, TypeOK
  <2>2. /\ consumer'[c].ctx = consumer[c].ctx
        /\ IF Head(queue[c]) = "nil" THEN consumer'[c].at = "ended"
           ELSE consumer'[c] = consumer[c]
    BY <1>7 DEF Consume, TypeOK
  <2>3. /\ HasNil(queue'[c]) => HasNil(queue[c])
        /\ HasNil(queue[c]) /\ Head(queue[c]) # "nil" => HasNil(queue'[c])
        /\ Head(queue[c]) = "nil" => HasNil(queue[c])
    <3>1. Head(queue[c]) = queue[c][1] /\ 1 \in 1..Len(queue[c])
      BY <2>1
    <3> QED BY <2>1, <3>1, NilTaken DEF HasNil
  <2>4. \A d \in Channels : d > lastCh => d # c
    BY <2>1 DEF ChannelInv
  <2>5. \A d \in Channels : consumer'[d].ctx = consumer[d].ctx
    BY <2>1, <2>2
  <2>6. \A d \in Channels : d = record'.rtcpCh =>
          /\ ~HasNil(queue'[d])
          /\ closing' \in {"no", "clear"} /\ wsUp' =>
               consumer'[d].at = "running" /\ consumer'[d].ctx = record'.ctx
    BY <2>1, <2>2, <2>3 DEF ChannelInv
  <2>7. \A d \in Channels : d # record'.rtcpCh /\ consumer'[d].at = "running" =>
          HasNil(queue'[d]) \/ Cancelled(consumer[d].ctx)'
    BY <2>1, <2>2, <2>3 DEF ChannelInv, Cancelled
  <2> QED BY <2>1, <2>4, <2>5, <2>6, <2>7 DEF ChannelInv
<1>8. ASSUME NEW c \in Channels, ConsumerCancelled(c) PROVE ChannelInv'
  <2>1. /\ \A d \in Channels : consumer'[d].ctx = consumer[d].ctx
        /\ consumer'[c].at = "ended"
        /\ \A d \in Channels : d # c => consumer'[d] = consumer[d]
        /\ Cancelled(consumer[c].ctx)
        /\ UNCHANGED <<record, closing, lastCh, queue, subscriber, wsUp>>
    BY <1>8 DEF ConsumerCancelled, TypeOK
  <2> QED BY <2>1 DEF ChannelInv, Cancelled
<1>9. ASSUME NEW s \in Subscribers, Subscribe(s) PROVE ChannelInv'
  <2>1. PICK n \in 1..lastCh : subscriber' = [subscriber EXCEPT ![s] = [at |-> "read", ch |-> n]]
    BY <1>9 DEF Subscribe
  <2>2. n <= lastCh
    BY <1>t
  <2>3. \A r \in Subscribers : subscriber'[r].ch <= lastCh
    BY <2>1, <2>2 DEF ChannelInv, TypeOK
  <2> QED BY <1>9, <2>3 DEF Subscribe, subscriberEnv, ChannelInv, Cancelled
<1>10. ASSUME NEW s \in Subscribers, ReadRTCP(s) \/ CheckChannel(s) PROVE ChannelInv'
  <2>1. \A r \in Subscribers : subscriber'[r].ch = subscriber[r].ch
    <3>1. PICK p : subscriber' = [subscriber EXCEPT ![s].at = p]
      BY <1>10 DEF ReadRTCP, CheckChannel, SubscriberAt
    <3> QED BY <3>1 DEF TypeOK
  <2>2. UNCHANGED <<queue, record, closing, lastCh, consumer, wsUp>>
    BY <1>10 DEF ReadRTCP, CheckChannel, subscriberEnv
  <2> QED BY <2>1, <2>2 DEF ChannelInv, Cancelled
<1>11. ASSUME NEW s \in Subscribers, PushPacket(s) PROVE ChannelInv'
  <2> DEFINE c == subscriber[s].ch
  <2>1. \A r \in Subscribers : subscriber'[r].ch = subscriber[r].ch
    BY <1>11 DEF PushPacket, SubscriberAt, TypeOK
  <2>2. /\ UNCHANGED <<record, closing, lastCh, consumer, wsUp>>
        /\ queue' = [queue EXCEPT ![c] = Append(@, "packet")]
    BY <1>11 DEF PushPacket, subscriberEnv
  <2>3. \A d \in Channels :
          /\ HasNil(queue'[d]) <=> HasNil(queue[d])
          /\ d # c => queue'[d] = queue[d]
    BY <1>t, <2>2, NilSent DEF TypeOK
  <2>4. c <= lastCh
    BY DEF ChannelInv
  <2> HIDE DEF c
  <2>5. \A d \in Channels : d > lastCh => queue'[d] = <<>>
    BY <1>t, <2>3, <2>4 DEF ChannelInv, c
  <2> QED BY <2>1, <2>2, <2>3, <2>5 DEF ChannelInv, Cancelled
<1> QED BY <1>1, <1>2, <1>3, <1>4, <1>5, <1>6, <1>7, <1>8, <1>9, <1>10, <1>11
        DEF Next, ConsumerStep, SubscriberStep

LEMMA ChannelInvariant == Spec => []ChannelInv
<1>1. TypeOK /\ ChannelInv /\ [Next]_vars => ChannelInv'
  <2>1. ChannelInv /\ UNCHANGED vars => ChannelInv'
    BY DEF ChannelInv, Cancelled, vars
  <2> QED BY <2>1, RtcpChannelAssumption, ChannelStep
<1>2. Init => ChannelInv
  BY RtcpChannelAssumption, ChannelInit
<1> QED BY <1>1, <1>2, ChannelTypes, PTL DEF Spec

(* The channel that a record hands out has a consumer with the record's    *)
(* own context, over any number of resets and new peer connections, and    *)
(* while a clear waits for room.                                           *)
THEOREM AlwaysConsumed == Spec => []ConsumerAlive
<1>1. TypeOK /\ ChannelInv => ConsumerAlive
  <2> SUFFICES ASSUME TypeOK, ChannelInv, closing \in {"no", "clear"},
                      record.rtcpCh # NoCh, wsUp
               PROVE  /\ consumer[record.rtcpCh] = [at |-> "running", ctx |-> record.ctx]
                      /\ \A i \in 1..Len(queue[record.rtcpCh]) :
                           queue[record.rtcpCh][i] = "packet"
    BY DEF ConsumerAlive
  <2>1. record.rtcpCh \in Channels
    BY DEF TypeOK, Channels, NoCh
  <2>2. consumer[record.rtcpCh] \in ConsumerType /\ queue[record.rtcpCh] \in Seq(Item)
    BY <2>1 DEF TypeOK, ConsumerType
  <2>3. consumer[record.rtcpCh].at = "running" /\ consumer[record.rtcpCh].ctx = record.ctx
    BY <2>1 DEF ChannelInv
  <2>4. consumer[record.rtcpCh] = [at |-> "running", ctx |-> record.ctx]
    BY <2>2, <2>3 DEF ConsumerType
  <2>5. ASSUME NEW i \in 1..Len(queue[record.rtcpCh])
        PROVE  queue[record.rtcpCh][i] = "packet"
    BY <2>1, <2>2 DEF ChannelInv, HasNil, Item
  <2> QED BY <2>4, <2>5
<1> QED BY <1>1, ChannelInvariant, ChannelTypes, PTL

(* The consumer of a channel that the record has forgotten is told to end. *)
THEOREM ConsumersTold == Spec => []NoLeakedConsumer
<1>1. ChannelInv => NoLeakedConsumer
  BY DEF ChannelInv, NoLeakedConsumer, HasNil
<1> QED BY <1>1, ChannelInvariant, PTL

=============================================================================
