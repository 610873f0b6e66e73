-------------------------- MODULE NegotiationProof --------------------------
(***************************************************************************)
(* Proofs about Negotiation for every set of roles and all bounds.         *)
(*   1. The types: one lemma for each operator on the record and the peer  *)
(*      connections, one for each way a critical section ends, the steps.  *)
(*   2. PcInv: which peer connections there are, none is leaked.           *)
(*   3. The record implements PeerConnections.                             *)
(*   4. FlagsInv: the flags say how far the negotiation is.                *)
(*   5. ServedInv: no change of the tracks and no candidate is left behind.*)
(***************************************************************************)
EXTENDS Negotiation, TLAPS

(* The two parts of TypeOK that most steps change.                         *)
RecordTypeOK ==
  /\ cr \in ConnectionRecord
  /\ conn \in [Pcs -> PeerConnection]
  /\ toClient \in Seq(ClientMessage)
  /\ wsUp \in BOOLEAN
HandlerTypeOK == handler \in [at : HandlerPoint, pc : Pcs \cup {NoPc}, msg : ServerMessage]

(* A record stays a ConnectionRecord under each operation on it.           *)
LEMMA RecordTypes ==
  ASSUME NegotiationAssumption, NEW r \in ConnectionRecord
  PROVE  /\ Emptied(r) \in ConnectionRecord
         /\ Reset(r) \in ConnectionRecord
         /\ ClearPeerConnection(r) \in ConnectionRecord
         /\ NegotiationNeeded(r) \in ConnectionRecord
         /\ Flushed(r) \in ConnectionRecord
<1>1. Emptied(r) \in ConnectionRecord
  <2>1. r.media \in BOOLEAN
    BY DEF ConnectionRecord
  <2>2. NewConnectionRecord \in ConnectionRecord
    BY DEF NewConnectionRecord, ConnectionRecord, NegotiationAssumption, NoPc, NoId
  <2>3. \A m \in BOOLEAN : [NewConnectionRecord EXCEPT !.media = m] \in ConnectionRecord
    BY <2>2 DEF ConnectionRecord
  <2> QED BY <2>1, <2>3 DEF Emptied
<1>2. NegotiationNeeded(r) \in ConnectionRecord /\ Flushed(r) \in ConnectionRecord
  BY DEF NegotiationNeeded, Flushed, ConnectionRecord
<1> QED BY <1>1, <1>2 DEF Reset, ClearPeerConnection

(* What pion does to a peer connection keeps it one.                       *)
LEMMA ConnTypes ==
  ASSUME NegotiationAssumption, NEW k \in [Pcs -> PeerConnection],
         NEW p \in Pcs
  PROVE  /\ k[p] \in PeerConnection
         /\ \A c \in PeerConnection : [k EXCEPT ![p] = c] \in [Pcs -> PeerConnection]
         /\ \A c \in PeerConnection, s \in SignalingState :
              /\ [c EXCEPT !.signaling = s, !.changed = FALSE] \in PeerConnection
              /\ [c EXCEPT !.signaling = s, !.remote = TRUE] \in PeerConnection
              /\ [c EXCEPT !.signaling = s, !.remote = TRUE, !.stables = c.stables + 1] \in PeerConnection
              /\ [c EXCEPT !.signaling = s, !.changed = FALSE, !.stables = c.stables + 1] \in PeerConnection
              /\ [c EXCEPT !.signaling = s, !.changed = FALSE, !.failed = FALSE,
                           !.destroys = c.destroys + 2] \in PeerConnection
              /\ [c EXCEPT !.failed = TRUE] \in PeerConnection
              /\ [c EXCEPT !.changed = TRUE] \in PeerConnection
              /\ [c EXCEPT !.destroys = c.destroys + 1] \in PeerConnection
              /\ c.stables > 0 => [c EXCEPT !.stables = c.stables - 1] \in PeerConnection
              /\ c.destroys > 0 => [c EXCEPT !.destroys = c.destroys - 1] \in PeerConnection
<1>1. \A c \in PeerConnection :
        /\ c.stables + 1 \in Nat /\ c.destroys + 1 \in Nat /\ c.destroys + 2 \in Nat
        /\ c.stables > 0 => c.stables - 1 \in Nat
        /\ c.destroys > 0 => c.destroys - 1 \in Nat
  BY DEF PeerConnection
<1>2. ASSUME NEW c \in PeerConnection, NEW s \in SignalingState, NEW n \in Nat
      PROVE  /\ [c EXCEPT !.signaling = s, !.changed = FALSE] \in PeerConnection
             /\ [c EXCEPT !.signaling = s, !.remote = TRUE] \in PeerConnection
             /\ [c EXCEPT !.signaling = s, !.remote = TRUE, !.stables = n] \in PeerConnection
             /\ [c EXCEPT !.signaling = s, !.changed = FALSE, !.stables = n] \in PeerConnection
             /\ [c EXCEPT !.signaling = s, !.changed = FALSE, !.failed = FALSE,
                          !.destroys = n] \in PeerConnection
             /\ [c EXCEPT !.failed = TRUE] \in PeerConnection
             /\ [c EXCEPT !.changed = TRUE] \in PeerConnection
             /\ [c EXCEPT !.destroys = n] \in PeerConnection
             /\ [c EXCEPT !.stables = n] \in PeerConnection
  BY DEF PeerConnection
<1> QED BY <1>1, <1>2

LEMMA EventTypes ==
  ASSUME NegotiationAssumption, NEW k \in [Pcs -> PeerConnection], NEW p \in Pcs
  PROVE  /\ [k EXCEPT ![p] = [@ EXCEPT !.changed = TRUE]] \in [Pcs -> PeerConnection]
         /\ [k EXCEPT ![p] = [@ EXCEPT !.destroys = k[p].destroys + 1]]
              \in [Pcs -> PeerConnection]
         /\ k[p].stables > 0 =>
              [k EXCEPT ![p] = [@ EXCEPT !.stables = k[p].stables - 1]]
                \in [Pcs -> PeerConnection]
         /\ k[p].destroys > 0 =>
              [k EXCEPT ![p] = [@ EXCEPT !.destroys = k[p].destroys - 1]]
                \in [Pcs -> PeerConnection]
<1>1. k[p] \in PeerConnection
  BY ConnTypes
<1>2. /\ k[p].destroys + 1 \in Nat
      /\ k[p].stables > 0 => k[p].stables - 1 \in Nat
      /\ k[p].destroys > 0 => k[p].destroys - 1 \in Nat
  BY <1>1 DEF PeerConnection
<1>3. ASSUME NEW n \in Nat
      PROVE  /\ [k[p] EXCEPT !.changed = TRUE] \in PeerConnection
             /\ [k[p] EXCEPT !.destroys = n] \in PeerConnection
             /\ [k[p] EXCEPT !.stables = n] \in PeerConnection
  BY <1>1 DEF PeerConnection
<1>4. \A c \in PeerConnection : [k EXCEPT ![p] = c] \in [Pcs -> PeerConnection]
  OBVIOUS
<1> QED BY <1>2, <1>3, <1>4

LEMMA CloseTypes ==
  ASSUME NegotiationAssumption, NEW k \in [Pcs -> PeerConnection],
         NEW p \in Pcs \cup {NoPc}
  PROVE  Close(k, p) \in [Pcs -> PeerConnection]
<1>1. CASE p = NoPc
  BY <1>1 DEF Close
<1>2. CASE p \in Pcs
  <2>1. /\ "closed" \in SignalingState
        /\ k[p] \in PeerConnection
    BY <1>2, ConnTypes DEF SignalingState
  <2> DEFINE c == [k[p] EXCEPT !.signaling = "closed", !.changed = FALSE,
                               !.failed = FALSE, !.destroys = k[p].destroys + 2]
  <2>2. c \in PeerConnection
    <3>1. k[p].destroys + 2 \in Nat
      BY <2>1 DEF PeerConnection
    <3> QED BY <2>1, <3>1 DEF PeerConnection
  <2>3. [k EXCEPT ![p] = c] \in [Pcs -> PeerConnection]
    BY <1>2, <2>2
  <2>4. CASE k[p].signaling = "closed"
    BY <2>4 DEF Close
  <2>5. CASE k[p].signaling # "closed"
    <3>1. Close(k, p) = [k EXCEPT ![p] = c]
      BY <1>2, <2>5 DEF Close, NoPc, Pcs
    <3> QED BY <2>3, <3>1
  <2> QED BY <2>4, <2>5
<1> QED BY <1>1, <1>2

LEMMA LeaveTypes ==
  ASSUME NegotiationAssumption, TypeOK,
         NEW r \in ConnectionRecord, NEW k \in [Pcs -> PeerConnection],
         NEW q \in Seq(ClientMessage),
         Leave(r, k, q) \/ Fail(r, k, q)
  PROVE  RecordTypeOK'
  BY DEF Leave, Fail, TypeOK, RecordTypeOK

LEMMA NegotiateTypes ==
  ASSUME NegotiationAssumption, TypeOK,
         NEW r \in ConnectionRecord, NEW k \in [Pcs -> PeerConnection],
         NEW q \in Seq(ClientMessage),
         MaybeNegotiateAndUnlock(r, k, q)
  PROVE  RecordTypeOK'
<1>1. CASE Leave(r, k, q)
  BY <1>1, LeaveTypes
<1>2. CASE Negotiate([r EXCEPT !.needsNegotiation = FALSE], k, q)
  <2> DEFINE s == [r EXCEPT !.needsNegotiation = FALSE]
             t == Negotiating(s)
  <2>1. /\ s \in ConnectionRecord /\ t \in ConnectionRecord
        /\ Queued(t) \in ConnectionRecord
    <3>1. s \in ConnectionRecord
      BY DEF ConnectionRecord
    <3> HIDE DEF s
    <3> QED BY <3>1 DEF ConnectionRecord, Negotiating, Queued
  <2>2. /\ Append(q, "offer") \in Seq(ClientMessage)
        /\ Append(q, "renegotiate") \in Seq(ClientMessage)
    BY DEF ClientMessage
  <2>3. CASE s.pc # NoPc /\ CreateOffer(s, k, q)
    <3>1. s.pc \in Pcs /\ "have-local-offer" \in SignalingState
      BY <2>1, <2>3 DEF ConnectionRecord, SignalingState
    <3>2. /\ [k EXCEPT ![s.pc] = [@ EXCEPT !.signaling = "have-local-offer",
                                           !.changed = FALSE]] \in [Pcs -> PeerConnection]
          /\ [k EXCEPT ![s.pc] = [@ EXCEPT !.failed = TRUE]] \in [Pcs -> PeerConnection]
      BY <3>1, ConnTypes
    <3> HIDE DEF s, t
    <3> QED BY <2>1, <2>2, <2>3, <3>2, LeaveTypes DEF CreateOffer, t
  <2> HIDE DEF s
  <2> QED BY <1>2, <2>1, <2>2, <2>3, LeaveTypes DEF Negotiate, s
<1> QED BY <1>1, <1>2 DEF MaybeNegotiateAndUnlock

LEMMA ReturnTypes ==
  ASSUME NegotiationAssumption, TypeOK,
         NEW r \in ConnectionRecord, NEW k \in [Pcs -> PeerConnection],
         NEW q \in Seq(ClientMessage), NEW p,
         Return(r, k, q, p)
  PROVE  RecordTypeOK' /\ HandlerTypeOK'
<1>1. Idle \in [at : HandlerPoint, pc : Pcs \cup {NoPc}, msg : ServerMessage]
  BY DEF Idle, HandlerPoint, ServerMessage, NegotiationAssumption, NoId
<1> QED BY <1>1, LeaveTypes, NegotiateTypes DEF Return, HandlerTypeOK

(* What the handler does to the record before it looks at the message.     *)
LEMMA ReboundTypes ==
  ASSUME NegotiationAssumption, TypeOK, NEW m \in ServerMessage
  PROVE  /\ Rebound(cr, m.pcid) \in ConnectionRecord
         /\ ReboundConn(m.pcid) \in [Pcs -> PeerConnection]
<1>1. m.pcid \in 0..MaxRpc /\ cr \in ConnectionRecord /\ cr.pc \in Pcs \cup {NoPc}
  BY DEF ServerMessage, TypeOK, ConnectionRecord
<1>2. [cr EXCEPT !.rpcid = m.pcid] \in ConnectionRecord
  BY <1>1 DEF ConnectionRecord
<1> QED BY <1>1, <1>2, RecordTypes, CloseTypes DEF Rebound, ReboundConn, TypeOK

LEMMA CreateTypes ==
  ASSUME NegotiationAssumption, TypeOK, NEW r \in ConnectionRecord,
         NEW k \in [Pcs -> PeerConnection], NEW i \in 0..MaxRpc, CanCreate(r)
  PROVE  /\ lastPc + 1 \in Pcs
         /\ CreatePeerConnection(r, i) \in ConnectionRecord
         /\ Created(k) \in [Pcs -> PeerConnection]
<1>1. lastPc + 1 \in Pcs
  BY DEF CanCreate, TypeOK, Pcs, NegotiationAssumption
<1>2. [r EXCEPT !.pc = lastPc + 1, !.rpcid = i, !.isNegotiating = FALSE,
                !.media = TRUE] \in ConnectionRecord
  BY <1>1 DEF ConnectionRecord
<1>3. NewPeerConnection \in PeerConnection
  BY DEF NewPeerConnection, PeerConnection, SignalingState
<1> QED BY <1>1, <1>2, <1>3, RecordTypes DEF CreatePeerConnection, Created

LEMMA ReceiveTypes ==
  ASSUME TypeOK, NEW m, Receive(m)
  PROVE  /\ toServer' \in Seq(ServerMessage)
         /\ UNCHANGED <<lifeVars, client, changes, faults>>
  BY DEF Receive, TypeOK

LEMMA MessageTypes ==
  ASSUME NegotiationAssumption, NEW i \in 0..MaxRpc,
         NEW t \in {"offer", "answer", "renegotiate", "noop", "candidate", "transceiver"},
         NEW s \in Seq(ServerMessage)
  PROVE  Append(s, Message(t, i)) \in Seq(ServerMessage)
<1>1. Message(t, i) \in ServerMessage
  BY DEF Message, ServerMessage
<1> QED BY <1>1

LEMMA GotoTypes ==
  ASSUME HandlerTypeOK, NEW at \in HandlerPoint, NEW p \in Pcs \cup {NoPc}, Goto(at, p)
  PROVE  HandlerTypeOK'
  BY DEF Goto, HandlerTypeOK

LEMMA ResetReturnTypes ==
  ASSUME NegotiationAssumption, TypeOK, ResetReturn
  PROVE  RecordTypeOK' /\ HandlerTypeOK' /\ UNCHANGED lastPc
<1>1. /\ Reset(cr) \in ConnectionRecord
      /\ Close(conn, cr.pc) \in [Pcs -> PeerConnection]
  BY RecordTypes, CloseTypes DEF TypeOK, ConnectionRecord
<1> QED BY <1>1, ReturnTypes DEF ResetReturn, TypeOK

LEMMA ReplacedTypes ==
  ASSUME NegotiationAssumption, TypeOK, Replaced
  PROVE  RecordTypeOK' /\ HandlerTypeOK' /\ UNCHANGED lastPc
<1>1. Idle \in [at : HandlerPoint, pc : Pcs \cup {NoPc}, msg : ServerMessage]
  BY DEF Idle, HandlerPoint, ServerMessage, NegotiationAssumption, NoId
<1> QED BY <1>1 DEF Replaced, recordVars, RecordTypeOK, HandlerTypeOK, TypeOK

LEMMA AnswerTypes ==
  ASSUME NegotiationAssumption, TypeOK, NEW r \in ConnectionRecord,
         CreateAnswer(r, conn, toClient)
  PROVE  RecordTypeOK'
<1> DEFINE answered == [conn EXCEPT ![r.pc] =
                          [@ EXCEPT !.signaling = "stable", !.changed = FALSE,
                                    !.stables = conn[r.pc].stables + 1]]
           asked == [r EXCEPT !.missing = IF Initiator THEN @ ELSE FALSE]
           request == IF r.missing /\ ~Initiator THEN <<"transceiver">> ELSE <<>>
<1>1. asked \in ConnectionRecord
  BY DEF ConnectionRecord
<1>2. answered \in [Pcs -> PeerConnection]
  <2>1. CASE r.pc \in Pcs
    BY <2>1, ConnTypes DEF TypeOK, SignalingState
  <2>2. CASE r.pc \notin Pcs
    BY <2>2 DEF TypeOK
  <2> QED BY <2>1, <2>2
<1>3. /\ Append(toClient, "answer") \in Seq(ClientMessage)
      /\ request \in Seq(ClientMessage)
  <2>1. /\ toClient \in Seq(ClientMessage)
        /\ "answer" \in ClientMessage /\ "transceiver" \in ClientMessage
    BY DEF TypeOK, ClientMessage
  <2>2. <<"transceiver">> \in Seq(ClientMessage) /\ <<>> \in Seq(ClientMessage)
    BY <2>1
  <2> QED BY <2>1, <2>2
<1>4. Append(toClient, "answer") \o request \in Seq(ClientMessage)
  BY <1>3
<1>5. \/ Leave(asked, answered, Append(toClient, "answer") \o request)
      \/ Fail(asked, answered, toClient)
  BY DEF CreateAnswer, AddTransceiver, RequestMissingTransceivers
<1> HIDE DEF asked, answered, request
<1>6. toClient \in Seq(ClientMessage)
  BY DEF TypeOK
<1> QED BY <1>1, <1>2, <1>4, <1>5, <1>6, LeaveTypes

(* The conjuncts of TypeOK that a step of the handler does not disturb.    *)
LEMMA RestTypes ==
  ASSUME TypeOK, RecordTypeOK', HandlerTypeOK', lastPc' \in 0..MaxPc,
         toServer' \in Seq(ServerMessage), UNCHANGED <<role, lifeVars, client, changes, faults>>
  PROVE  TypeOK'
  BY DEF TypeOK, RecordTypeOK, HandlerTypeOK, lifeVars

(* Every message is handled and every SDP worked on with the right types.  *)
LEMMA HandlerTypes ==
  ASSUME NegotiationAssumption, TypeOK, Handler, UNCHANGED role
  PROVE  TypeOK'
<1> USE DEF handlerEnv, clientVars
<1>t. /\ cr \in ConnectionRecord /\ cr.pc \in Pcs \cup {NoPc}
      /\ conn \in [Pcs -> PeerConnection]
      /\ toClient \in Seq(ClientMessage) /\ toServer \in Seq(ServerMessage)
      /\ lastPc \in 0..MaxPc /\ RecordTypeOK /\ HandlerTypeOK
      /\ handler.pc \in Pcs \cup {NoPc}
      /\ {"media", "restart", "create", "remote", "local", "finish"} \subseteq HandlerPoint
  BY DEF TypeOK, ConnectionRecord, RecordTypeOK, HandlerTypeOK, HandlerPoint
<1>n. \A i \in 0..MaxPc : i + 1 \in Pcs => i + 1 \in 0..MaxPc
  BY DEF Pcs, NegotiationAssumption
<1>1. CASE Refuse
  BY <1>1, <1>t, ReceiveTypes, RestTypes DEF Refuse, RecordTypeOK, HandlerTypeOK, recordVars
<1>2. CASE HandleRenegotiate
  <2>1. PICK m \in ServerMessage :
          LET r == Rebound(cr, m.pcid)
              k == ReboundConn(m.pcid)
          IN /\ Receive(m)
             /\ \/ Return(r, k, toClient, cr.pc) /\ UNCHANGED lastPc
                \/ Return(NegotiationNeeded(r), k, toClient, r.pc) /\ UNCHANGED lastPc
                \/ /\ CanCreate(r)
                   /\ lastPc' = lastPc + 1
                   /\ Return(CreatePeerConnection(r, m.pcid), Created(k), toClient, lastPc + 1)
                \/ Return(Reset(r), k, toClient, cr.pc) /\ UNCHANGED lastPc
    BY <1>2 DEF HandleRenegotiate
  <2> DEFINE r == Rebound(cr, m.pcid)
             k == ReboundConn(m.pcid)
  <2>2. /\ r \in ConnectionRecord /\ Reset(r) \in ConnectionRecord
        /\ NegotiationNeeded(r) \in ConnectionRecord /\ k \in [Pcs -> PeerConnection]
        /\ m.pcid \in 0..MaxRpc
    BY ReboundTypes, RecordTypes DEF ServerMessage
  <2> HIDE DEF r, k
  <2>3. CanCreate(r) => /\ lastPc + 1 \in Pcs
                        /\ CreatePeerConnection(r, m.pcid) \in ConnectionRecord
                        /\ Created(k) \in [Pcs -> PeerConnection]
    BY <2>2, CreateTypes
  <2>4. RecordTypeOK' /\ HandlerTypeOK' /\ lastPc' \in 0..MaxPc
    BY <2>1, <2>2, <2>3, <1>t, <1>n, ReturnTypes DEF r, k
  <2> QED BY <2>1, <2>4, ReceiveTypes, RestTypes
<1>3. CASE HandleCandidate
  <2>1. PICK m \in ServerMessage :
          LET r == Rebound(cr, m.pcid)
              k == ReboundConn(m.pcid)
          IN /\ Receive(m)
             /\ \/ Return(r, k, toClient, cr.pc)
                \/ Return(Reset(r), Close(k, r.pc), toClient, cr.pc)
                \/ Return([r EXCEPT !.pendingCandidates = TRUE], k, toClient, cr.pc)
             /\ UNCHANGED lastPc
    BY <1>3 DEF HandleCandidate
  <2> DEFINE r == Rebound(cr, m.pcid)
             k == ReboundConn(m.pcid)
  <2>2. /\ r \in ConnectionRecord /\ Reset(r) \in ConnectionRecord
        /\ k \in [Pcs -> PeerConnection]
    BY ReboundTypes, RecordTypes
  <2> HIDE DEF r, k
  <2>3. /\ r.pc \in Pcs \cup {NoPc}
        /\ [r EXCEPT !.pendingCandidates = TRUE] \in ConnectionRecord
    BY <2>2 DEF ConnectionRecord
  <2>4. Close(k, r.pc) \in [Pcs -> PeerConnection]
    BY <2>2, <2>3, CloseTypes
  <2>5. RecordTypeOK' /\ HandlerTypeOK'
    BY <2>1, <2>2, <2>3, <2>4, <1>t, ReturnTypes DEF r, k
  <2> QED BY <2>1, <2>5, <1>t, ReceiveTypes, RestTypes
<1>4. CASE HandleTransceiverRequest
  <2>1. PICK m \in ServerMessage :
          /\ Receive(m)
          /\ Return(Rebound(cr, m.pcid), ReboundConn(m.pcid), toClient, cr.pc)
          /\ UNCHANGED lastPc
    BY <1>4 DEF HandleTransceiverRequest
  <2>2. RecordTypeOK' /\ HandlerTypeOK'
    BY <2>1, <1>t, ReboundTypes, ReturnTypes
  <2> QED BY <2>1, <2>2, <1>t, ReceiveTypes, RestTypes
<1>5. CASE HandleSDP
  <2>1. PICK m \in ServerMessage :
          /\ Receive(m)
          /\ Leave(Rebound(cr, m.pcid), ReboundConn(m.pcid), toClient)
          /\ \E at \in {"media", "restart", "remote"} :
               handler' = [at |-> at, pc |-> cr.pc, msg |-> m]
          /\ UNCHANGED lastPc
    BY <1>5 DEF HandleSDP
  <2>2. RecordTypeOK' /\ HandlerTypeOK'
    BY <2>1, <1>t, ReboundTypes, LeaveTypes DEF HandlerTypeOK, HandlerPoint
  <2> QED BY <2>1, <2>2, <1>t, ReceiveTypes, RestTypes
<1>6. CASE UpdateMedia
  <2>1. [cr EXCEPT !.media = TRUE] \in ConnectionRecord
    BY <1>t DEF ConnectionRecord
  <2>2. RecordTypeOK' /\ HandlerTypeOK' /\ UNCHANGED lastPc
    BY <1>6, <1>t, <2>1, ResetReturnTypes, ReplacedTypes, LeaveTypes, GotoTypes
       DEF UpdateMedia
  <2> QED BY <1>6, <1>t, <2>2, RestTypes DEF UpdateMedia
<1>7. CASE RequestRestart
  <2>1. RecordTypeOK' /\ HandlerTypeOK'
    BY <1>7, <1>t, RecordTypes, LeaveTypes, GotoTypes DEF RequestRestart
  <2> QED BY <1>7, <1>t, <2>1, RestTypes DEF RequestRestart
<1>8. CASE CreateForSDP
  <2>1. 0 \in 0..MaxRpc
    BY DEF NegotiationAssumption
  <2>2. CanCreate(cr) => /\ lastPc + 1 \in Pcs
                         /\ CreatePeerConnection(cr, NoId) \in ConnectionRecord
                         /\ Created(conn) \in [Pcs -> PeerConnection]
    BY <1>t, <2>1, CreateTypes DEF NoId
  <2>3. RecordTypeOK' /\ HandlerTypeOK' /\ lastPc' \in 0..MaxPc
    BY <1>8, <1>t, <1>n, <2>2, ResetReturnTypes, ReplacedTypes, LeaveTypes, GotoTypes
       DEF CreateForSDP
  <2> QED BY <1>8, <1>t, <2>3, RestTypes DEF CreateForSDP
<1>9. CASE SetRemoteDescription
  <2>1. RecordTypeOK' /\ HandlerTypeOK' /\ UNCHANGED lastPc
    <3>1. CASE ResetReturn
      BY <3>1, ResetReturnTypes
    <3>2. CASE handler.pc \in Pcs /\ ~ResetReturn
      <4>1. /\ [conn EXCEPT ![handler.pc] =
                   [@ EXCEPT !.signaling = "have-remote-offer", !.remote = TRUE]]
                 \in [Pcs -> PeerConnection]
            /\ [conn EXCEPT ![handler.pc] =
                   [@ EXCEPT !.signaling = "stable", !.remote = TRUE,
                             !.stables = conn[handler.pc].stables + 1]]
                 \in [Pcs -> PeerConnection]
        BY <1>t, <3>2, ConnTypes DEF SignalingState
      <4> QED BY <1>9, <1>t, <3>2, <4>1, LeaveTypes, GotoTypes DEF SetRemoteDescription
    <3>3. CASE handler.pc = NoPc /\ ~ResetReturn
      <4>1. \A c : [conn EXCEPT ![handler.pc] = c] = conn
        BY <1>t, <3>3 DEF Pcs, NoPc
      <4> QED BY <1>9, <1>t, <3>3, <4>1, LeaveTypes, GotoTypes DEF SetRemoteDescription
    <3> QED BY <1>t, <3>1, <3>2, <3>3
  <2> QED BY <1>9, <1>t, <2>1, RestTypes DEF SetRemoteDescription
<1>10. CASE ApplyRemoteDescription
  <2> DEFINE r == Flushed(cr)
             added == NegotiationNeeded([r EXCEPT !.pending = FALSE])
  <2>1. r \in ConnectionRecord
    BY <1>t, RecordTypes
  <2>2. [r EXCEPT !.pending = FALSE] \in ConnectionRecord
    BY <2>1 DEF ConnectionRecord
  <2>3. added \in ConnectionRecord
    BY <2>2, RecordTypes
  <2>4. r.pc = cr.pc /\ added.pc = cr.pc
    BY <1>t DEF Flushed, NegotiationNeeded, ConnectionRecord
  <2>5. RecordTypeOK' /\ HandlerTypeOK' /\ UNCHANGED lastPc
    <3>1. ResetReturn \/ Replaced => RecordTypeOK' /\ HandlerTypeOK' /\ UNCHANGED lastPc
      BY ResetReturnTypes, ReplacedTypes
    <3>2. CASE ~(ResetReturn \/ Replaced)
      <4>1. handler.pc = cr.pc /\ Goto("finish", handler.pc) /\ UNCHANGED lastPc
        BY <1>10, <3>2 DEF ApplyRemoteDescription
      <4>2. Leave(r, conn, toClient) \/ CreateAnswer(r, conn, toClient)
              \/ CreateAnswer(added, conn, toClient)
        BY <1>10, <3>2 DEF ApplyRemoteDescription
      <4>3. RecordTypeOK'
        BY <1>t, <2>1, <2>3, <2>4, <4>2, LeaveTypes, AnswerTypes
      <4> QED BY <1>t, <4>1, <4>3, GotoTypes
    <3> QED BY <3>1, <3>2
  <2> QED BY <1>10, <1>t, <2>5, RestTypes DEF ApplyRemoteDescription
<1>11. CASE Finish
  <2>1. RecordTypeOK' /\ HandlerTypeOK'
    BY <1>11, <1>t, ReturnTypes DEF Finish
  <2> QED BY <1>11, <1>t, <2>1, RestTypes DEF Finish
<1> QED BY <1>1, <1>2, <1>3, <1>4, <1>5, <1>6, <1>7, <1>8, <1>9, <1>10, <1>11 DEF Handler

LEMMA FaultTypes ==
  ASSUME NegotiationAssumption, TypeOK, RecordTypeOK', Fault, UNCHANGED role
  PROVE  TypeOK'
  BY DEF Fault, TypeOK, RecordTypeOK, otherEnv, clientVars, lifeVars, NegotiationAssumption

(* The same for the other goroutines, the events and the remote.           *)
LEMMA OtherTypes ==
  ASSUME NegotiationAssumption, TypeOK, UNCHANGED role,
         \/ Remote \/ ClientExtra \/ ClientRestart
         \/ \E p \in Pcs : \/ OnStable(p) \/ Destroy(p) \/ ConnectionFails(p)
                           \/ WatcherTimeout(p) \/ DataChannelClose(p)
         \/ Resurrect \/ TrackChange \/ WriteFails \/ UserCloses \/ CloseReset \/ Stop
  PROVE  TypeOK'
<1> USE DEF handlerEnv, otherEnv, clientVars, lifeVars, recordVars
<1>t. /\ cr \in ConnectionRecord /\ cr.pc \in Pcs \cup {NoPc}
      /\ conn \in [Pcs -> PeerConnection]
      /\ toClient \in Seq(ClientMessage) /\ toServer \in Seq(ServerMessage)
      /\ lastPc \in 0..MaxPc /\ RecordTypeOK /\ HandlerTypeOK
      /\ client.pcid \in 1..MaxRpc /\ 1..MaxRpc \subseteq 0..MaxRpc
      /\ Reset(cr) \in ConnectionRecord /\ NegotiationNeeded(cr) \in ConnectionRecord
      /\ \A p \in Pcs : Close(conn, p) \in [Pcs -> PeerConnection]
      /\ Close(conn, cr.pc) \in [Pcs -> PeerConnection]
  <2>1. cr \in ConnectionRecord /\ cr.pc \in Pcs \cup {NoPc}
    BY DEF TypeOK, ConnectionRecord
  <2>2. conn \in [Pcs -> PeerConnection]
    BY DEF TypeOK
  <2>3. 1..MaxRpc \subseteq 0..MaxRpc
    BY DEF NegotiationAssumption
  <2> QED BY <2>1, <2>2, <2>3, RecordTypes, CloseTypes DEF TypeOK, RecordTypeOK, HandlerTypeOK
<1>1. CASE ClientReceive
  <2>1. /\ toClient' \in Seq(ClientMessage)
        /\ toServer' \in Seq(ServerMessage)
    BY <1>1, <1>t, MessageTypes DEF ClientReceive
  <2>2. client' \in [pcid : 1..MaxRpc, owes : BOOLEAN, awaits : BOOLEAN, extra : BOOLEAN]
    BY <1>1 DEF ClientReceive, TypeOK
  <2> QED BY <1>1, <2>1, <2>2 DEF ClientReceive, clientEnv, TypeOK
<1>2. CASE ClientOffer
  <2>1. toServer' \in Seq(ServerMessage)
    BY <1>2, <1>t, MessageTypes DEF ClientOffer
  <2>2. client' \in [pcid : 1..MaxRpc, owes : BOOLEAN, awaits : BOOLEAN, extra : BOOLEAN]
    BY <1>2 DEF ClientOffer, TypeOK
  <2> QED BY <1>2, <2>1, <2>2 DEF ClientOffer, clientEnv, TypeOK
<1>3. CASE ClientExtra
  <2>1. toServer' \in Seq(ServerMessage)
    BY <1>3, <1>t, MessageTypes DEF ClientExtra
  <2>2. client' \in [pcid : 1..MaxRpc, owes : BOOLEAN, awaits : BOOLEAN, extra : BOOLEAN]
    BY <1>3 DEF ClientExtra, TypeOK
  <2> QED BY <1>3, <2>1, <2>2 DEF ClientExtra, clientEnv, TypeOK
<1>4. CASE ClientRestart
  <2>1. client.pcid + 1 \in 1..MaxRpc /\ NoId \in 0..MaxRpc
    BY <1>4, <1>t DEF ClientRestart, NegotiationAssumption, NoId
  <2>2. toServer' \in Seq(ServerMessage)
    BY <1>4, <1>t, <2>1, MessageTypes DEF ClientRestart
  <2>3. client' \in [pcid : 1..MaxRpc, owes : BOOLEAN, awaits : BOOLEAN, extra : BOOLEAN]
    BY <1>4, <2>1 DEF ClientRestart, TypeOK
  <2> QED BY <1>4, <2>2, <2>3 DEF ClientRestart, clientEnv, TypeOK
<1>5. ASSUME NEW p \in Pcs, OnStable(p) PROVE TypeOK'
  <2> DEFINE run == [conn EXCEPT ![p] = [@ EXCEPT !.stables = conn[p].stables - 1]]
             done == [cr EXCEPT !.isNegotiating = FALSE, !.queuedNegotiation = FALSE,
                         !.needsNegotiation = IF cr.queuedNegotiation THEN TRUE ELSE @]
  <2>1. run \in [Pcs -> PeerConnection]
    BY <1>5, <1>t, EventTypes DEF OnStable
  <2>2. done \in ConnectionRecord
    <3>1. (IF cr.queuedNegotiation THEN TRUE ELSE cr.needsNegotiation) \in BOOLEAN
      BY <1>t DEF ConnectionRecord
    <3>2. \A b \in BOOLEAN :
            [cr EXCEPT !.isNegotiating = FALSE, !.queuedNegotiation = FALSE,
                       !.needsNegotiation = b] \in ConnectionRecord
      BY <1>t DEF ConnectionRecord
    <3> QED BY <3>1, <3>2
  <2>3. \/ Leave(cr, run, toClient)
        \/ MaybeNegotiateAndUnlock(IF cr.isNegotiating THEN done ELSE cr, run, toClient)
    BY <1>5 DEF OnStable
  <2> HIDE DEF run, done
  <2>4. RecordTypeOK'
    BY <2>1, <2>2, <2>3, <1>t, LeaveTypes, NegotiateTypes
  <2> QED BY <1>5, <2>4 DEF OnStable, TypeOK, RecordTypeOK
<1>6. ASSUME NEW p \in Pcs, Destroy(p) PROVE TypeOK'
  <2> DEFINE run == [conn EXCEPT ![p] = [@ EXCEPT !.destroys = conn[p].destroys - 1]]
  <2>1. run \in [Pcs -> PeerConnection]
    BY <1>6, <1>t, EventTypes DEF Destroy
  <2>2. Leave(cr, run, toClient) \/ Leave(Reset(cr), Close(run, cr.pc), toClient)
    BY <1>6 DEF Destroy
  <2> HIDE DEF run
  <2>3. RecordTypeOK'
    BY <2>1, <2>2, <1>t, CloseTypes, LeaveTypes
  <2>4. removed' \in BOOLEAN /\ killer' \in BOOLEAN /\ closed' \in BOOLEAN
    BY <1>6 DEF Destroy, TypeOK
  <2> QED BY <1>6, <2>3, <2>4 DEF Destroy, TypeOK, RecordTypeOK
<1>7. ASSUME NEW p \in Pcs, ConnectionFails(p) \/ WatcherTimeout(p) \/ DataChannelClose(p)
      PROVE  TypeOK'
  <2>1. [conn EXCEPT ![p] = [@ EXCEPT !.destroys = conn[p].destroys + 1]]
          \in [Pcs -> PeerConnection]
    BY <1>t, EventTypes
  <2>2. RecordTypeOK' /\ Fault
    BY <1>7, <1>t, <2>1, LeaveTypes DEF ConnectionFails, WatcherTimeout, DataChannelClose
  <2> QED BY <2>2, FaultTypes
<1>8. CASE Resurrect
  <2>1. CanCreate(cr) => /\ lastPc + 1 \in 0..MaxPc
                         /\ CreatePeerConnection(cr, NoId) \in ConnectionRecord
                         /\ Created(conn) \in [Pcs -> PeerConnection]
    <3>1. 0 \in 0..MaxRpc /\ Pcs \subseteq 0..MaxPc
      BY DEF NegotiationAssumption, Pcs
    <3> QED BY <1>t, <3>1, CreateTypes DEF NoId
  <2>2. RecordTypeOK' /\ lastPc' \in 0..MaxPc
    BY <1>8, <1>t, <2>1, NegotiateTypes DEF Resurrect
  <2> QED BY <1>8, <2>2 DEF Resurrect, TypeOK, RecordTypeOK
<1>9. CASE TrackChange
  <2> DEFINE changed == [conn EXCEPT ![cr.pc] = [@ EXCEPT !.changed = TRUE]]
             needed == NegotiationNeeded(cr)
             lacking == [needed EXCEPT !.missing = IF Initiator THEN @ ELSE TRUE]
             waiting == [needed EXCEPT !.pending = TRUE]
             failing == [cr EXCEPT !.pending = TRUE]
  <2>1. changed \in [Pcs -> PeerConnection]
    <3>1. CASE cr.pc \in Pcs
      BY <1>t, <3>1, EventTypes
    <3>2. CASE cr.pc \notin Pcs
      BY <1>t, <3>2
    <3> QED BY <3>1, <3>2
  <2>2. /\ lacking \in ConnectionRecord /\ waiting \in ConnectionRecord
        /\ failing \in ConnectionRecord
    <3>1. needed \in ConnectionRecord
      BY <1>t
    <3> HIDE DEF needed
    <3> QED BY <1>t, <3>1 DEF ConnectionRecord
  <2>3. Append(toClient, "transceiver") \in Seq(ClientMessage)
    BY <1>t DEF ClientMessage
  <2>4. \/ MaybeNegotiateAndUnlock(cr, conn, toClient)
        \/ MaybeNegotiateAndUnlock(lacking, changed, toClient)
        \/ MaybeNegotiateAndUnlock(waiting, conn, Append(toClient, "transceiver"))
        \/ Fail(failing, conn, toClient)
    BY <1>9 DEF TrackChange
  <2> HIDE DEF changed, lacking, waiting, failing
  <2>5. RecordTypeOK'
    BY <1>t, <2>1, <2>2, <2>3, <2>4, LeaveTypes, NegotiateTypes
  <2>6. changes' \in 0..MaxChanges
    BY <1>9 DEF TrackChange, TypeOK, NegotiationAssumption
  <2> QED BY <1>9, <2>5, <2>6 DEF TrackChange, TypeOK, RecordTypeOK
<1>10. CASE WriteFails
  BY <1>10, <1>t, LeaveTypes, FaultTypes DEF WriteFails
<1>11. CASE UserCloses
  BY <1>11 DEF UserCloses, TypeOK
<1>12. CASE CloseReset
  <2>1. RecordTypeOK'
    BY <1>12, <1>t, LeaveTypes DEF CloseReset
  <2> QED BY <1>12, <2>1 DEF CloseReset, TypeOK, RecordTypeOK
<1>13. CASE Stop
  BY <1>13 DEF Stop, TypeOK
<1> QED BY <1>1, <1>2, <1>3, <1>4, <1>5, <1>6, <1>7, <1>8, <1>9, <1>10, <1>11, <1>12, <1>13
        DEF Remote

LEMMA InitTypes ==
  ASSUME NegotiationAssumption, Init PROVE TypeOK
<1>1. \A b \in BOOLEAN : [NewConnectionRecord EXCEPT !.isNegotiating = b] \in ConnectionRecord
  <2>1. NewConnectionRecord \in ConnectionRecord
    BY DEF NewConnectionRecord, ConnectionRecord, NegotiationAssumption, NoPc, NoId
  <2> QED BY <2>1 DEF ConnectionRecord
<1>2. Pipeline \in BOOLEAN /\ Initiator \in BOOLEAN
  BY DEF Init, NegotiationAssumption, Pipeline, Initiator
<1>3. cr \in ConnectionRecord
  BY <1>1, <1>2 DEF Init
<1>4. [NewPeerConnection EXCEPT !.signaling = "new"] \in PeerConnection
  BY DEF NewPeerConnection, PeerConnection, SignalingState
<1>5. conn \in [Pcs -> PeerConnection]
  BY <1>4 DEF Init
<1>6. Idle \in [at : HandlerPoint, pc : Pcs \cup {NoPc}, msg : ServerMessage]
  BY DEF Idle, HandlerPoint, ServerMessage, NegotiationAssumption, NoId
<1>7. toClient \in Seq(ClientMessage)
  <2>1. "renegotiate" \in ClientMessage
    BY DEF ClientMessage
  <2>2. <<"renegotiate">> \in Seq(ClientMessage) /\ <<>> \in Seq(ClientMessage)
    BY <2>1
  <2> QED BY <2>2 DEF Init
<1>8. Message("renegotiate", 1) \in ServerMessage
  BY DEF Message, ServerMessage, NegotiationAssumption
<1>9. toServer \in Seq(ServerMessage)
  BY <1>8 DEF Init
<1>10. client \in [pcid : 1..MaxRpc, owes : BOOLEAN, awaits : BOOLEAN, extra : BOOLEAN]
  BY <1>2 DEF Init, NegotiationAssumption
<1>11. lastPc \in 0..MaxPc /\ changes \in 0..MaxChanges /\ faults \in 0..MaxFaults
  BY DEF Init, NegotiationAssumption
<1>12. /\ role \in Roles /\ removed \in BOOLEAN /\ killer \in BOOLEAN
       /\ closed \in BOOLEAN /\ wsUp \in BOOLEAN /\ handler = Idle
  BY DEF Init
<1> QED BY <1>3, <1>5, <1>6, <1>7, <1>9, <1>10, <1>11, <1>12 DEF TypeOK

LEMMA StepTypes ==
  ASSUME NegotiationAssumption, TypeOK, [Next]_vars PROVE TypeOK'
<1>1. CASE Next
  BY <1>1, HandlerTypes, OtherTypes DEF Next
<1>2. CASE UNCHANGED vars
  BY <1>2 DEF vars, recordVars, lifeVars, clientVars, TypeOK
<1> QED BY <1>1, <1>2

(* In every reachable state each variable has its type: with TLC's runs,   *)
(* that the numbers of callbacks and the bounds are kept.                  *)
THEOREM TypeCorrect == Spec => []TypeOK
<1>1. Init => TypeOK
  BY NegotiationAssumption, InitTypes
<1>2. TypeOK /\ [Next]_vars => TypeOK'
  BY NegotiationAssumption, StepTypes
<1> QED BY <1>1, <1>2, PTL DEF Spec

-----------------------------------------------------------------------------
(* No peer connection is leaked.  The invariant says in addition which     *)
(* ones exist, and that the handler creates one only for a record without. *)

Open(k, p) == k[p].signaling \notin {"new", "closed"}

PcOK(r, k, l) ==
  /\ r.pc \in {NoPc} \cup 1..l
  /\ \A p \in Pcs : k[p].signaling = "new" <=> p > l
  /\ \A p \in Pcs : Open(k, p) => p = r.pc

PcInv ==
  /\ PcOK(cr, conn, lastPc)
  /\ handler.at \in {"restart", "create"} => handler.pc = NoPc

(* j has no peer connection and no open one that k has not.                *)
Same(k, j) ==
  \A p \in Pcs : /\ j[p].signaling = "new" <=> k[p].signaling = "new"
                 /\ Open(j, p) => Open(k, p)

LEMMA PcSame ==
  ASSUME NEW r, NEW s, NEW k, NEW j, NEW l, PcOK(r, k, l), s.pc = r.pc, Same(k, j)
  PROVE  PcOK(s, j, l)
  BY DEF PcOK, Same

LEMMA RecordPc ==
  ASSUME NEW r \in ConnectionRecord
  PROVE  Reset(r).pc = NoPc /\ NegotiationNeeded(r).pc = r.pc /\ Flushed(r).pc = r.pc
  BY DEF Reset, Emptied, NewConnectionRecord, NegotiationNeeded, Flushed, ConnectionRecord

LEMMA CloseSame ==
  ASSUME NEW k \in [Pcs -> PeerConnection], NEW p \in Pcs \cup {NoPc},
         p \in Pcs => k[p].signaling # "new"
  PROVE  /\ Same(k, Close(k, p))
         /\ p \in Pcs => Close(k, p)[p].signaling = "closed"
  BY DEF Close, Same, Open, PeerConnection, Pcs, NoPc

(* Closing the record's peer connection and resetting the record.          *)
LEMMA PcReset ==
  ASSUME NegotiationAssumption, NEW r \in ConnectionRecord, NEW s \in ConnectionRecord,
         NEW k \in [Pcs -> PeerConnection],
         NEW l \in Nat, PcOK(r, k, l), s.pc = NoPc
  PROVE  PcOK(s, Close(k, r.pc), l)
<1>1. r.pc \in Pcs \cup {NoPc} /\ (r.pc \in Pcs => k[r.pc].signaling # "new")
  <2>1. r.pc \in Pcs \cup {NoPc}
    BY DEF ConnectionRecord
  <2>2. r.pc \in Pcs => ~(r.pc > l)
    BY DEF PcOK, Pcs, NoPc, NegotiationAssumption
  <2> QED BY <2>1, <2>2 DEF PcOK
<1>2. /\ Same(k, Close(k, r.pc))
      /\ r.pc \in Pcs => Close(k, r.pc)[r.pc].signaling = "closed"
  BY <1>1, CloseSame
<1> QED BY <1>1, <1>2 DEF PcOK, Same, Open, NoPc

LEMMA PcNegotiate ==
  ASSUME NegotiationAssumption, NEW r \in ConnectionRecord,
         NEW k \in [Pcs -> PeerConnection], NEW q, MaybeNegotiateAndUnlock(r, k, q)
  PROVE  cr'.pc = r.pc /\ Same(k, conn')
<1>1. CASE Leave(r, k, q)
  BY <1>1 DEF Leave, Same
<1>2. CASE Negotiate([r EXCEPT !.needsNegotiation = FALSE], k, q)
  <2> DEFINE s == [r EXCEPT !.needsNegotiation = FALSE]
             t == Negotiating(s)
  <2>1. s.pc = r.pc /\ t.pc = r.pc /\ Queued(t).pc = r.pc
    BY DEF ConnectionRecord, Negotiating, Queued
  <2>2. CASE s.pc # NoPc /\ CreateOffer(s, k, q)
    <3>1. s.pc \in Pcs
      BY <2>1, <2>2 DEF ConnectionRecord
    <3>2. k[s.pc].signaling = "stable" =>
            Same(k, [k EXCEPT ![s.pc] = [@ EXCEPT !.signaling = "have-local-offer",
                                                  !.changed = FALSE]])
      BY <3>1 DEF Same, Open, PeerConnection
    <3>3. Same(k, [k EXCEPT ![s.pc] = [@ EXCEPT !.failed = TRUE]])
      BY <3>1 DEF Same, Open, PeerConnection
    <3> HIDE DEF s
    <3> QED BY <2>1, <2>2, <3>2, <3>3 DEF CreateOffer, Leave, Fail
  <2>3. Same(k, k)
    BY DEF Same
  <2> HIDE DEF s
  <2> QED BY <1>2, <2>1, <2>2, <2>3 DEF Negotiate, Leave, Fail, s
<1> QED BY <1>1, <1>2 DEF MaybeNegotiateAndUnlock

LEMMA PcReturn ==
  ASSUME NegotiationAssumption, NEW r \in ConnectionRecord,
         NEW k \in [Pcs -> PeerConnection], NEW q, NEW p, NEW l, PcOK(r, k, l),
         Return(r, k, q, p) \/ Leave(r, k, q) \/ Fail(r, k, q)
           \/ MaybeNegotiateAndUnlock(r, k, q)
  PROVE  PcOK(cr', conn', l)
<1>1. CASE MaybeNegotiateAndUnlock(r, k, q)
  BY <1>1, PcNegotiate, PcSame
<1> QED BY <1>1 DEF Return, Leave, Fail

LEMMA PcRebound ==
  ASSUME NegotiationAssumption, TypeOK, PcInv, NEW i
  PROVE  PcOK(Rebound(cr, i), ReboundConn(i), lastPc)
<1>1. /\ cr \in ConnectionRecord /\ conn \in [Pcs -> PeerConnection]
      /\ lastPc \in Nat /\ PcOK(cr, conn, lastPc)
  BY DEF TypeOK, PcInv, NegotiationAssumption
<1>2. [cr EXCEPT !.rpcid = i].pc = cr.pc
  BY <1>1 DEF ConnectionRecord
<1>3. cr.pc = NoPc => Close(conn, cr.pc) = conn
  BY DEF Close
<1>4. PcOK(Emptied(cr), Close(conn, cr.pc), lastPc)
  BY <1>1, RecordTypes, RecordPc, PcReset DEF Reset
<1> QED BY <1>1, <1>2, <1>3, <1>4 DEF Rebound, ReboundConn, ClearPeerConnection, PcOK

LEMMA PcCreate ==
  ASSUME NegotiationAssumption, TypeOK, NEW r \in ConnectionRecord,
         NEW k \in [Pcs -> PeerConnection], NEW i, PcOK(r, k, lastPc),
         r.pc = NoPc, CanCreate(r)
  PROVE  PcOK(CreatePeerConnection(r, i), Created(k), lastPc + 1)
<1>1. lastPc + 1 \in Pcs /\ lastPc \in Nat
  BY DEF CanCreate, TypeOK, Pcs, NegotiationAssumption
<1>2. CreatePeerConnection(r, i).pc = lastPc + 1
  BY DEF CreatePeerConnection, NegotiationNeeded, ConnectionRecord
<1>3. \A p \in Pcs : Created(k)[p] = IF p = lastPc + 1 THEN NewPeerConnection ELSE k[p]
  BY <1>1 DEF Created
<1>4. \A p \in Pcs : p \in Nat /\ p # NoPc
  BY DEF Pcs, NegotiationAssumption, NoPc
<1> QED BY <1>1, <1>2, <1>3, <1>4 DEF PcOK, Open, NewPeerConnection

LEMMA PcAnswer ==
  ASSUME NegotiationAssumption, TypeOK, PcInv, NEW r \in ConnectionRecord,
         r.pc = cr.pc, conn[cr.pc].signaling = "have-remote-offer",
         CreateAnswer(r, conn, toClient)
  PROVE  PcOK(cr', conn', lastPc)
<1> DEFINE answered == [conn EXCEPT ![r.pc] =
                          [@ EXCEPT !.signaling = "stable", !.changed = FALSE,
                                    !.stables = conn[r.pc].stables + 1]]
           asked == [r EXCEPT !.missing = IF Initiator THEN @ ELSE FALSE]
<1>1. asked.pc = cr.pc
  BY DEF ConnectionRecord
<1>2. cr' = asked /\ conn' = answered
  BY DEF CreateAnswer, AddTransceiver, RequestMissingTransceivers, Leave, Fail
<1>3. Same(conn, answered)
  BY DEF Same, Open, TypeOK, PeerConnection
<1> HIDE DEF asked, answered
<1> QED BY <1>1, <1>2, <1>3, PcSame DEF PcInv

LEMMA PcHandler ==
  ASSUME NegotiationAssumption, TypeOK, PcInv, Handler
  PROVE  PcInv'
<1>t. /\ cr \in ConnectionRecord /\ cr.pc \in Pcs \cup {NoPc}
      /\ conn \in [Pcs -> PeerConnection] /\ lastPc \in Nat
      /\ handler.pc \in Pcs \cup {NoPc} /\ PcOK(cr, conn, lastPc)
      /\ Reset(cr) \in ConnectionRecord
  BY RecordTypes DEF TypeOK, ConnectionRecord, NegotiationAssumption, PcInv
<1>i. Idle.at \notin {"restart", "create"}
  BY DEF Idle
<1>r. ResetReturn => PcInv'
  <2>1. PcOK(Reset(cr), Close(conn, cr.pc), lastPc)
    BY <1>t, RecordPc, PcReset
  <2>2. Close(conn, cr.pc) \in [Pcs -> PeerConnection]
    BY <1>t, CloseTypes
  <2> QED BY <1>t, <1>i, <2>1, <2>2, PcReturn DEF ResetReturn, Return, PcInv
<1>p. Replaced => PcInv'
  BY <1>t, <1>i DEF Replaced, recordVars, PcInv
<1>1. CASE Refuse
  BY <1>1 DEF Refuse, recordVars, PcInv
<1>2. CASE \/ HandleRenegotiate \/ HandleCandidate \/ HandleTransceiverRequest \/ HandleSDP
  <2>1. PICK m \in ServerMessage :
          LET r == Rebound(cr, m.pcid)
              k == ReboundConn(m.pcid)
          IN \/ /\ \/ \E p : Return(r, k, toClient, p)
                   \/ Return(NegotiationNeeded(r), k, toClient, r.pc)
                   \/ r.pc = NoPc /\ Return(Reset(r), k, toClient, cr.pc)
                   \/ Return(Reset(r), Close(k, r.pc), toClient, cr.pc)
                   \/ Return([r EXCEPT !.pendingCandidates = TRUE], k, toClient, cr.pc)
                /\ UNCHANGED lastPc
             \/ /\ CanCreate(r) /\ r.pc = NoPc
                /\ lastPc' = lastPc + 1
                /\ Return(CreatePeerConnection(r, m.pcid), Created(k), toClient, lastPc + 1)
             \/ /\ Leave(r, k, toClient)
                /\ handler' = [at |-> IF ~Initiator THEN "media"
                                      ELSE IF cr.pc = NoPc THEN "restart" ELSE "remote",
                               pc |-> cr.pc, msg |-> m]
                /\ UNCHANGED lastPc
    BY <1>2 DEF HandleRenegotiate, HandleCandidate, HandleTransceiverRequest, HandleSDP
  <2> DEFINE r == Rebound(cr, m.pcid)
             k == ReboundConn(m.pcid)
  <2>2. /\ r \in ConnectionRecord /\ k \in [Pcs -> PeerConnection] /\ PcOK(r, k, lastPc)
        /\ m.pcid \in 0..MaxRpc
    BY ReboundTypes, PcRebound DEF ServerMessage
  <2> HIDE DEF r, k
  <2>3. /\ NegotiationNeeded(r) \in ConnectionRecord /\ Reset(r) \in ConnectionRecord
        /\ [r EXCEPT !.pendingCandidates = TRUE] \in ConnectionRecord
        /\ r.pc \in Pcs \cup {NoPc}
        /\ NegotiationNeeded(r).pc = r.pc /\ Reset(r).pc = NoPc
        /\ [r EXCEPT !.pendingCandidates = TRUE].pc = r.pc
    BY <2>2, RecordTypes, RecordPc DEF ConnectionRecord
  <2>4. /\ Close(k, r.pc) \in [Pcs -> PeerConnection]
        /\ PcOK(Reset(r), Close(k, r.pc), lastPc)
        /\ PcOK(NegotiationNeeded(r), k, lastPc)
        /\ PcOK([r EXCEPT !.pendingCandidates = TRUE], k, lastPc)
    BY <2>2, <2>3, <1>t, CloseTypes, PcReset DEF PcOK
  <2>5. r.pc = NoPc => Close(k, r.pc) = k
    BY DEF Close
  <2>6. CanCreate(r) /\ r.pc = NoPc =>
          /\ CreatePeerConnection(r, m.pcid) \in ConnectionRecord
          /\ Created(k) \in [Pcs -> PeerConnection]
          /\ PcOK(CreatePeerConnection(r, m.pcid), Created(k), lastPc + 1)
    BY <2>2, CreateTypes, PcCreate
  <2>7. PcOK(cr', conn', lastPc')
    <3>1. CASE \E p : Return(r, k, toClient, p) /\ UNCHANGED lastPc
      BY <3>1, <2>2, PcReturn
    <3>2. CASE Return(NegotiationNeeded(r), k, toClient, r.pc) /\ UNCHANGED lastPc
      BY <3>2, <2>2, <2>3, <2>4, PcReturn
    <3>3. CASE Return(Reset(r), Close(k, r.pc), toClient, cr.pc) /\ UNCHANGED lastPc
      BY <3>3, <2>3, <2>4, PcReturn
    <3>4. CASE Return([r EXCEPT !.pendingCandidates = TRUE], k, toClient, cr.pc)
                 /\ UNCHANGED lastPc
      BY <3>4, <2>2, <2>3, <2>4, PcReturn
    <3>5. CASE /\ CanCreate(r) /\ r.pc = NoPc /\ lastPc' = lastPc + 1
               /\ Return(CreatePeerConnection(r, m.pcid), Created(k), toClient, lastPc + 1)
      BY <3>5, <2>6, PcReturn
    <3>6. CASE Leave(r, k, toClient) /\ UNCHANGED lastPc
      BY <3>6, <2>2, PcReturn
    <3> QED BY <2>1, <2>5, <3>1, <3>2, <3>3, <3>4, <3>5, <3>6 DEF r, k
  <2>8. handler'.at \in {"restart", "create"} => handler'.pc = NoPc
    BY <2>1, <1>i DEF Return
  <2> QED BY <2>7, <2>8 DEF PcInv
<1>6. CASE UpdateMedia
  <2>1. [cr EXCEPT !.media = TRUE] \in ConnectionRecord /\ [cr EXCEPT !.media = TRUE].pc = cr.pc
    BY <1>t DEF ConnectionRecord
  <2>2. CASE /\ Leave([cr EXCEPT !.media = TRUE], conn, toClient)
             /\ Goto(IF handler.pc = NoPc THEN "create" ELSE "remote", handler.pc)
             /\ UNCHANGED lastPc
    <3>1. PcOK(cr', conn', lastPc)
      BY <1>t, <2>1, <2>2 DEF Leave, PcOK
    <3>2. handler'.at \in {"restart", "create"} => handler'.pc = NoPc
      BY <2>2, <1>t DEF Goto, TypeOK
    <3> QED BY <2>2, <3>1, <3>2 DEF PcInv
  <2> QED BY <1>6, <1>r, <1>p, <2>2 DEF UpdateMedia
<1>7. CASE RequestRestart
  <2>1. PcOK(cr', conn', lastPc)
    BY <1>7, <1>t, RecordPc DEF RequestRestart, Leave, PcOK
  <2>2. handler'.pc = NoPc
    BY <1>7 DEF RequestRestart, Goto, PcInv, TypeOK
  <2> QED BY <1>7, <2>1, <2>2 DEF RequestRestart, PcInv
<1>8. CASE CreateForSDP
  <2>1. CASE /\ cr.pc = handler.pc
             /\ CanCreate(cr)
             /\ lastPc' = lastPc + 1
             /\ Leave(CreatePeerConnection(cr, NoId), Created(conn), toClient)
             /\ Goto(IF Initiator THEN "finish" ELSE "remote", lastPc + 1)
    <3>1. cr.pc = NoPc
      BY <1>8, <2>1 DEF CreateForSDP, PcInv
    <3>2. PcOK(CreatePeerConnection(cr, NoId), Created(conn), lastPc + 1)
      BY <1>t, <2>1, <3>1, PcCreate
    <3>3. handler'.at \notin {"restart", "create"}
      BY <2>1 DEF Goto, TypeOK
    <3> QED BY <2>1, <3>2, <3>3 DEF Leave, PcInv
  <2> QED BY <1>8, <1>r, <1>p, <2>1 DEF CreateForSDP
<1>9. CASE SetRemoteDescription
  <2> DEFINE p == handler.pc
             c == IF handler.msg.type = "offer"
                  THEN [conn[p] EXCEPT !.signaling = "have-remote-offer", !.remote = TRUE]
                  ELSE [conn[p] EXCEPT !.signaling = "stable", !.remote = TRUE,
                                       !.stables = conn[p].stables + 1]
  <2>1. CASE /\ conn[p].signaling =
                   IF handler.msg.type = "offer" THEN "stable" ELSE "have-local-offer"
             /\ Leave(cr, [conn EXCEPT ![p] = c], toClient)
             /\ Goto("local", p)
             /\ UNCHANGED lastPc
    <3>1. Same(conn, [conn EXCEPT ![p] = c])
      <4>1. CASE p \in Pcs
        <5>1. conn[p] \in PeerConnection
          BY <1>t, <4>1
        <5>2. c.signaling \notin {"new", "closed"} /\ Open(conn, p)
          BY <2>1, <5>1 DEF PeerConnection, Open
        <5> HIDE DEF p, c
        <5> QED BY <1>t, <4>1, <5>2 DEF Same, Open
      <4>2. CASE p \notin Pcs
        <5> HIDE DEF p, c
        <5> QED BY <1>t, <4>2 DEF Same
      <4> QED BY <4>1, <4>2
    <3>2. PcOK(cr', conn', lastPc')
      BY <1>t, <2>1, <3>1, PcSame DEF Leave
    <3>3. handler'.at = "local"
      BY <2>1 DEF Goto, TypeOK
    <3> QED BY <3>2, <3>3 DEF PcInv
  <2> QED BY <1>9, <1>r, <2>1 DEF SetRemoteDescription
<1>10. CASE ApplyRemoteDescription
  <2> DEFINE r == Flushed(cr)
             added == NegotiationNeeded([r EXCEPT !.pending = FALSE])
  <2>1. CASE ~(ResetReturn \/ Replaced)
    <3>1. /\ Goto("finish", handler.pc) /\ UNCHANGED lastPc
          /\ \/ Leave(r, conn, toClient)
             \/ /\ conn[cr.pc].signaling = "have-remote-offer"
                /\ CreateAnswer(r, conn, toClient) \/ CreateAnswer(added, conn, toClient)
      BY <1>10, <2>1 DEF ApplyRemoteDescription
    <3>2. r \in ConnectionRecord /\ added \in ConnectionRecord /\ r.pc = cr.pc /\ added.pc = cr.pc
      <4>1. r \in ConnectionRecord /\ r.pc = cr.pc
        BY <1>t, RecordTypes, RecordPc
      <4>2. [r EXCEPT !.pending = FALSE] \in ConnectionRecord /\ [r EXCEPT !.pending = FALSE].pc = r.pc
        BY <4>1 DEF ConnectionRecord
      <4> QED BY <4>1, <4>2, RecordTypes, RecordPc
    <3> HIDE DEF r, added
    <3>3. PcOK(cr', conn', lastPc')
      BY <1>t, <3>1, <3>2, PcAnswer DEF Leave, PcOK
    <3>4. handler'.at = "finish"
      BY <3>1 DEF Goto, TypeOK
    <3> QED BY <3>3, <3>4 DEF PcInv
  <2> QED BY <2>1, <1>r, <1>p
<1>11. CASE Finish
  <2>1. PcOK(cr', conn', lastPc')
    BY <1>11, <1>t, PcReturn DEF Finish
  <2> QED BY <1>11, <1>i, <2>1 DEF Finish, Return, PcInv
<1> QED BY <1>1, <1>2, <1>6, <1>7, <1>8, <1>9, <1>10, <1>11 DEF Handler

LEMMA PcOther ==
  ASSUME NegotiationAssumption, TypeOK, PcInv,
         \/ Remote \/ ClientExtra \/ ClientRestart
         \/ \E p \in Pcs : \/ OnStable(p) \/ Destroy(p) \/ ConnectionFails(p)
                           \/ WatcherTimeout(p) \/ DataChannelClose(p)
         \/ Resurrect \/ TrackChange \/ WriteFails \/ UserCloses \/ CloseReset \/ Stop
  PROVE  PcInv'
<1> USE DEF otherEnv, handlerEnv
<1>t. /\ cr \in ConnectionRecord /\ cr.pc \in Pcs \cup {NoPc}
      /\ conn \in [Pcs -> PeerConnection] /\ lastPc \in Nat
      /\ PcOK(cr, conn, lastPc)
      /\ Reset(cr) \in ConnectionRecord /\ Reset(cr).pc = NoPc
      /\ NegotiationNeeded(cr) \in ConnectionRecord /\ NegotiationNeeded(cr).pc = cr.pc
  BY RecordTypes, RecordPc DEF TypeOK, ConnectionRecord, NegotiationAssumption, PcInv
<1>r. ASSUME NEW k \in [Pcs -> PeerConnection], PcOK(cr, k, lastPc),
             Leave(Reset(cr), Close(k, cr.pc), toClient), UNCHANGED <<lastPc, handler>>
      PROVE  PcInv'
  BY <1>t, <1>r, PcReset DEF Leave, PcInv
<1>1. CASE Remote \/ ClientExtra \/ ClientRestart \/ UserCloses \/ Stop
  BY <1>1 DEF Remote, ClientReceive, ClientOffer, ClientExtra, ClientRestart, clientEnv,
              UserCloses, Stop, recordVars, PcInv
<1>2. ASSUME NEW p \in Pcs, OnStable(p) PROVE PcInv'
  <2> DEFINE run == [conn EXCEPT ![p] = [@ EXCEPT !.stables = conn[p].stables - 1]]
             done == [cr EXCEPT !.isNegotiating = FALSE, !.queuedNegotiation = FALSE,
                         !.needsNegotiation = IF cr.queuedNegotiation THEN TRUE ELSE @]
  <2>1. run \in [Pcs -> PeerConnection] /\ Same(conn, run)
    BY <1>2, <1>t, EventTypes DEF OnStable, Same, Open, PeerConnection
  <2>2. done \in ConnectionRecord /\ done.pc = cr.pc
    <3>1. (IF cr.queuedNegotiation THEN TRUE ELSE cr.needsNegotiation) \in BOOLEAN
      BY <1>t DEF ConnectionRecord
    <3>2. \A b \in BOOLEAN :
            /\ [cr EXCEPT !.isNegotiating = FALSE, !.queuedNegotiation = FALSE,
                          !.needsNegotiation = b] \in ConnectionRecord
            /\ [cr EXCEPT !.isNegotiating = FALSE, !.queuedNegotiation = FALSE,
                          !.needsNegotiation = b].pc = cr.pc
      BY <1>t DEF ConnectionRecord
    <3> QED BY <3>1, <3>2
  <2>3. \/ Leave(cr, run, toClient)
        \/ MaybeNegotiateAndUnlock(done, run, toClient)
        \/ MaybeNegotiateAndUnlock(cr, run, toClient)
    BY <1>2 DEF OnStable
  <2> HIDE DEF run, done
  <2>4. PcOK(cr, run, lastPc) /\ PcOK(done, run, lastPc)
    BY <1>t, <2>1, <2>2, PcSame
  <2>5. PcOK(cr', conn', lastPc)
    BY <1>t, <2>1, <2>2, <2>3, <2>4, PcReturn
  <2> QED BY <1>2, <2>5 DEF OnStable, PcInv
<1>3. ASSUME NEW p \in Pcs, Destroy(p) PROVE PcInv'
  <2> DEFINE run == [conn EXCEPT ![p] = [@ EXCEPT !.destroys = conn[p].destroys - 1]]
  <2>1. run \in [Pcs -> PeerConnection] /\ Same(conn, run)
    BY <1>3, <1>t, EventTypes DEF Destroy, Same, Open, PeerConnection
  <2>2. /\ \/ Leave(cr, run, toClient)
           \/ Leave(Reset(cr), Close(run, cr.pc), toClient)
        /\ UNCHANGED <<lastPc, handler>>
    BY <1>3 DEF Destroy
  <2> HIDE DEF run
  <2>3. PcOK(cr, run, lastPc)
    BY <1>t, <2>1, PcSame
  <2> QED BY <1>r, <2>1, <2>2, <2>3 DEF Leave, PcInv
<1>4. ASSUME NEW p \in Pcs, ConnectionFails(p) PROVE PcInv'
  <2>1. Same(conn, [conn EXCEPT ![p] = [@ EXCEPT !.destroys = conn[p].destroys + 1]])
    BY <1>t DEF Same, Open, PeerConnection
  <2>2. PcOK(cr', conn', lastPc)
    BY <1>4, <1>t, <2>1, PcSame DEF ConnectionFails, Leave
  <2> QED BY <1>4, <2>2 DEF ConnectionFails, Fault, PcInv
<1>5. ASSUME NEW p \in Pcs, WatcherTimeout(p) PROVE PcInv'
  <2>1. Same(conn, Close(conn, p))
    BY <1>5, <1>t, CloseSame DEF WatcherTimeout
  <2>2. PcOK(cr', conn', lastPc)
    BY <1>5, <1>t, <2>1, PcSame DEF WatcherTimeout, Leave
  <2> QED BY <1>5, <2>2 DEF WatcherTimeout, Fault, PcInv
<1>6. ASSUME NEW p \in Pcs, DataChannelClose(p) PROVE PcInv'
  BY <1>6, <1>r, <1>t DEF DataChannelClose, Fault
<1>7. CASE Resurrect
  <2>1. 0 \in 0..MaxRpc
    BY DEF NegotiationAssumption
  <2>2. cr.pc = NoPc /\ CanCreate(cr) =>
          /\ CreatePeerConnection(cr, NoId) \in ConnectionRecord
          /\ Created(conn) \in [Pcs -> PeerConnection]
          /\ PcOK(CreatePeerConnection(cr, NoId), Created(conn), lastPc + 1)
    BY <1>t, <2>1, CreateTypes, PcCreate DEF NoId
  <2>3. PcOK(NegotiationNeeded(cr), conn, lastPc)
    BY <1>t DEF PcOK
  <2>4. PcOK(cr', conn', lastPc')
    BY <1>7, <1>t, <2>2, <2>3, PcReturn DEF Resurrect
  <2> QED BY <1>7, <2>4 DEF Resurrect, PcInv
<1>8. CASE TrackChange
  <2> DEFINE changed == [conn EXCEPT ![cr.pc] = [@ EXCEPT !.changed = TRUE]]
             needed == NegotiationNeeded(cr)
             lacking == [needed EXCEPT !.missing = IF Initiator THEN @ ELSE TRUE]
             waiting == [needed EXCEPT !.pending = TRUE]
             failing == [cr EXCEPT !.pending = TRUE]
  <2>1. changed \in [Pcs -> PeerConnection] /\ Same(conn, changed)
    <3>1. CASE cr.pc \in Pcs
      <4>1. changed \in [Pcs -> PeerConnection]
        BY <1>t, <3>1, EventTypes
      <4>2. \A p \in Pcs : changed[p].signaling = conn[p].signaling
        BY <1>t, <3>1 DEF PeerConnection
      <4> QED BY <4>1, <4>2 DEF Same, Open
    <3>2. CASE cr.pc \notin Pcs
      BY <1>t, <3>2 DEF Same
    <3> QED BY <3>1, <3>2
  <2>2. /\ lacking \in ConnectionRecord /\ waiting \in ConnectionRecord
        /\ failing \in ConnectionRecord
        /\ lacking.pc = cr.pc /\ waiting.pc = cr.pc /\ failing.pc = cr.pc
    <3>1. needed \in ConnectionRecord /\ needed.pc = cr.pc
      BY <1>t
    <3> HIDE DEF needed
    <3> QED BY <1>t, <3>1 DEF ConnectionRecord
  <2>3. \E q : \/ MaybeNegotiateAndUnlock(cr, conn, q)
              \/ MaybeNegotiateAndUnlock(lacking, changed, q)
              \/ MaybeNegotiateAndUnlock(waiting, conn, q)
              \/ Fail(failing, conn, q)
    BY <1>8 DEF TrackChange
  <2> HIDE DEF changed, lacking, waiting, failing
  <2>4. PcOK(lacking, changed, lastPc) /\ PcOK(waiting, conn, lastPc) /\ PcOK(failing, conn, lastPc)
    <3>1. PcOK(lacking, changed, lastPc)
      BY <1>t, <2>1, <2>2, PcSame
    <3> QED BY <1>t, <2>2, <3>1 DEF PcOK
  <2>5. PcOK(cr', conn', lastPc)
    BY <1>t, <2>1, <2>2, <2>3, <2>4, PcReturn
  <2> QED BY <1>8, <2>5 DEF TrackChange, PcInv
<1>9. CASE WriteFails
  BY <1>9, <1>r, <1>t DEF WriteFails, Fault
<1>10. CASE CloseReset
  BY <1>10, <1>r, <1>t DEF CloseReset
<1> QED BY <1>1, <1>2, <1>3, <1>4, <1>5, <1>6, <1>7, <1>8, <1>9, <1>10

LEMMA PcInit ==
  ASSUME NegotiationAssumption, Init PROVE PcInv
<1>1. cr.pc = NoPc
  BY DEF Init, NewConnectionRecord
<1>2. \A p \in Pcs : conn[p].signaling = "new" /\ p > 0
  BY DEF Init, NewPeerConnection, Pcs, NegotiationAssumption
<1>3. lastPc = 0 /\ handler.at = "idle"
  BY DEF Init, Idle
<1> QED BY <1>1, <1>2, <1>3 DEF PcInv, PcOK, Open

(* At most one peer connection is open, the record's own: whatever the     *)
(* order in which the handler, the callbacks and the resets without the    *)
(* lock work on the record, none is replaced before it is closed.          *)
THEOREM NoLeak == Spec => []NoLeakedPeerConnection
<1>1. Init => PcInv
  BY NegotiationAssumption, PcInit
<1>2. TypeOK /\ PcInv /\ [Next]_vars => PcInv'
  <2>1. TypeOK /\ PcInv /\ Next => PcInv'
    BY NegotiationAssumption, PcHandler, PcOther DEF Next
  <2>2. PcInv /\ UNCHANGED vars => PcInv'
    BY DEF vars, recordVars, PcInv
  <2> QED BY <2>1, <2>2
<1>3. PcInv => NoLeakedPeerConnection
  BY DEF PcInv, PcOK, Open, NoLeakedPeerConnection
<1> QED BY <1>1, <1>2, <1>3, TypeCorrect, PTL DEF Spec

-----------------------------------------------------------------------------
(***************************************************************************)
(* The record of Negotiation implements PeerConnections.  PcInv says which *)
(* states there are: the open peer connection is the record's, those in    *)
(* use are the first lastPc.  Here it is shown for each step what it does  *)
(* to them: a closed one stays closed, and the record keeps the one it     *)
(* has, loses it or gets the next.                                         *)
(***************************************************************************)

(* Closed peer connections stay closed from k to j.                        *)
Keeps(k, j) ==
  \A p \in Pcs : k[p].signaling = "closed" => j[p].signaling = "closed"

(* The same ones are closed in k and j.                                    *)
Alike(k, j) ==
  \A p \in Pcs : k[p].signaling = "closed" <=> j[p].signaling = "closed"

PcStep ==
  /\ Keeps(conn, conn')
  /\ \/ lastPc' = lastPc /\ cr'.pc \in {cr.pc, NoPc}
     \/ /\ lastPc' = lastPc + 1 /\ cr'.pc = lastPc + 1
        /\ lastPc + 1 \in Pcs /\ conn'[lastPc + 1].signaling # "closed"

(* Negotiating never closes a peer connection nor reopens one.             *)
LEMMA NegotiateAlike ==
  ASSUME NegotiationAssumption, NEW r \in ConnectionRecord,
         NEW k \in [Pcs -> PeerConnection], NEW q, MaybeNegotiateAndUnlock(r, k, q)
  PROVE  cr'.pc = r.pc /\ Alike(k, conn')
<1>1. CASE Leave(r, k, q)
  BY <1>1 DEF Leave, Alike
<1>2. CASE Negotiate([r EXCEPT !.needsNegotiation = FALSE], k, q)
  <2> DEFINE s == [r EXCEPT !.needsNegotiation = FALSE]
             t == Negotiating(s)
  <2>1. s.pc = r.pc /\ t.pc = r.pc /\ Queued(t).pc = r.pc
    BY DEF ConnectionRecord, Negotiating, Queued
  <2>2. CASE s.pc # NoPc /\ CreateOffer(s, k, q)
    <3>1. s.pc \in Pcs
      BY <2>1, <2>2 DEF ConnectionRecord
    <3>2. k[s.pc].signaling = "stable" =>
            Alike(k, [k EXCEPT ![s.pc] = [@ EXCEPT !.signaling = "have-local-offer",
                                                   !.changed = FALSE]])
      BY <3>1 DEF Alike, PeerConnection
    <3>3. Alike(k, [k EXCEPT ![s.pc] = [@ EXCEPT !.failed = TRUE]])
      BY <3>1 DEF Alike, PeerConnection
    <3> HIDE DEF s
    <3> QED BY <2>1, <2>2, <3>2, <3>3 DEF CreateOffer, Leave, Fail
  <2>3. Alike(k, k)
    BY DEF Alike
  <2> HIDE DEF s
  <2> QED BY <1>2, <2>1, <2>2, <2>3 DEF Negotiate, Leave, Fail, s
<1> QED BY <1>1, <1>2 DEF MaybeNegotiateAndUnlock

LEMMA ReturnAlike ==
  ASSUME NegotiationAssumption, NEW r \in ConnectionRecord,
         NEW k \in [Pcs -> PeerConnection], NEW q, NEW p,
         Return(r, k, q, p) \/ Leave(r, k, q) \/ Fail(r, k, q)
           \/ MaybeNegotiateAndUnlock(r, k, q)
  PROVE  cr'.pc = r.pc /\ Alike(k, conn')
<1>1. CASE MaybeNegotiateAndUnlock(r, k, q)
  BY <1>1, NegotiateAlike
<1>2. CASE Leave(r, k, q) \/ Fail(r, k, q)
  BY <1>2 DEF Leave, Fail, Alike
<1> QED BY <1>1, <1>2 DEF Return

LEMMA CloseKeeps ==
  ASSUME NEW k \in [Pcs -> PeerConnection], NEW p
  PROVE  Keeps(k, Close(k, p))
  BY DEF Close, Keeps, PeerConnection

(* A step that ends with a record that has the peer connection it had or   *)
(* none, and with peer connections of which none was reopened.             *)
LEMMA EndStep ==
  ASSUME NegotiationAssumption, NEW r \in ConnectionRecord,
         NEW k \in [Pcs -> PeerConnection], NEW q, NEW p,
         Return(r, k, q, p) \/ Leave(r, k, q) \/ Fail(r, k, q)
           \/ MaybeNegotiateAndUnlock(r, k, q),
         r.pc \in {cr.pc, NoPc}, Keeps(conn, k), UNCHANGED lastPc
  PROVE  PcStep
<1>1. cr'.pc = r.pc /\ Alike(k, conn')
  BY ReturnAlike
<1> QED BY <1>1 DEF PcStep, Keeps, Alike

LEMMA CreateStep ==
  ASSUME NegotiationAssumption, TypeOK, NEW r \in ConnectionRecord,
         NEW k \in [Pcs -> PeerConnection], NEW i \in 0..MaxRpc, NEW q, NEW p,
         PcOK(r, k, lastPc), CanCreate(r), Keeps(conn, k), lastPc' = lastPc + 1,
         LET s == CreatePeerConnection(r, i) IN
           \/ Return(s, Created(k), q, p) \/ Leave(s, Created(k), q)
           \/ MaybeNegotiateAndUnlock(s, Created(k), q)
  PROVE  PcStep
<1>1. /\ lastPc + 1 \in Pcs /\ lastPc \in Nat
      /\ CreatePeerConnection(r, i) \in ConnectionRecord
      /\ Created(k) \in [Pcs -> PeerConnection]
  BY CreateTypes DEF TypeOK, NegotiationAssumption
<1>2. CreatePeerConnection(r, i).pc = lastPc + 1
  BY DEF CreatePeerConnection, NegotiationNeeded, ConnectionRecord
<1>3. \A c \in Pcs : Created(k)[c] = IF c = lastPc + 1 THEN NewPeerConnection ELSE k[c]
  BY <1>1 DEF Created
<1>4. k[lastPc + 1].signaling = "new"
  BY <1>1 DEF PcOK
<1>5. cr'.pc = CreatePeerConnection(r, i).pc /\ Alike(Created(k), conn')
  BY <1>1, ReturnAlike
<1>6. Keeps(conn, Created(k))
  BY <1>3, <1>4 DEF Keeps
<1>7. Created(k)[lastPc + 1].signaling # "closed"
  BY <1>1, <1>3 DEF NewPeerConnection
<1> QED BY <1>1, <1>2, <1>5, <1>6, <1>7 DEF PcStep, Keeps, Alike

LEMMA ReboundStep ==
  ASSUME TypeOK, NEW i
  PROVE  Rebound(cr, i).pc \in {cr.pc, NoPc} /\ Keeps(conn, ReboundConn(i))
<1>1. cr \in ConnectionRecord /\ conn \in [Pcs -> PeerConnection]
  BY DEF TypeOK
<1>2. Emptied(cr).pc = NoPc /\ [cr EXCEPT !.rpcid = i].pc = cr.pc
  BY <1>1, RecordPc DEF Reset, ConnectionRecord
<1>3. Keeps(conn, conn) /\ Keeps(conn, Close(conn, cr.pc))
  BY <1>1, CloseKeeps DEF Keeps
<1> QED BY <1>1, <1>2, <1>3 DEF Rebound, ReboundConn, ClearPeerConnection

(* What is known of the record before a step.                              *)
LEMMA CurrentFacts ==
  ASSUME NegotiationAssumption, TypeOK, PcInv
  PROVE  /\ cr \in ConnectionRecord /\ cr.pc \in Pcs \cup {NoPc}
         /\ conn \in [Pcs -> PeerConnection] /\ lastPc \in Nat
         /\ PcOK(cr, conn, lastPc)
         /\ Reset(cr) \in ConnectionRecord /\ Reset(cr).pc = NoPc
         /\ Close(conn, cr.pc) \in [Pcs -> PeerConnection]
         /\ Keeps(conn, conn) /\ Keeps(conn, Close(conn, cr.pc))
         /\ NoId \in 0..MaxRpc
<1>1. /\ cr \in ConnectionRecord /\ cr.pc \in Pcs \cup {NoPc}
      /\ conn \in [Pcs -> PeerConnection] /\ lastPc \in Nat
  BY DEF TypeOK, ConnectionRecord, NegotiationAssumption
<1>2. Reset(cr) \in ConnectionRecord /\ Reset(cr).pc = NoPc
  BY <1>1, RecordTypes, RecordPc
<1>3. Close(conn, cr.pc) \in [Pcs -> PeerConnection]
  BY <1>1, CloseTypes
<1>4. Keeps(conn, conn) /\ Keeps(conn, Close(conn, cr.pc))
  BY <1>1, CloseKeeps DEF Keeps
<1>5. PcOK(cr, conn, lastPc) /\ NoId \in 0..MaxRpc
  BY DEF PcInv, NegotiationAssumption, NoId
<1> QED BY <1>1, <1>2, <1>3, <1>4, <1>5

(* What each step of the handler does to the peer connections.             *)
LEMMA HandlerStep ==
  ASSUME NegotiationAssumption, TypeOK, PcInv, Handler
  PROVE  PcStep
<1>t. /\ cr \in ConnectionRecord /\ cr.pc \in Pcs \cup {NoPc}
      /\ conn \in [Pcs -> PeerConnection] /\ lastPc \in Nat
      /\ PcOK(cr, conn, lastPc)
      /\ Reset(cr) \in ConnectionRecord /\ Reset(cr).pc = NoPc
      /\ Close(conn, cr.pc) \in [Pcs -> PeerConnection]
      /\ Keeps(conn, conn) /\ Keeps(conn, Close(conn, cr.pc))
      /\ NoId \in 0..MaxRpc
  BY CurrentFacts
<1>r. ResetReturn => PcStep
  BY <1>t, EndStep DEF ResetReturn
<1>p. Replaced => PcStep
  BY <1>t DEF Replaced, recordVars, PcStep
<1>1. CASE Refuse
  BY <1>1, <1>t DEF Refuse, recordVars, PcStep
<1>2. CASE \/ HandleRenegotiate \/ HandleCandidate \/ HandleTransceiverRequest \/ HandleSDP
  <2>1. PICK m \in ServerMessage :
          LET r == Rebound(cr, m.pcid)
              k == ReboundConn(m.pcid)
          IN \/ /\ \/ \E p : Return(r, k, toClient, p)
                   \/ Return(NegotiationNeeded(r), k, toClient, r.pc)
                   \/ Return(Reset(r), k, toClient, cr.pc)
                   \/ Return(Reset(r), Close(k, r.pc), toClient, cr.pc)
                   \/ Return([r EXCEPT !.pendingCandidates = TRUE], k, toClient, cr.pc)
                   \/ Leave(r, k, toClient)
                /\ UNCHANGED lastPc
             \/ /\ CanCreate(r)
                /\ lastPc' = lastPc + 1
                /\ Return(CreatePeerConnection(r, m.pcid), Created(k), toClient, lastPc + 1)
    BY <1>2 DEF HandleRenegotiate, HandleCandidate, HandleTransceiverRequest, HandleSDP
  <2> DEFINE r == Rebound(cr, m.pcid)
             k == ReboundConn(m.pcid)
             w == [r EXCEPT !.pendingCandidates = TRUE]
  <2>2. /\ r \in ConnectionRecord /\ k \in [Pcs -> PeerConnection] /\ PcOK(r, k, lastPc)
        /\ r.pc \in {cr.pc, NoPc} /\ Keeps(conn, k) /\ m.pcid \in 0..MaxRpc
    BY ReboundTypes, PcRebound, ReboundStep DEF ServerMessage
  <2> HIDE DEF r, k
  <2>3. /\ NegotiationNeeded(r) \in ConnectionRecord /\ NegotiationNeeded(r).pc = r.pc
        /\ Reset(r) \in ConnectionRecord /\ Reset(r).pc = NoPc
        /\ r.pc \in Pcs \cup {NoPc}
    BY <2>2, RecordTypes, RecordPc DEF ConnectionRecord
  <2>4. w \in ConnectionRecord /\ w.pc = r.pc
    BY <2>2 DEF ConnectionRecord
  <2>5. Close(k, r.pc) \in [Pcs -> PeerConnection] /\ Keeps(conn, Close(k, r.pc))
    <3>1. Keeps(k, Close(k, r.pc))
      BY <2>2, CloseKeeps
    <3> QED BY <2>2, <2>3, <3>1, CloseTypes DEF Keeps
  <2> HIDE DEF w
  <2>6. CASE CanCreate(r) /\ lastPc' = lastPc + 1 /\
             Return(CreatePeerConnection(r, m.pcid), Created(k), toClient, lastPc + 1)
    BY <2>2, <2>6, CreateStep
  <2>7. CASE (\E p : Return(r, k, toClient, p)) /\ UNCHANGED lastPc
    BY <2>2, <2>7, EndStep
  <2>8. CASE Return(NegotiationNeeded(r), k, toClient, r.pc) /\ UNCHANGED lastPc
    BY <2>2, <2>3, <2>8, EndStep
  <2>9. CASE /\ \/ Return(Reset(r), k, toClient, cr.pc)
                \/ Return(Reset(r), Close(k, r.pc), toClient, cr.pc)
             /\ UNCHANGED lastPc
    BY <2>2, <2>3, <2>5, <2>9, EndStep
  <2>10. CASE Return(w, k, toClient, cr.pc) /\ UNCHANGED lastPc
    BY <2>2, <2>4, <2>10, EndStep
  <2>11. CASE Leave(r, k, toClient) /\ UNCHANGED lastPc
    BY <2>2, <2>11, EndStep
  <2> QED BY <2>1, <2>6, <2>7, <2>8, <2>9, <2>10, <2>11 DEF r, k, w
<1>6. CASE UpdateMedia
  <2>1. [cr EXCEPT !.media = TRUE] \in ConnectionRecord /\ [cr EXCEPT !.media = TRUE].pc = cr.pc
    BY <1>t DEF ConnectionRecord
  <2> QED BY <1>6, <1>r, <1>p, <1>t, <2>1, EndStep DEF UpdateMedia
<1>7. CASE RequestRestart
  BY <1>7, <1>t, RecordTypes, RecordPc, EndStep DEF RequestRestart
<1>8. CASE CreateForSDP
  BY <1>8, <1>r, <1>p, <1>t, CreateStep DEF CreateForSDP
<1>9. CASE SetRemoteDescription
  <2> DEFINE p == handler.pc
             c == IF handler.msg.type = "offer"
                  THEN [conn[p] EXCEPT !.signaling = "have-remote-offer", !.remote = TRUE]
                  ELSE [conn[p] EXCEPT !.signaling = "stable", !.remote = TRUE,
                                       !.stables = conn[p].stables + 1]
  <2>1. CASE /\ conn[p].signaling =
                   IF handler.msg.type = "offer" THEN "stable" ELSE "have-local-offer"
             /\ Leave(cr, [conn EXCEPT ![p] = c], toClient)
             /\ UNCHANGED lastPc
    <3>1. conn[p].signaling # "closed"
      BY <2>1
    <3>2. \A x \in Pcs : x # p => [conn EXCEPT ![p] = c][x] = conn[x]
      BY <1>t
    <3> HIDE DEF c, p
    <3>3. Keeps(conn, [conn EXCEPT ![p] = c])
      BY <3>1, <3>2 DEF Keeps
    <3> QED BY <2>1, <3>3 DEF Leave, PcStep
  <2> QED BY <1>9, <1>r, <2>1 DEF SetRemoteDescription
<1>10. CASE ApplyRemoteDescription
  <2> DEFINE r == Flushed(cr)
             added == NegotiationNeeded([r EXCEPT !.pending = FALSE])
  <2>1. r \in ConnectionRecord /\ r.pc = cr.pc
    BY <1>t, RecordTypes, RecordPc
  <2>2. added \in ConnectionRecord /\ added.pc = cr.pc
    <3>1. [r EXCEPT !.pending = FALSE] \in ConnectionRecord /\ [r EXCEPT !.pending = FALSE].pc = r.pc
      BY <2>1 DEF ConnectionRecord
    <3> QED BY <2>1, <3>1, RecordTypes, RecordPc
  <2> HIDE DEF r, added
  <2>3. ASSUME NEW a \in ConnectionRecord, a.pc = cr.pc, CreateAnswer(a, conn, toClient),
               conn[cr.pc].signaling = "have-remote-offer", UNCHANGED lastPc
        PROVE  PcStep
    <3> DEFINE answered == [conn EXCEPT ![a.pc] =
                              [@ EXCEPT !.signaling = "stable", !.changed = FALSE,
                                        !.stables = conn[a.pc].stables + 1]]
    <3>1. /\ cr' = RequestMissingTransceivers(a)
          /\ conn' = answered
      BY <2>3 DEF CreateAnswer, Leave, Fail
    <3>2. RequestMissingTransceivers(a).pc = a.pc
      BY DEF RequestMissingTransceivers, ConnectionRecord
    <3>3. \A x \in Pcs : x # cr.pc => answered[x] = conn[x]
      BY <1>t, <2>3
    <3> HIDE DEF answered
    <3>4. Keeps(conn, answered)
      BY <2>3, <3>3 DEF Keeps
    <3> QED BY <2>3, <3>1, <3>2, <3>4 DEF PcStep
  <2>4. CASE ~(ResetReturn \/ Replaced)
    <3>1. /\ UNCHANGED lastPc
          /\ \/ Leave(r, conn, toClient)
             \/ /\ conn[cr.pc].signaling = "have-remote-offer"
                /\ CreateAnswer(r, conn, toClient) \/ CreateAnswer(added, conn, toClient)
      BY <1>10, <2>4 DEF ApplyRemoteDescription, r, added
    <3> QED BY <1>t, <2>1, <2>2, <2>3, <3>1, EndStep
  <2> QED BY <2>4, <1>r, <1>p
<1>11. CASE Finish
  BY <1>11, <1>t, EndStep DEF Finish
<1> QED BY <1>1, <1>2, <1>6, <1>7, <1>8, <1>9, <1>10, <1>11 DEF Handler

(* What the callbacks, the other goroutines and the remote do to them.     *)
LEMMA OtherPcStep ==
  ASSUME NegotiationAssumption, TypeOK, PcInv,
         \/ Remote \/ ClientExtra \/ ClientRestart
         \/ \E p \in Pcs : \/ OnStable(p) \/ Destroy(p) \/ ConnectionFails(p)
                           \/ WatcherTimeout(p) \/ DataChannelClose(p)
         \/ Resurrect \/ TrackChange \/ WriteFails \/ UserCloses \/ CloseReset \/ Stop
  PROVE  PcStep
<1> USE DEF otherEnv, handlerEnv
<1>t. /\ cr \in ConnectionRecord /\ cr.pc \in Pcs \cup {NoPc}
      /\ conn \in [Pcs -> PeerConnection] /\ lastPc \in Nat
      /\ PcOK(cr, conn, lastPc)
      /\ Reset(cr) \in ConnectionRecord /\ Reset(cr).pc = NoPc
      /\ Close(conn, cr.pc) \in [Pcs -> PeerConnection]
      /\ Keeps(conn, conn) /\ Keeps(conn, Close(conn, cr.pc))
      /\ NoId \in 0..MaxRpc
  BY CurrentFacts
<1>1. CASE Remote \/ ClientExtra \/ ClientRestart \/ UserCloses \/ Stop
  BY <1>1, <1>t DEF Remote, ClientReceive, ClientOffer, ClientExtra, ClientRestart, clientEnv,
                    UserCloses, Stop, recordVars, PcStep
<1>2. ASSUME NEW p \in Pcs, OnStable(p) PROVE PcStep
  <2> DEFINE run == [conn EXCEPT ![p] = [@ EXCEPT !.stables = conn[p].stables - 1]]
             done == [cr EXCEPT !.isNegotiating = FALSE, !.queuedNegotiation = FALSE,
                         !.needsNegotiation = IF cr.queuedNegotiation THEN TRUE ELSE @]
  <2>1. run \in [Pcs -> PeerConnection]
    BY <1>2, <1>t, EventTypes DEF OnStable
  <2>2. Keeps(conn, run)
    BY <1>t DEF Keeps, PeerConnection
  <2>3. done \in ConnectionRecord /\ done.pc = cr.pc
    <3>1. (IF cr.queuedNegotiation THEN TRUE ELSE cr.needsNegotiation) \in BOOLEAN
      BY <1>t DEF ConnectionRecord
    <3>2. \A b \in BOOLEAN :
            /\ [cr EXCEPT !.isNegotiating = FALSE, !.queuedNegotiation = FALSE,
                          !.needsNegotiation = b] \in ConnectionRecord
            /\ [cr EXCEPT !.isNegotiating = FALSE, !.queuedNegotiation = FALSE,
                          !.needsNegotiation = b].pc = cr.pc
      BY <1>t DEF ConnectionRecord
    <3> QED BY <3>1, <3>2
  <2>4. /\ \/ Leave(cr, run, toClient)
           \/ MaybeNegotiateAndUnlock(done, run, toClient)
           \/ MaybeNegotiateAndUnlock(cr, run, toClient)
        /\ UNCHANGED lastPc
    BY <1>2 DEF OnStable
  <2> HIDE DEF run, done
  <2> QED BY <1>t, <2>1, <2>2, <2>3, <2>4, EndStep
<1>3. ASSUME NEW p \in Pcs, Destroy(p) PROVE PcStep
  <2> DEFINE run == [conn EXCEPT ![p] = [@ EXCEPT !.destroys = conn[p].destroys - 1]]
  <2>1. run \in [Pcs -> PeerConnection]
    BY <1>3, <1>t, EventTypes DEF Destroy
  <2>2. Keeps(conn, run)
    BY <1>t DEF Keeps, PeerConnection
  <2>3. /\ \/ Leave(cr, run, toClient)
           \/ Leave(Reset(cr), Close(run, cr.pc), toClient)
        /\ UNCHANGED lastPc
    BY <1>3 DEF Destroy
  <2> HIDE DEF run
  <2>4. Close(run, cr.pc) \in [Pcs -> PeerConnection] /\ Keeps(conn, Close(run, cr.pc))
    <3>1. Keeps(run, Close(run, cr.pc))
      BY <2>1, CloseKeeps
    <3> QED BY <1>t, <2>1, <2>2, <3>1, CloseTypes DEF Keeps
  <2> QED BY <1>t, <2>1, <2>2, <2>3, <2>4, EndStep
<1>4. ASSUME NEW p \in Pcs, ConnectionFails(p) PROVE PcStep
  <2> DEFINE run == [conn EXCEPT ![p] = [@ EXCEPT !.destroys = conn[p].destroys + 1]]
  <2>1. Keeps(conn, run)
    BY <1>t DEF Keeps, PeerConnection
  <2> QED BY <1>4, <1>t, <2>1 DEF ConnectionFails, Fault, Leave, PcStep
<1>5. ASSUME NEW p \in Pcs, WatcherTimeout(p) PROVE PcStep
  <2>1. Keeps(conn, Close(conn, p))
    BY <1>t, CloseKeeps
  <2> QED BY <1>5, <1>t, <2>1 DEF WatcherTimeout, Fault, Leave, PcStep
<1>6. CASE \/ \E p \in Pcs : DataChannelClose(p)
           \/ WriteFails \/ CloseReset
  BY <1>6, <1>t DEF DataChannelClose, WriteFails, CloseReset, Fault, Leave, PcStep
<1>7. CASE Resurrect
  <2>1. NegotiationNeeded(cr) \in ConnectionRecord /\ NegotiationNeeded(cr).pc = cr.pc
    BY <1>t, RecordTypes, RecordPc
  <2> QED BY <1>7, <1>t, <2>1, CreateStep, EndStep DEF Resurrect
<1>8. CASE TrackChange
  <2> DEFINE changed == [conn EXCEPT ![cr.pc] = [@ EXCEPT !.changed = TRUE]]
             needed == NegotiationNeeded(cr)
             lacking == [needed EXCEPT !.missing = IF Initiator THEN @ ELSE TRUE]
             waiting == [needed EXCEPT !.pending = TRUE]
             failing == [cr EXCEPT !.pending = TRUE]
  <2>1. changed \in [Pcs -> PeerConnection]
    BY <1>t, EventTypes
  <2>2. Keeps(conn, changed)
    BY <1>t DEF Keeps, PeerConnection
  <2>3. /\ lacking \in ConnectionRecord /\ waiting \in ConnectionRecord
        /\ failing \in ConnectionRecord
        /\ lacking.pc = cr.pc /\ waiting.pc = cr.pc /\ failing.pc = cr.pc
    <3>1. needed \in ConnectionRecord /\ needed.pc = cr.pc
      BY <1>t, RecordTypes, RecordPc
    <3> HIDE DEF needed
    <3> QED BY <1>t, <3>1 DEF ConnectionRecord
  <2>4. /\ \E q : \/ MaybeNegotiateAndUnlock(cr, conn, q)
                  \/ MaybeNegotiateAndUnlock(lacking, changed, q)
                  \/ MaybeNegotiateAndUnlock(waiting, conn, q)
                  \/ Fail(failing, conn, q)
        /\ UNCHANGED lastPc
    BY <1>8 DEF TrackChange
  <2> HIDE DEF changed, lacking, waiting, failing
  <2> QED BY <1>t, <2>1, <2>2, <2>3, <2>4, EndStep
<1> QED BY <1>1, <1>2, <1>3, <1>4, <1>5, <1>6, <1>7, <1>8

(* Such a step is one of PeerConnections, or changes nothing it shows.     *)
LEMMA StepRefines ==
  ASSUME NegotiationAssumption, TypeOK, TypeOK', PcInv, PcInv', PcStep
  PROVE  [PC!Next]_<<cr.pc, [p \in Pcs |-> Usage(conn[p])]>>
<1> DEFINE old == [p \in Pcs |-> Usage(conn[p])]
           new == [p \in Pcs |-> Usage(conn'[p])]
<1>1. /\ cr.pc \in {NoPc} \cup 1..lastPc /\ cr'.pc \in {NoPc} \cup 1..lastPc'
      /\ lastPc \in 0..MaxPc /\ lastPc' \in 0..MaxPc /\ MaxPc \in Nat
  BY DEF TypeOK, PcInv, PcOK, NegotiationAssumption
<1>2. \A p \in Pcs :
        /\ old[p] \in {"unused", "open", "closed"} /\ new[p] \in {"unused", "open", "closed"}
        /\ old[p] = "unused" <=> p > lastPc
        /\ new[p] = "unused" <=> p > lastPc'
        /\ old[p] = "open" => p = cr.pc
        /\ new[p] = "open" => p = cr'.pc
        /\ old[p] = "closed" => new[p] = "closed"
  BY DEF PcInv, PcOK, Open, Usage, PcStep, Keeps
<1>3. lastPc' = lastPc + 1 => new[lastPc + 1] # "closed"
  BY <1>1, <1>2 DEF PcStep, Usage
<1>4. CASE lastPc' = lastPc /\ cr'.pc = cr.pc
  <2>1. \A p \in Pcs : p # cr.pc => new[p] = old[p]
    BY <1>2, <1>4
  <2>2. CASE cr.pc \in Pcs /\ old[cr.pc] = "open" /\ new[cr.pc] = "closed"
    <3>1. new = [p \in Pcs |-> IF p = cr.pc THEN "closed" ELSE old[p]]
      BY <2>1, <2>2
    <3> QED BY <1>1, <1>4, <2>2, <3>1
            DEF PC!Next, PC!CloseUnder, PC!Closing, PC!None, PC!Numbers, Pcs
  <2>3. CASE ~(cr.pc \in Pcs /\ old[cr.pc] = "open" /\ new[cr.pc] = "closed")
    <3>1. \A p \in Pcs : new[p] = old[p]
      BY <1>2, <1>4, <2>1, <2>3
    <3>2. new = old
      BY <3>1
    <3> QED BY <1>4, <3>2
  <2> QED BY <2>2, <2>3
<1>5. CASE lastPc' = lastPc /\ cr'.pc = NoPc /\ cr.pc # NoPc
  <2>1. \A p \in Pcs : new[p] = IF p = cr.pc THEN "closed" ELSE old[p]
    BY <1>1, <1>2, <1>5 DEF Pcs, NoPc
  <2>2. new = [p \in Pcs |-> IF p = cr.pc THEN "closed" ELSE old[p]]
    BY <2>1
  <2> QED BY <1>5, <2>2 DEF PC!Next, PC!Drop, PC!Closing, PC!None, PC!Numbers, Pcs, NoPc
<1>6. CASE lastPc' = lastPc + 1 /\ cr'.pc = lastPc + 1
  <2> DEFINE n == lastPc + 1
             closing == [p \in Pcs |-> IF p = cr.pc THEN "closed" ELSE old[p]]
  <2>1. n \in Pcs /\ old[n] = "unused" /\ (\A i \in Pcs : i < n => old[i] # "unused")
    BY <1>1, <1>2, <1>6 DEF Pcs
  <2>2. new[n] = "open"
    BY <1>2, <1>3, <1>6, <2>1
  <2>3. ASSUME NEW p \in Pcs, p # n
        PROVE  new[p] = IF p = cr.pc THEN "closed" ELSE old[p]
    <3>1. p > lastPc <=> p > lastPc'
      BY <1>1, <1>6, <2>3 DEF Pcs
    <3>2. p = cr.pc => ~(p > lastPc)
      BY <1>1 DEF Pcs, NoPc
    <3>3. p # cr'.pc
      BY <1>6, <2>3
    <3> HIDE DEF old, new
    <3> QED BY <1>2, <3>1, <3>2, <3>3
  <2>4. CASE cr.pc = NoPc
    <3>1. \A p \in Pcs : p # cr.pc
      BY <1>1, <2>4 DEF Pcs, NoPc
    <3>2. \A p \in Pcs : new[p] = IF p = n THEN "open" ELSE old[p]
      BY <2>2, <2>3, <3>1
    <3>3. new = [old EXCEPT ![n] = "open"]
      BY <3>2
    <3> QED BY <1>6, <2>1, <2>4, <3>3
            DEF PC!Next, PC!Create, PC!IsNext, PC!None, PC!Numbers, Pcs, NoPc
  <2>5. CASE cr.pc # NoPc
    <3>1. new = [closing EXCEPT ![n] = "open"]
      BY <2>1, <2>2, <2>3
    <3> QED BY <1>6, <2>1, <2>5, <3>1
            DEF PC!Next, PC!Replace, PC!IsNext, PC!Closing, PC!None, PC!Numbers, Pcs, NoPc
  <2> QED BY <2>4, <2>5
<1> QED BY <1>4, <1>5, <1>6 DEF PcStep

(* A record implements PeerConnections whatever its remote, the callbacks  *)
(* and the resets without the lock do: it has one peer connection after    *)
(* the other, closes each before the next, and brings none back.           *)
THEOREM Implements == Spec => ImplementsPeerConnections
<1>1. Init => PC!Init
  BY NegotiationAssumption
     DEF Init, NewConnectionRecord, NewPeerConnection, Usage, PC!Init, PC!None, PC!Numbers, Pcs, NoPc
<1>2. Init => PcInv
  BY NegotiationAssumption, PcInit
<1>3. TypeOK /\ PcInv /\ [Next]_vars => PcInv'
  <2>1. TypeOK /\ PcInv /\ Next => PcInv'
    BY NegotiationAssumption, PcHandler, PcOther DEF Next
  <2>2. PcInv /\ UNCHANGED vars => PcInv'
    BY DEF vars, recordVars, PcInv
  <2> QED BY <2>1, <2>2
<1>4. TypeOK /\ TypeOK' /\ PcInv /\ PcInv' /\ [Next]_vars
        => [PC!Next]_<<cr.pc, [p \in Pcs |-> Usage(conn[p])]>>
  <2>1. TypeOK /\ PcInv /\ Next => PcStep
    BY NegotiationAssumption, HandlerStep, OtherPcStep DEF Next
  <2>2. UNCHANGED vars => UNCHANGED <<cr.pc, [p \in Pcs |-> Usage(conn[p])]>>
    BY DEF vars, recordVars
  <2> QED BY <2>1, <2>2, NegotiationAssumption, StepRefines
<1> QED BY <1>1, <1>2, <1>3, <1>4, TypeCorrect, PTL DEF Spec, ImplementsPeerConnections, PC!Spec

-----------------------------------------------------------------------------
(***************************************************************************)
(* The flags of a negotiation: a request in the needsNegotiation channel,  *)
(* isNegotiating and queuedNegotiation.  On the initiator's side they say  *)
(* how far the record's negotiation is, and a request is left behind only  *)
(* by the handler, which takes it up at its end.                           *)
(***************************************************************************)

Up == wsUp /\ ~closed

(* A negotiation is on from the offer until the callback of its answer.    *)
Guarded(r, k) ==
  /\ r.queuedNegotiation => r.pc # NoPc
  /\ r.pc # NoPc /\ k[r.pc].signaling # "closed" =>
       /\ r.queuedNegotiation => r.isNegotiating
       /\ r.isNegotiating =>
            k[r.pc].signaling = "have-local-offer" \/ k[r.pc].stables = 1
       /\ k[r.pc].signaling = "have-local-offer" =>
            r.isNegotiating /\ k[r.pc].stables = 0
       /\ k[r.pc].stables = 1 => r.isNegotiating
       /\ k[r.pc].stables \in {0, 1}

(* Nobody makes an offer to the initiator.                                 *)
NoOffers ==
  Initiator =>
    /\ \A i \in 1..Len(toServer) : toServer[i].type # "offer"
    /\ handler.msg.type # "offer"

(* Until the handler has created a peer connection there is none; and it   *)
(* ends with the one that the request was made for.                        *)
Awake ==
  /\ handler.at \in {"restart", "create"} => cr.pc = NoPc
  /\ handler.at = "restart" => Initiator
  /\ wsUp /\ cr.needsNegotiation =>
       \/ handler.at = "create" /\ Initiator
       \/ handler.at = "finish" /\ handler.pc = cr.pc

FlagsInv ==
  /\ Initiator /\ Up => Guarded(cr, conn)
  /\ NoOffers
  /\ Awake

-----------------------------------------------------------------------------
(* Guarded depends on little of the record and its peer connection.        *)
LEMMA GuardedSame ==
  ASSUME NEW r, NEW s, NEW k, NEW j, Guarded(r, k),
         s.pc = r.pc, s.isNegotiating = r.isNegotiating,
         s.queuedNegotiation = r.queuedNegotiation,
         r.pc # NoPc => \/ j[r.pc].signaling = "closed"
                        \/ /\ j[r.pc].signaling = k[r.pc].signaling
                           /\ j[r.pc].stables = k[r.pc].stables
  PROVE  Guarded(s, j)
  BY DEF Guarded

(* A record without peer connection and without queue is guarded.          *)
LEMMA GuardedReset ==
  ASSUME NEW r \in ConnectionRecord, NEW k
  PROVE  /\ Guarded(Reset(r), k)
         /\ ~Reset(r).needsNegotiation
  BY DEF Guarded, Reset, Emptied, NewConnectionRecord, NoPc

LEMMA NegotiateGuarded ==
  ASSUME NegotiationAssumption, NEW r \in ConnectionRecord,
         NEW k \in [Pcs -> PeerConnection], NEW q, Initiator, Guarded(r, k),
         MaybeNegotiateAndUnlock(r, k, q), wsUp'
  PROVE  Guarded(cr', conn')
<1>1. CASE Leave(r, k, q)
  BY <1>1 DEF Leave
<1>2. CASE Negotiate([r EXCEPT !.needsNegotiation = FALSE], k, q)
  <2> DEFINE s == [r EXCEPT !.needsNegotiation = FALSE]
             t == Negotiating(s)
             u == Queued(t)
  <2>1. /\ s.pc = r.pc /\ t.pc = r.pc /\ u.pc = r.pc /\ r.pc \in Pcs \cup {NoPc}
        /\ s.isNegotiating = r.isNegotiating /\ t.isNegotiating /\ u.isNegotiating
        /\ s.queuedNegotiation = r.queuedNegotiation
        /\ t.queuedNegotiation = r.queuedNegotiation
    BY DEF ConnectionRecord, Negotiating, Queued
  <2>2. Guarded(s, k)
    BY <2>1 DEF Guarded
  <2> HIDE DEF s
  <2>3. CASE s.pc = NoPc /\ Leave(t, k, q)
    BY <2>1, <2>3 DEF Leave, Guarded, t
  <2>4. CASE s.pc # NoPc /\ s.isNegotiating /\ Leave(u, k, q)
    BY <2>1, <2>2, <2>4 DEF Leave, Guarded
  <2>5. CASE s.pc # NoPc /\ ~s.isNegotiating /\ CreateOffer(s, k, q)
    <3> DEFINE p == s.pc
               offered == [k EXCEPT ![p] = [@ EXCEPT !.signaling = "have-local-offer",
                                                     !.changed = FALSE]]
               fails == [k EXCEPT ![p] = [@ EXCEPT !.failed = TRUE]]
    <3>1. p \in Pcs /\ p # NoPc
      BY <2>1, <2>5
    <3>2. /\ offered[p].signaling = "have-local-offer" /\ offered[p].stables = k[p].stables
          /\ fails[p].signaling = k[p].signaling /\ fails[p].stables = k[p].stables
      BY <3>1 DEF PeerConnection
    <3>3. CASE k[p].signaling = "stable" /\ Leave(t, offered, Append(q, "offer"))
      <4>1. k[p].stables = 0 /\ ~s.queuedNegotiation
        BY <2>2, <2>5, <3>1, <3>3 DEF Guarded
      <4> HIDE DEF offered
      <4> QED BY <2>1, <3>1, <3>2, <3>3, <4>1 DEF Leave, Guarded, p
    <3>4. CASE Leave(s, fails, q)
      <4> HIDE DEF fails
      <4> QED BY <2>1, <2>2, <3>1, <3>2, <3>4, GuardedSame DEF Leave
    <3> QED BY <2>5, <3>3, <3>4 DEF CreateOffer, Fail
  <2> QED BY <1>2, <2>1, <2>3, <2>4, <2>5 DEF Negotiate, s, Leave, t
<1> QED BY <1>1, <1>2 DEF MaybeNegotiateAndUnlock

LEMMA EndGuarded ==
  ASSUME NegotiationAssumption, NEW r \in ConnectionRecord,
         NEW k \in [Pcs -> PeerConnection], NEW q, NEW p,
         Initiator /\ Up => Guarded(r, k),
         Return(r, k, q, p) \/ Leave(r, k, q) \/ Fail(r, k, q)
           \/ MaybeNegotiateAndUnlock(r, k, q),
         closed' = closed, role' = role
  PROVE  (Initiator /\ Up => Guarded(cr, conn))'
<1>1. SUFFICES ASSUME Initiator, wsUp', ~closed PROVE Guarded(cr', conn')
  BY DEF Initiator, Up
<1>2. CASE Leave(r, k, q)
  BY <1>1, <1>2 DEF Leave, Up, recordVars
<1>3. CASE MaybeNegotiateAndUnlock(r, k, q)
  <2>1. wsUp
    BY <1>1, <1>3 DEF MaybeNegotiateAndUnlock, Negotiate, CreateOffer, Leave, Fail
  <2> QED BY <1>1, <1>3, <2>1, NegotiateGuarded DEF Up
<1> QED BY <1>1, <1>2, <1>3 DEF Return, Fail

(* What is left of a request at the end of a critical section.             *)
LEMMA EndAwake ==
  ASSUME NEW r \in ConnectionRecord, NEW k, NEW q, NEW p,
         \/ MaybeNegotiateAndUnlock(r, k, q) \/ Fail(r, k, q)
         \/ Leave(r, k, q) /\ (wsUp => ~r.needsNegotiation)
         \/ Return(r, k, q, p) /\ (r.pc = p \/ (wsUp => ~r.needsNegotiation))
  PROVE  wsUp' => ~cr'.needsNegotiation
<1>1. CASE Leave(r, k, q) /\ (wsUp => ~r.needsNegotiation)
  BY <1>1 DEF Leave
<1>2. CASE MaybeNegotiateAndUnlock(r, k, q)
  <2> DEFINE s == [r EXCEPT !.needsNegotiation = FALSE]
             t == Negotiating(s)
  <2>1. ~s.needsNegotiation /\ ~t.needsNegotiation /\ ~Queued(t).needsNegotiation
    BY DEF ConnectionRecord, Negotiating, Queued
  <2>2. CASE Negotiate(s, k, q)
    <3> HIDE DEF s
    <3> QED BY <2>1, <2>2 DEF Negotiate, CreateOffer, Leave, Fail
  <2>3. CASE Leave(r, k, q) /\ (r.needsNegotiation => ~wsUp)
    BY <2>3 DEF Leave
  <2> QED BY <1>2, <2>2, <2>3 DEF MaybeNegotiateAndUnlock
<1>3. CASE Fail(r, k, q)
  BY <1>3 DEF Fail
<1> QED BY <1>1, <1>2, <1>3 DEF Return

LEMMA CreateGuarded ==
  ASSUME NegotiationAssumption, TypeOK, NEW r \in ConnectionRecord,
         NEW k \in [Pcs -> PeerConnection], NEW i, Guarded(r, k), r.pc = NoPc, CanCreate(r)
  PROVE  Guarded(CreatePeerConnection(r, i), Created(k))
<1> DEFINE s == CreatePeerConnection(r, i)
<1>1. /\ s.pc = lastPc + 1 /\ ~s.isNegotiating
      /\ s.queuedNegotiation = r.queuedNegotiation
  BY DEF CreatePeerConnection, NegotiationNeeded, ConnectionRecord
<1>2. lastPc + 1 \in Pcs
  BY DEF CanCreate, TypeOK, Pcs, NegotiationAssumption
<1>3. Created(k)[lastPc + 1] = NewPeerConnection
  BY <1>2 DEF Created
<1>4. ~r.queuedNegotiation
  BY DEF Guarded
<1>5. Guarded(s, Created(k))
  <2> HIDE DEF s
  <2> QED BY <1>1, <1>3, <1>4 DEF Guarded, NewPeerConnection
<1> QED BY <1>5

-----------------------------------------------------------------------------
(* Who sends what.                                                         *)
LEMMA Messages ==
  ASSUME NEW s \in Seq(ServerMessage), \A i \in 1..Len(s) : s[i].type # "offer"
  PROVE  /\ s # <<>> => /\ Head(s).type # "offer"
                        /\ \A i \in 1..Len(Tail(s)) : Tail(s)[i].type # "offer"
         /\ \A m \in ServerMessage : m.type # "offer" =>
              \A i \in 1..Len(Append(s, m)) : Append(s, m)[i].type # "offer"
<1>1. ASSUME s # <<>>
      PROVE  /\ Head(s).type # "offer"
             /\ \A i \in 1..Len(Tail(s)) : Tail(s)[i].type # "offer"
  <2>1. Len(s) \in Nat /\ Len(s) > 0 /\ Head(s) = s[1] /\ Len(Tail(s)) = Len(s) - 1
    BY <1>1
  <2>2. \A i \in 1..Len(Tail(s)) : Tail(s)[i] = s[i + 1]
    BY <1>1
  <2> QED BY <2>1, <2>2
<1>2. ASSUME NEW m \in ServerMessage, m.type # "offer"
      PROVE  \A i \in 1..Len(Append(s, m)) : Append(s, m)[i].type # "offer"
  <2>1. Len(s) \in Nat /\ Len(Append(s, m)) = Len(s) + 1
    OBVIOUS
  <2>2. \A i \in 1..Len(s) + 1 : Append(s, m)[i] = IF i = Len(s) + 1 THEN m ELSE s[i]
    OBVIOUS
  <2>3. \A i \in 1..Len(s) + 1 : i = Len(s) + 1 \/ i \in 1..Len(s)
    BY <2>1
  <2> QED BY <1>2, <2>1, <2>2, <2>3
<1> QED BY <1>1, <1>2

LEMMA NoOffersStep ==
  ASSUME NegotiationAssumption, TypeOK, NoOffers, Next
  PROVE  NoOffers'
<1>1. SUFFICES ASSUME Initiator
               PROVE  /\ \A i \in 1..Len(toServer') : toServer'[i].type # "offer"
                      /\ handler'.msg.type # "offer"
  BY DEF NoOffers, Next, Initiator
<1>2. /\ toServer \in Seq(ServerMessage)
      /\ \A i \in 1..Len(toServer) : toServer[i].type # "offer"
      /\ handler.msg.type # "offer" /\ Idle.msg.type # "offer"
  BY <1>1 DEF NoOffers, TypeOK, Idle
<1>3. \/ UNCHANGED toServer
      \/ toServer # <<>> /\ toServer' = Tail(toServer)
      \/ \E m \in ServerMessage : m.type # "offer" /\ toServer' = Append(toServer, m)
  <2>1. \A t \in {"answer", "candidate", "renegotiate", "transceiver", "noop"}, i \in 0..MaxRpc :
          Message(t, i) \in ServerMessage /\ Message(t, i).type # "offer"
    BY DEF Message, ServerMessage
  <2>2. client.pcid \in 0..MaxRpc /\ NoId \in 0..MaxRpc
        /\ (client.pcid < MaxRpc => client.pcid + 1 \in 0..MaxRpc)
    BY DEF TypeOK, NegotiationAssumption, NoId
  <2>3. CASE Handler
    BY <2>3 DEF Handler, Refuse, HandleRenegotiate, HandleCandidate, HandleTransceiverRequest,
                HandleSDP, Receive, UpdateMedia, RequestRestart, CreateForSDP,
                SetRemoteDescription, ApplyRemoteDescription, Finish, handlerEnv, clientVars
  <2>4. CASE ClientReceive \/ ClientExtra \/ ClientRestart
    BY <1>1, <2>1, <2>2, <2>4 DEF ClientReceive, ClientExtra, ClientRestart
  <2>5. CASE \/ Resurrect \/ TrackChange \/ WriteFails \/ UserCloses \/ CloseReset \/ Stop
             \/ \E p \in Pcs : \/ OnStable(p) \/ Destroy(p) \/ ConnectionFails(p)
                               \/ WatcherTimeout(p) \/ DataChannelClose(p)
    BY <2>5 DEF Resurrect, TrackChange, WriteFails, UserCloses, CloseReset, Stop, OnStable,
                Destroy, ConnectionFails, WatcherTimeout, DataChannelClose, Fault,
                handlerEnv, otherEnv, clientVars
  <2>6. ~ClientOffer
    BY <1>1 DEF ClientOffer
  <2> QED BY <2>3, <2>4, <2>5, <2>6 DEF Next, Remote
<1>4. \A i \in 1..Len(toServer') : toServer'[i].type # "offer"
  <2>1. CASE toServer # <<>> /\ toServer' = Tail(toServer)
    BY <1>2, <2>1, Messages
  <2>2. ASSUME NEW m \in ServerMessage, m.type # "offer", toServer' = Append(toServer, m)
        PROVE  \A i \in 1..Len(toServer') : toServer'[i].type # "offer"
    BY <1>2, <2>2, Messages
  <2> QED BY <1>2, <1>3, <2>1, <2>2
<1>5. \/ UNCHANGED handler
      \/ handler' = Idle
      \/ handler'.msg = handler.msg
      \/ toServer # <<>> /\ handler'.msg = Head(toServer)
  <2>0. \A at, p : [handler EXCEPT !.at = at, !.pc = p].msg = handler.msg
    BY DEF TypeOK
  <2>1. CASE Refuse \/ HandleRenegotiate \/ HandleCandidate \/ HandleTransceiverRequest
             \/ HandleSDP
    <3>1. \A m : Receive(m) => toServer # <<>> /\ m = Head(toServer)
      BY DEF Receive
    <3>2. \A r, k, q, p : Return(r, k, q, p) => handler' = Idle
      BY DEF Return
    <3>3. CASE Refuse
      BY <3>3 DEF Refuse
    <3>4. CASE HandleRenegotiate
      BY <3>2, <3>4 DEF HandleRenegotiate
    <3>5. CASE HandleCandidate \/ HandleTransceiverRequest
      BY <3>2, <3>5 DEF HandleCandidate, HandleTransceiverRequest
    <3>6. CASE HandleSDP
      BY <3>1, <3>6 DEF HandleSDP
    <3> QED BY <2>1, <3>3, <3>4, <3>5, <3>6
  <2>2. CASE UpdateMedia \/ RequestRestart \/ CreateForSDP \/ SetRemoteDescription
             \/ ApplyRemoteDescription \/ Finish
    <3>1. \A at, p : Goto(at, p) => handler'.msg = handler.msg
      BY <2>0 DEF Goto
    <3>2. \A r, k, q, p : Return(r, k, q, p) => handler' = Idle
      BY DEF Return
    <3>3. ResetReturn \/ Replaced => handler' = Idle
      BY <3>2 DEF ResetReturn, Replaced
    <3>4. CASE UpdateMedia
      BY <3>1, <3>3, <3>4 DEF UpdateMedia
    <3>5. CASE RequestRestart
      BY <3>1, <3>5 DEF RequestRestart
    <3>6. CASE CreateForSDP
      BY <3>1, <3>3, <3>6 DEF CreateForSDP
    <3>7. CASE SetRemoteDescription
      BY <3>1, <3>3, <3>7 DEF SetRemoteDescription
    <3>8. CASE ApplyRemoteDescription
      BY <3>1, <3>3, <3>8 DEF ApplyRemoteDescription
    <3>9. CASE Finish
      BY <3>2, <3>9 DEF Finish
    <3> QED BY <2>2, <3>4, <3>5, <3>6, <3>7, <3>8, <3>9
  <2>3. CASE ~Handler
    BY <2>3 DEF Next, Remote, ClientReceive, ClientOffer, ClientExtra, ClientRestart,
                clientEnv, Resurrect, TrackChange, WriteFails, UserCloses, CloseReset, Stop,
                OnStable, Destroy, ConnectionFails, WatcherTimeout, DataChannelClose, Fault,
                otherEnv
  <2> QED BY <2>1, <2>2, <2>3 DEF Handler
<1> QED BY <1>2, <1>4, <1>5, Messages

-----------------------------------------------------------------------------
(* The steps and Guarded.                                                  *)
LEMMA GuardedRebound ==
  ASSUME NegotiationAssumption, TypeOK, NEW i, Guarded(cr, conn)
  PROVE  Guarded(Rebound(cr, i), ReboundConn(i))
<1>1. cr \in ConnectionRecord
  BY DEF TypeOK
<1>2. CASE cr.rpcid # NoId /\ i # cr.rpcid /\ cr.pc # NoPc
  <2>1. Rebound(cr, i) = Reset(cr)
    BY <1>2 DEF Rebound, ClearPeerConnection, Reset
  <2> QED BY <1>1, <2>1, GuardedReset
<1>3. CASE ~(cr.rpcid # NoId /\ i # cr.rpcid /\ cr.pc # NoPc)
  <2>1. ReboundConn(i) = conn
    BY <1>3 DEF ReboundConn, Close
  <2>2. Rebound(cr, i) \in {cr, [cr EXCEPT !.rpcid = i]}
    BY <1>3 DEF Rebound, ClearPeerConnection
  <2>3. Guarded([cr EXCEPT !.rpcid = i], conn)
    BY <1>1 DEF Guarded, ConnectionRecord
  <2> QED BY <2>1, <2>2, <2>3
<1> QED BY <1>2, <1>3

(* What the handler does to the record without touching pc and flags.      *)
LEMMA GuardedFields ==
  ASSUME NEW r \in ConnectionRecord, NEW k, Guarded(r, k)
  PROVE  /\ Guarded(NegotiationNeeded(r), k)
         /\ Guarded(Flushed(r), k)
         /\ Guarded([r EXCEPT !.pendingCandidates = TRUE], k)
         /\ Guarded([r EXCEPT !.media = TRUE], k)
         /\ Guarded([r EXCEPT !.pending = TRUE], k)
<1>1. \A s \in {NegotiationNeeded(r), Flushed(r), [r EXCEPT !.pendingCandidates = TRUE],
                [r EXCEPT !.media = TRUE], [r EXCEPT !.pending = TRUE]} :
        /\ s.pc = r.pc /\ s.isNegotiating = r.isNegotiating
        /\ s.queuedNegotiation = r.queuedNegotiation
  BY DEF NegotiationNeeded, Flushed, ConnectionRecord
<1>2. \A s : /\ s.pc = r.pc /\ s.isNegotiating = r.isNegotiating
             /\ s.queuedNegotiation = r.queuedNegotiation
             => Guarded(s, k)
  BY DEF Guarded
<1> QED BY <1>1, <1>2

LEMMA GuardedHandler ==
  ASSUME NegotiationAssumption, TypeOK, PcInv, FlagsInv, Handler, UNCHANGED role
  PROVE  (Initiator /\ Up => Guarded(cr, conn))'
<1> USE DEF handlerEnv, lifeVars
<1>t. /\ cr \in ConnectionRecord /\ cr.pc \in Pcs \cup {NoPc}
      /\ conn \in [Pcs -> PeerConnection]
      /\ handler.pc \in Pcs \cup {NoPc}
      /\ Reset(cr) \in ConnectionRecord /\ Close(conn, cr.pc) \in [Pcs -> PeerConnection]
      /\ Initiator /\ Up => Guarded(cr, conn)
  BY RecordTypes, CloseTypes DEF TypeOK, ConnectionRecord, FlagsInv
<1>r. ResetReturn /\ UNCHANGED closed => (Initiator /\ Up => Guarded(cr, conn))'
  <2>1. Guarded(Reset(cr), Close(conn, cr.pc))
    BY <1>t, GuardedReset
  <2> QED BY <1>t, <2>1, EndGuarded DEF ResetReturn
<1>u. UNCHANGED <<recordVars, closed>> => (Initiator /\ Up => Guarded(cr, conn))'
  BY <1>t DEF recordVars, Up, Initiator
<1>p. Replaced /\ UNCHANGED closed => (Initiator /\ Up => Guarded(cr, conn))'
  BY <1>u DEF Replaced
<1>1. CASE Refuse
  BY <1>1, <1>u DEF Refuse, Receive
<1>2. CASE HandleRenegotiate \/ HandleCandidate \/ HandleTransceiverRequest \/ HandleSDP
  <2>1. PICK m \in ServerMessage :
          LET r == Rebound(cr, m.pcid)
              k == ReboundConn(m.pcid)
          IN /\ UNCHANGED closed
             /\ \/ \E p : Return(r, k, toClient, p)
                \/ \E p : Return(NegotiationNeeded(r), k, toClient, p)
                \/ \E p : Return(Reset(r), k, toClient, p)
                \/ \E p : Return(Reset(r), Close(k, r.pc), toClient, p)
                \/ \E p : Return([r EXCEPT !.pendingCandidates = TRUE], k, toClient, p)
                \/ /\ CanCreate(r) /\ r.pc = NoPc
                   /\ Return(CreatePeerConnection(r, m.pcid), Created(k), toClient, lastPc + 1)
                \/ Leave(r, k, toClient)
    BY <1>2 DEF HandleRenegotiate, HandleCandidate, HandleTransceiverRequest, HandleSDP, Receive
  <2> DEFINE r == Rebound(cr, m.pcid)
             k == ReboundConn(m.pcid)
  <2>2. /\ r \in ConnectionRecord /\ k \in [Pcs -> PeerConnection]
        /\ m.pcid \in 0..MaxRpc
        /\ Initiator /\ Up => Guarded(r, k)
    BY <1>t, ReboundTypes, GuardedRebound DEF ServerMessage
  <2>a. \/ \E p : Return(r, k, toClient, p)
        \/ \E p : Return(NegotiationNeeded(r), k, toClient, p)
        \/ \E p : Return(Reset(r), k, toClient, p)
        \/ \E p : Return(Reset(r), Close(k, r.pc), toClient, p)
        \/ \E p : Return([r EXCEPT !.pendingCandidates = TRUE], k, toClient, p)
        \/ /\ CanCreate(r) /\ r.pc = NoPc
           /\ Return(CreatePeerConnection(r, m.pcid), Created(k), toClient, lastPc + 1)
        \/ Leave(r, k, toClient)
    BY <2>1
  <2> HIDE DEF r, k
  <2>3. /\ NegotiationNeeded(r) \in ConnectionRecord /\ Reset(r) \in ConnectionRecord
        /\ [r EXCEPT !.pendingCandidates = TRUE] \in ConnectionRecord
        /\ Close(k, r.pc) \in [Pcs -> PeerConnection]
    BY <2>2, RecordTypes, CloseTypes DEF ConnectionRecord
  <2>4. /\ Initiator /\ Up => Guarded(NegotiationNeeded(r), k)
        /\ Initiator /\ Up => Guarded([r EXCEPT !.pendingCandidates = TRUE], k)
        /\ \A j : Guarded(Reset(r), j)
    BY <2>2, GuardedFields, GuardedReset
  <2>5. ASSUME CanCreate(r), r.pc = NoPc
        PROVE  /\ CreatePeerConnection(r, m.pcid) \in ConnectionRecord
               /\ Created(k) \in [Pcs -> PeerConnection]
               /\ Initiator /\ Up => Guarded(CreatePeerConnection(r, m.pcid), Created(k))
    BY <2>2, <2>5, CreateTypes, CreateGuarded
  <2>6. UNCHANGED <<closed, role>>
    BY <2>1
  <2>7. ASSUME NEW p, \/ Return(r, k, toClient, p) \/ Leave(r, k, toClient)
                      \/ Return(NegotiationNeeded(r), k, toClient, p)
                      \/ Return([r EXCEPT !.pendingCandidates = TRUE], k, toClient, p)
        PROVE  (Initiator /\ Up => Guarded(cr, conn))'
    BY <2>2, <2>3, <2>4, <2>6, <2>7, EndGuarded
  <2>8. ASSUME NEW p, \/ Return(Reset(r), k, toClient, p)
                      \/ Return(Reset(r), Close(k, r.pc), toClient, p)
        PROVE  (Initiator /\ Up => Guarded(cr, conn))'
    BY <2>2, <2>3, <2>4, <2>6, <2>8, EndGuarded
  <2>9. ASSUME CanCreate(r), r.pc = NoPc,
               Return(CreatePeerConnection(r, m.pcid), Created(k), toClient, lastPc + 1)
        PROVE  (Initiator /\ Up => Guarded(cr, conn))'
    BY <2>5, <2>6, <2>9, EndGuarded
  <2> QED BY <2>a, <2>7, <2>8, <2>9
<1>6. CASE UpdateMedia
  <2>1. [cr EXCEPT !.media = TRUE] \in ConnectionRecord
    BY <1>t DEF ConnectionRecord
  <2>2. Initiator /\ Up => Guarded([cr EXCEPT !.media = TRUE], conn)
    BY <1>t, GuardedFields
  <2>3. CASE Leave([cr EXCEPT !.media = TRUE], conn, toClient)
    BY <1>6, <1>t, <2>1, <2>2, <2>3, EndGuarded DEF UpdateMedia
  <2> QED BY <1>6, <1>r, <1>p, <2>3 DEF UpdateMedia
<1>7. CASE RequestRestart
  <2>1. NegotiationNeeded(cr) \in ConnectionRecord
    BY <1>t, RecordTypes
  <2>2. Initiator /\ Up => Guarded(NegotiationNeeded(cr), conn)
    BY <1>t, GuardedFields
  <2> QED BY <1>7, <1>t, <2>1, <2>2, EndGuarded DEF RequestRestart
<1>8. CASE CreateForSDP
  <2>1. CASE /\ cr.pc = handler.pc
             /\ CanCreate(cr)
             /\ Leave(CreatePeerConnection(cr, NoId), Created(conn), toClient)
    <3>1. cr.pc = NoPc /\ NoId \in 0..MaxRpc
      BY <1>8, <2>1 DEF CreateForSDP, PcInv, NegotiationAssumption, NoId
    <3>2. /\ CreatePeerConnection(cr, NoId) \in ConnectionRecord
          /\ Created(conn) \in [Pcs -> PeerConnection]
          /\ Initiator /\ Up => Guarded(CreatePeerConnection(cr, NoId), Created(conn))
      BY <1>t, <2>1, <3>1, CreateTypes, CreateGuarded
    <3> QED BY <1>8, <2>1, <3>2, EndGuarded DEF CreateForSDP
  <2> QED BY <1>8, <1>r, <1>p, <2>1 DEF CreateForSDP
<1>9. CASE SetRemoteDescription
  <2> DEFINE p == handler.pc
             c == [conn[p] EXCEPT !.signaling = "stable", !.remote = TRUE,
                                  !.stables = conn[p].stables + 1]
             set == [conn EXCEPT ![p] = c]
  <2>1. SUFFICES ASSUME Initiator, wsUp', ~closed', ~ResetReturn
                 PROVE  Guarded(cr', conn')
    BY <1>9, <1>r DEF SetRemoteDescription, Initiator, Up
  <2>2. handler.msg.type # "offer"
    BY <2>1 DEF FlagsInv, NoOffers, Initiator
  <2>3. conn[p].signaling = "have-local-offer" /\ Leave(cr, set, toClient) /\ UNCHANGED closed
    BY <1>9, <2>1, <2>2 DEF SetRemoteDescription
  <2>4. Guarded(cr, conn)
    BY <1>t, <2>1, <2>3 DEF Leave, Up
  <2>5. CASE p = cr.pc /\ p \in Pcs
    <3>1. conn[p] \in PeerConnection
      BY <1>t, <2>5
    <3>2. c.signaling = "stable" /\ c.stables = conn[p].stables + 1
      BY <3>1 DEF PeerConnection
    <3>3. set[cr.pc] = c
      BY <1>t, <2>5
    <3>4. cr.pc # NoPc
      BY <2>5 DEF Pcs, NoPc
    <3>5. cr.isNegotiating /\ conn[p].stables = 0
      BY <2>3, <2>4, <2>5, <3>4 DEF Guarded
    <3> HIDE DEF c, set
    <3>6. set[cr.pc].signaling = "stable" /\ set[cr.pc].stables = 1
      BY <3>2, <3>3, <3>5
    <3>7. Guarded(cr, set)
      BY <3>4, <3>5, <3>6 DEF Guarded
    <3> QED BY <2>3, <3>7 DEF Leave
  <2>6. CASE ~(p = cr.pc /\ p \in Pcs)
    <3>1. cr.pc # NoPc => set[cr.pc] = conn[cr.pc]
      BY <1>t, <2>6
    <3> HIDE DEF set
    <3> QED BY <2>3, <2>4, <3>1 DEF Guarded, Leave
  <2> QED BY <2>5, <2>6
<1>10. CASE ApplyRemoteDescription
  <2>1. SUFFICES ASSUME Initiator, wsUp', ~closed', ~ResetReturn, ~Replaced
                 PROVE  Guarded(cr', conn')
    BY <1>10, <1>r, <1>p DEF ApplyRemoteDescription, Initiator, Up
  <2>2. handler.msg.type # "offer"
    BY <2>1 DEF FlagsInv, NoOffers, Initiator
  <2>3. Leave(Flushed(cr), conn, toClient) /\ UNCHANGED closed
    BY <1>10, <2>1, <2>2 DEF ApplyRemoteDescription
  <2>4. Guarded(cr, conn)
    BY <1>t, <2>1, <2>3 DEF Leave, Up
  <2> QED BY <1>t, <2>3, <2>4, GuardedFields DEF Leave
<1>11. CASE Finish
  BY <1>11, <1>t, EndGuarded DEF Finish
<1> QED BY <1>1, <1>2, <1>6, <1>7, <1>8, <1>9, <1>10, <1>11 DEF Handler

-----------------------------------------------------------------------------
(* The steps and Awake.                                                    *)
LEMMA IdleAwake ==
  ASSUME NEW r \in ConnectionRecord, NEW k, NEW q, NEW p, Return(r, k, q, p),
         r.pc = p \/ (wsUp => ~r.needsNegotiation)
  PROVE  Awake'
<1>1. wsUp' => ~cr'.needsNegotiation
  BY EndAwake
<1> QED BY <1>1 DEF Return, Idle, Awake

LEMMA AwakeHandler ==
  ASSUME NegotiationAssumption, TypeOK, PcInv, FlagsInv, Handler, UNCHANGED role
  PROVE  Awake'
<1> USE DEF handlerEnv
<1>t. /\ cr \in ConnectionRecord /\ cr.pc \in Pcs \cup {NoPc}
      /\ conn \in [Pcs -> PeerConnection]
      /\ handler.pc \in Pcs \cup {NoPc}
      /\ Reset(cr) \in ConnectionRecord
      /\ handler.at # "idle" /\ handler.at # "create" /\ handler.at # "finish" /\ wsUp
           => ~cr.needsNegotiation
      /\ Awake
  BY RecordTypes DEF TypeOK, ConnectionRecord, FlagsInv, Awake
<1>g. \A at, p : Goto(at, p) => handler'.at = at /\ handler'.pc = p
  BY DEF Goto, TypeOK
<1>r. ResetReturn => Awake'
  BY <1>t, GuardedReset, IdleAwake DEF ResetReturn
<1>p. Replaced /\ handler.at # "create" => Awake'
  BY <1>t DEF Replaced, recordVars, Awake, Idle
<1>1. CASE Refuse
  BY <1>1, <1>t DEF Refuse, recordVars, Awake, Initiator
<1>2. CASE HandleRenegotiate \/ HandleCandidate \/ HandleTransceiverRequest \/ HandleSDP
  <2>1. PICK m \in ServerMessage :
          LET r == Rebound(cr, m.pcid)
              k == ReboundConn(m.pcid)
          IN /\ handler.at = "idle" /\ wsUp
             /\ \/ \E p : Return(r, k, toClient, p)
                \/ Return(NegotiationNeeded(r), k, toClient, r.pc)
                \/ \E p, j : Return(Reset(r), j, toClient, p)
                \/ \E p : Return([r EXCEPT !.pendingCandidates = TRUE], k, toClient, p)
                \/ /\ CanCreate(r) /\ r.pc = NoPc
                   /\ Return(CreatePeerConnection(r, m.pcid), Created(k), toClient, lastPc + 1)
                \/ /\ Leave(r, k, toClient)
                   /\ handler' = [at |-> IF ~Initiator THEN "media"
                                         ELSE IF cr.pc = NoPc THEN "restart" ELSE "remote",
                                  pc |-> cr.pc, msg |-> m]
    BY <1>2 DEF HandleRenegotiate, HandleCandidate, HandleTransceiverRequest, HandleSDP, Receive
  <2> DEFINE r == Rebound(cr, m.pcid)
             k == ReboundConn(m.pcid)
  <2>2. /\ r \in ConnectionRecord /\ k \in [Pcs -> PeerConnection] /\ m.pcid \in 0..MaxRpc
        /\ ~r.needsNegotiation
        /\ cr.pc = NoPc => r.pc = NoPc
    <3>1. ~cr.needsNegotiation
      BY <1>t, <2>1 DEF Awake
    <3>2. ~Emptied(cr).needsNegotiation /\ Emptied(cr).pc = NoPc
      BY <1>t, GuardedReset, RecordPc DEF Reset
    <3>3. /\ [cr EXCEPT !.rpcid = m.pcid].needsNegotiation = cr.needsNegotiation
          /\ [cr EXCEPT !.rpcid = m.pcid].pc = cr.pc
      BY <1>t DEF ConnectionRecord
    <3>4. r \in {cr, Emptied(cr), [cr EXCEPT !.rpcid = m.pcid]}
      BY DEF Rebound, ClearPeerConnection
    <3>5. ~r.needsNegotiation /\ (cr.pc = NoPc => r.pc = NoPc)
      <4> HIDE DEF r
      <4> QED BY <3>1, <3>2, <3>3, <3>4
    <3> QED BY <3>5, ReboundTypes DEF ServerMessage
  <2>a. \/ \E p : Return(r, k, toClient, p)
        \/ Return(NegotiationNeeded(r), k, toClient, r.pc)
        \/ \E p, j : Return(Reset(r), j, toClient, p)
        \/ \E p : Return([r EXCEPT !.pendingCandidates = TRUE], k, toClient, p)
        \/ /\ CanCreate(r) /\ r.pc = NoPc
           /\ Return(CreatePeerConnection(r, m.pcid), Created(k), toClient, lastPc + 1)
        \/ /\ Leave(r, k, toClient)
           /\ handler' = [at |-> IF ~Initiator THEN "media"
                                 ELSE IF cr.pc = NoPc THEN "restart" ELSE "remote",
                          pc |-> cr.pc, msg |-> m]
    BY <2>1
  <2> HIDE DEF r, k
  <2>3. ASSUME NEW p, Return(r, k, toClient, p) PROVE Awake'
    BY <2>2, <2>3, IdleAwake
  <2>4. CASE Return(NegotiationNeeded(r), k, toClient, r.pc)
    BY <2>2, <2>4, RecordTypes, RecordPc, IdleAwake
  <2>5. ASSUME NEW p, NEW j, Return(Reset(r), j, toClient, p) PROVE Awake'
    BY <2>2, <2>5, RecordTypes, GuardedReset, IdleAwake
  <2>6. ASSUME NEW p, Return([r EXCEPT !.pendingCandidates = TRUE], k, toClient, p) PROVE Awake'
    <3>1. /\ [r EXCEPT !.pendingCandidates = TRUE] \in ConnectionRecord
          /\ ~[r EXCEPT !.pendingCandidates = TRUE].needsNegotiation
      BY <2>2 DEF ConnectionRecord
    <3> QED BY <2>6, <3>1, IdleAwake
  <2>7. CASE /\ CanCreate(r) /\ r.pc = NoPc
             /\ Return(CreatePeerConnection(r, m.pcid), Created(k), toClient, lastPc + 1)
    <3>1. CreatePeerConnection(r, m.pcid) \in ConnectionRecord
      BY <2>2, <2>7, CreateTypes
    <3>2. CreatePeerConnection(r, m.pcid).pc = lastPc + 1
      BY <2>2 DEF CreatePeerConnection, NegotiationNeeded, ConnectionRecord
    <3> QED BY <2>7, <3>1, <3>2, IdleAwake
  <2>8. CASE /\ Leave(r, k, toClient)
             /\ handler' = [at |-> IF ~Initiator THEN "media"
                                   ELSE IF cr.pc = NoPc THEN "restart" ELSE "remote",
                            pc |-> cr.pc, msg |-> m]
    <3>1. ~cr'.needsNegotiation /\ (cr.pc = NoPc => cr'.pc = NoPc)
      BY <2>2, <2>8 DEF Leave
    <3>2. /\ handler'.at \in {"restart", "create"} => cr'.pc = NoPc
          /\ handler'.at = "restart" => Initiator'
      BY <2>8, <3>1 DEF Initiator
    <3> QED BY <3>1, <3>2 DEF Awake
  <2> QED BY <2>a, <2>3, <2>4, <2>5, <2>6, <2>7, <2>8
<1>6. CASE UpdateMedia
  <2>1. CASE /\ cr.pc = handler.pc
             /\ Leave([cr EXCEPT !.media = TRUE], conn, toClient)
             /\ Goto(IF handler.pc = NoPc THEN "create" ELSE "remote", handler.pc)
    <3>1. cr'.needsNegotiation = cr.needsNegotiation /\ cr'.pc = cr.pc /\ wsUp' = wsUp
      BY <1>t, <2>1 DEF Leave, ConnectionRecord
    <3> QED BY <1>6, <1>t, <1>g, <2>1, <3>1 DEF UpdateMedia, Awake
  <2> QED BY <1>6, <1>r, <1>p, <2>1 DEF UpdateMedia
<1>7. CASE RequestRestart
  <2>1. cr'.pc = NoPc /\ Initiator'
    BY <1>7, <1>t, RecordPc DEF RequestRestart, Leave, Awake, Initiator
  <2> QED BY <1>7, <1>g, <2>1 DEF RequestRestart, Awake
<1>8. CASE CreateForSDP
  <2>1. cr.pc = handler.pc
    BY <1>8, <1>t DEF CreateForSDP, PcInv, Awake
  <2>2. CASE /\ Leave(CreatePeerConnection(cr, NoId), Created(conn), toClient)
             /\ Goto(IF Initiator THEN "finish" ELSE "remote", lastPc + 1)
    <3>1. /\ CreatePeerConnection(cr, NoId).pc = lastPc + 1
          /\ ~Initiator => CreatePeerConnection(cr, NoId).needsNegotiation = cr.needsNegotiation
      BY <1>t DEF CreatePeerConnection, NegotiationNeeded, ConnectionRecord
    <3>2. ~Initiator /\ wsUp => ~cr.needsNegotiation
      BY <1>8, <1>t DEF CreateForSDP, Awake
    <3> QED BY <1>g, <2>2, <3>1, <3>2 DEF Leave, Awake
  <2> QED BY <1>8, <1>r, <2>1, <2>2 DEF CreateForSDP, Replaced
<1>9. CASE SetRemoteDescription
  <2>1. CASE UNCHANGED <<cr, wsUp>> /\ Goto("local", handler.pc)
    BY <1>9, <1>t, <1>g, <2>1 DEF SetRemoteDescription, Awake
  <2> QED BY <1>9, <1>r, <2>1 DEF SetRemoteDescription, Leave
<1>10. CASE ApplyRemoteDescription
  <2> DEFINE r == Flushed(cr)
             added == NegotiationNeeded([r EXCEPT !.pending = FALSE])
  <2>1. CASE ~(ResetReturn \/ Replaced)
    <3>1. /\ Goto("finish", handler.pc) /\ cr.pc = handler.pc
          /\ \/ Leave(r, conn, toClient)
             \/ CreateAnswer(r, conn, toClient)
             \/ CreateAnswer(added, conn, toClient)
      BY <1>10, <2>1 DEF ApplyRemoteDescription
    <3>2. r \in ConnectionRecord /\ added \in ConnectionRecord /\ r.pc = cr.pc /\ added.pc = cr.pc
      <4>1. r \in ConnectionRecord /\ r.pc = cr.pc
        BY <1>t, RecordTypes, RecordPc
      <4>2. [r EXCEPT !.pending = FALSE] \in ConnectionRecord /\ [r EXCEPT !.pending = FALSE].pc = r.pc
        BY <4>1 DEF ConnectionRecord
      <4> QED BY <4>1, <4>2, RecordTypes, RecordPc
    <3> HIDE DEF r, added
    <3>3. cr' \in {r, RequestMissingTransceivers(r), RequestMissingTransceivers(added)}
      BY <3>1 DEF CreateAnswer, Leave, Fail
    <3>4. \A s \in ConnectionRecord : RequestMissingTransceivers(s).pc = s.pc
      BY DEF RequestMissingTransceivers, ConnectionRecord
    <3>5. cr'.pc = handler.pc
      BY <3>1, <3>2, <3>3, <3>4
    <3> QED BY <1>g, <3>1, <3>5 DEF Awake
  <2> QED BY <1>10, <1>r, <1>p, <2>1 DEF ApplyRemoteDescription
<1>11. CASE Finish
  <2>1. cr.pc = handler.pc \/ (wsUp => ~cr.needsNegotiation)
    BY <1>11, <1>t DEF Finish, Awake
  <2> QED BY <1>11, <1>t, <2>1, IdleAwake DEF Finish
<1> QED BY <1>1, <1>2, <1>6, <1>7, <1>8, <1>9, <1>10, <1>11 DEF Handler

-----------------------------------------------------------------------------
(* The other goroutines: they leave the handler alone, and clear the       *)
(* record, change a peer connection or run one critical section.           *)
LEMMA OtherStep ==
  ASSUME NegotiationAssumption, TypeOK, FlagsInv, UNCHANGED <<role, handler, closed>>,
         NEW r \in ConnectionRecord, NEW k \in [Pcs -> PeerConnection], NEW q,
         Initiator /\ Up => Guarded(r, k),
         r.pc \in {NoPc, cr.pc} \/ handler.at = "idle",
         \/ MaybeNegotiateAndUnlock(r, k, q) \/ Fail(r, k, q)
         \/ Leave(r, k, q) /\ (~r.needsNegotiation \/ r = cr)
  PROVE  (Initiator /\ Up => Guarded(cr, conn))' /\ Awake'
<1>1. (Initiator /\ Up => Guarded(cr, conn))'
  BY EndGuarded
<1>2. cr'.pc = r.pc
  BY PcNegotiate DEF Leave, Fail
<1>3. CASE \/ MaybeNegotiateAndUnlock(r, k, q)
           \/ Fail(r, k, q)
           \/ Leave(r, k, q) /\ ~r.needsNegotiation
  <2>1. wsUp' => ~cr'.needsNegotiation
    BY <1>3, EndAwake
  <2> QED BY <1>1, <1>2, <2>1 DEF FlagsInv, Awake, Initiator
<1>4. CASE Leave(r, k, q) /\ r = cr
  BY <1>1, <1>4 DEF Leave, FlagsInv, Awake, Initiator
<1> QED BY <1>3, <1>4

LEMMA OtherReset ==
  ASSUME NegotiationAssumption, TypeOK, FlagsInv, UNCHANGED <<role, handler, closed>>,
         NEW k \in [Pcs -> PeerConnection], NEW p \in Pcs \cup {NoPc},
         Leave(Reset(cr), Close(k, p), toClient)
  PROVE  (Initiator /\ Up => Guarded(cr, conn))' /\ Awake'
<1>1. /\ cr \in ConnectionRecord /\ Reset(cr) \in ConnectionRecord /\ Reset(cr).pc = NoPc
      /\ Close(k, p) \in [Pcs -> PeerConnection]
      /\ Guarded(Reset(cr), Close(k, p)) /\ ~Reset(cr).needsNegotiation
  BY RecordTypes, RecordPc, GuardedReset, CloseTypes DEF TypeOK
<1> QED BY <1>1, OtherStep

(* What happens to another peer connection, or leaves the signaling state  *)
(* and the callbacks of the record's own alone, or closes it.              *)
LEMMA OtherConn ==
  ASSUME NegotiationAssumption, TypeOK, FlagsInv, UNCHANGED <<role, handler, closed>>,
         NEW k \in [Pcs -> PeerConnection], Leave(cr, k, toClient),
         cr.pc # NoPc => \/ k[cr.pc].signaling = "closed"
                         \/ /\ k[cr.pc].signaling = conn[cr.pc].signaling
                            /\ k[cr.pc].stables = conn[cr.pc].stables
  PROVE  (Initiator /\ Up => Guarded(cr, conn))' /\ Awake'
<1>1. cr \in ConnectionRecord /\ (Initiator /\ Up => Guarded(cr, conn))
  BY DEF TypeOK, FlagsInv
<1>2. Initiator /\ Up => Guarded(cr, k)
  BY <1>1, GuardedSame
<1> QED BY <1>1, <1>2, OtherStep

LEMMA FlagsOther ==
  ASSUME NegotiationAssumption, TypeOK, PcInv, FlagsInv, UNCHANGED role,
         \/ Remote \/ ClientExtra \/ ClientRestart
         \/ \E p \in Pcs : \/ OnStable(p) \/ Destroy(p) \/ ConnectionFails(p)
                           \/ WatcherTimeout(p) \/ DataChannelClose(p)
         \/ Resurrect \/ TrackChange \/ WriteFails \/ UserCloses \/ CloseReset \/ Stop
  PROVE  (Initiator /\ Up => Guarded(cr, conn))' /\ Awake'
<1> USE DEF otherEnv, handlerEnv, lifeVars
<1>t. /\ cr \in ConnectionRecord /\ cr.pc \in Pcs \cup {NoPc}
      /\ conn \in [Pcs -> PeerConnection]
      /\ \A p \in Pcs : conn[p] \in PeerConnection
      /\ Initiator /\ Up => Guarded(cr, conn)
      /\ Awake
  BY DEF TypeOK, ConnectionRecord, FlagsInv
<1>1. CASE Remote \/ ClientExtra \/ ClientRestart
  BY <1>1, <1>t DEF Remote, ClientReceive, ClientOffer, ClientExtra, ClientRestart, clientEnv,
                    Initiator, Up, Awake
<1>2. CASE UserCloses \/ Stop
  BY <1>2, <1>t DEF UserCloses, Stop, recordVars, Initiator, Up, Awake
<1>3. ASSUME NEW p \in Pcs, OnStable(p)
      PROVE  (Initiator /\ Up => Guarded(cr, conn))' /\ Awake'
  <2> DEFINE run == [conn EXCEPT ![p] = [@ EXCEPT !.stables = conn[p].stables - 1]]
             done == [cr EXCEPT !.isNegotiating = FALSE, !.queuedNegotiation = FALSE,
                         !.needsNegotiation = IF cr.queuedNegotiation THEN TRUE ELSE @]
             s == IF cr.isNegotiating THEN done ELSE cr
  <2>1. /\ run \in [Pcs -> PeerConnection]
        /\ run[p].signaling = conn[p].signaling /\ run[p].stables = conn[p].stables - 1
        /\ \A i \in Pcs : i # p => run[i] = conn[i]
        /\ conn[p].stables \in Nat /\ conn[p].stables > 0
    BY <1>3, <1>t, EventTypes DEF OnStable, PeerConnection
  <2>2. /\ done \in ConnectionRecord /\ done.pc = cr.pc
        /\ ~done.isNegotiating /\ ~done.queuedNegotiation
    <3>1. (IF cr.queuedNegotiation THEN TRUE ELSE cr.needsNegotiation) \in BOOLEAN
      BY <1>t DEF ConnectionRecord
    <3>2. \A b \in BOOLEAN :
            /\ [cr EXCEPT !.isNegotiating = FALSE, !.queuedNegotiation = FALSE,
                          !.needsNegotiation = b] \in ConnectionRecord
            /\ [cr EXCEPT !.isNegotiating = FALSE, !.queuedNegotiation = FALSE,
                          !.needsNegotiation = b].pc = cr.pc
            /\ ~[cr EXCEPT !.isNegotiating = FALSE, !.queuedNegotiation = FALSE,
                          !.needsNegotiation = b].isNegotiating
            /\ ~[cr EXCEPT !.isNegotiating = FALSE, !.queuedNegotiation = FALSE,
                          !.needsNegotiation = b].queuedNegotiation
      BY <1>t DEF ConnectionRecord
    <3> QED BY <3>1, <3>2
  <2>3. /\ UNCHANGED <<handler, closed>>
        /\ \/ Leave(cr, run, toClient) /\ (closed \/ cr.pc # p)
           \/ MaybeNegotiateAndUnlock(s, run, toClient) /\ cr.pc = p
    BY <1>3 DEF OnStable
  <2> HIDE DEF run, done
  <2>4. s \in ConnectionRecord /\ s.pc = cr.pc
    BY <1>t, <2>2
  <2>5. ASSUME cr.pc # p PROVE Initiator /\ Up => Guarded(cr, run)
    <3>1. cr.pc # NoPc => run[cr.pc] = conn[cr.pc]
      BY <1>t, <2>1, <2>5
    <3> QED BY <1>t, <3>1 DEF Guarded
  <2>6. ASSUME cr.pc = p, Initiator, Up PROVE Guarded(s, run)
    <3>1. p # NoPc /\ Guarded(cr, conn)
      BY <1>t, <2>6 DEF Pcs, NoPc
    <3>2. CASE conn[p].signaling = "closed"
      BY <2>1, <2>2, <2>6, <3>1, <3>2 DEF Guarded
    <3>3. CASE conn[p].signaling # "closed"
      <4>1. conn[p].stables = 1 /\ cr.isNegotiating /\ conn[p].signaling # "have-local-offer"
        BY <2>1, <2>6, <3>1, <3>3 DEF Guarded
      <4>2. run[p].stables = 0 /\ run[p].signaling # "have-local-offer"
        BY <2>1, <4>1
      <4> QED BY <2>2, <2>6, <3>1, <4>1, <4>2 DEF Guarded
    <3> QED BY <3>2, <3>3
  <2> HIDE DEF s
  <2>7. CASE Leave(cr, run, toClient) /\ closed
    BY <1>t, <2>3, <2>7 DEF Leave, Up, Awake, Initiator
  <2>8. CASE Leave(cr, run, toClient) /\ cr.pc # p
    BY <1>t, <2>1, <2>3, <2>5, <2>8, OtherStep
  <2>9. CASE MaybeNegotiateAndUnlock(s, run, toClient) /\ cr.pc = p
    BY <2>1, <2>3, <2>4, <2>6, <2>9, OtherStep
  <2> QED BY <2>3, <2>7, <2>8, <2>9
<1>4. ASSUME NEW p \in Pcs, Destroy(p)
      PROVE  (Initiator /\ Up => Guarded(cr, conn))' /\ Awake'
  <2> DEFINE run == [conn EXCEPT ![p] = [@ EXCEPT !.destroys = conn[p].destroys - 1]]
  <2>1. /\ run \in [Pcs -> PeerConnection]
        /\ \A i \in Pcs : /\ run[i].signaling = conn[i].signaling
                          /\ run[i].stables = conn[i].stables
    BY <1>4, <1>t, EventTypes DEF Destroy, PeerConnection
  <2>2. /\ \/ Leave(cr, run, toClient)
           \/ Leave(Reset(cr), Close(run, cr.pc), toClient)
        /\ UNCHANGED <<handler, closed>>
    BY <1>4 DEF Destroy
  <2> HIDE DEF run
  <2> QED BY <1>t, <2>1, <2>2, OtherConn, OtherReset
<1>5. ASSUME NEW p \in Pcs, ConnectionFails(p)
      PROVE  (Initiator /\ Up => Guarded(cr, conn))' /\ Awake'
  <2> DEFINE run == [conn EXCEPT ![p] = [@ EXCEPT !.destroys = conn[p].destroys + 1]]
  <2>1. /\ run \in [Pcs -> PeerConnection]
        /\ \A i \in Pcs : /\ run[i].signaling = conn[i].signaling
                          /\ run[i].stables = conn[i].stables
    BY <1>t, EventTypes DEF PeerConnection
  <2>2. Leave(cr, run, toClient) /\ UNCHANGED <<handler, closed>>
    BY <1>5 DEF ConnectionFails, Fault
  <2> HIDE DEF run
  <2> QED BY <1>t, <2>1, <2>2, OtherConn
<1>6. ASSUME NEW p \in Pcs, WatcherTimeout(p)
      PROVE  (Initiator /\ Up => Guarded(cr, conn))' /\ Awake'
  <2>1. /\ Close(conn, p) \in [Pcs -> PeerConnection]
        /\ \A i \in Pcs : \/ Close(conn, p)[i].signaling = "closed"
                          \/ Close(conn, p)[i] = conn[i]
    <3>1. Close(conn, p) \in [Pcs -> PeerConnection]
      BY <1>t, CloseTypes
    <3>2. \/ Close(conn, p) = conn
          \/ Close(conn, p) = [conn EXCEPT ![p] =
                [conn[p] EXCEPT !.signaling = "closed", !.changed = FALSE,
                                !.failed = FALSE, !.destroys = conn[p].destroys + 2]]
      BY DEF Close
    <3>3. [conn[p] EXCEPT !.signaling = "closed", !.changed = FALSE, !.failed = FALSE,
                          !.destroys = conn[p].destroys + 2].signaling = "closed"
      BY <1>t DEF PeerConnection
    <3> QED BY <1>t, <3>1, <3>2, <3>3
  <2>2. Leave(cr, Close(conn, p), toClient) /\ UNCHANGED <<handler, closed>>
    BY <1>6 DEF WatcherTimeout, Fault
  <2> QED BY <1>t, <2>1, <2>2, OtherConn
<1>7. ASSUME NEW p \in Pcs, DataChannelClose(p)
      PROVE  (Initiator /\ Up => Guarded(cr, conn))' /\ Awake'
  BY <1>7, <1>t, OtherReset DEF DataChannelClose, Fault
<1>8. CASE Resurrect
  <2>1. NoId \in 0..MaxRpc
    BY DEF NegotiationAssumption, NoId
  <2>2. ASSUME CanCreate(cr), cr.pc = NoPc
        PROVE  /\ CreatePeerConnection(cr, NoId) \in ConnectionRecord
               /\ Created(conn) \in [Pcs -> PeerConnection]
               /\ Initiator /\ Up => Guarded(CreatePeerConnection(cr, NoId), Created(conn))
    BY <1>t, <2>1, <2>2, CreateTypes, CreateGuarded
  <2>3. /\ NegotiationNeeded(cr) \in ConnectionRecord
        /\ Initiator /\ Up => Guarded(NegotiationNeeded(cr), conn)
    BY <1>t, RecordTypes, GuardedFields
  <2>4. /\ UNCHANGED <<handler, closed>> /\ handler.at = "idle"
        /\ \/ /\ CanCreate(cr) /\ cr.pc = NoPc
              /\ MaybeNegotiateAndUnlock(CreatePeerConnection(cr, NoId), Created(conn), toClient)
           \/ MaybeNegotiateAndUnlock(NegotiationNeeded(cr), conn, toClient)
    BY <1>8 DEF Resurrect
  <2> QED BY <1>t, <2>2, <2>3, <2>4, OtherStep
<1>9. CASE TrackChange
  <2> DEFINE changed == [conn EXCEPT ![cr.pc] = [@ EXCEPT !.changed = TRUE]]
             needed == NegotiationNeeded(cr)
             lacking == [needed EXCEPT !.missing = IF Initiator THEN @ ELSE TRUE]
             waiting == [needed EXCEPT !.pending = TRUE]
             failing == [cr EXCEPT !.pending = TRUE]
  <2>1. changed \in [Pcs -> PeerConnection] /\ (Initiator /\ Up => Guarded(cr, changed))
    <3>1. CASE cr.pc \in Pcs
      <4>1. changed \in [Pcs -> PeerConnection]
        BY <1>t, <3>1, EventTypes
      <4>2. /\ changed[cr.pc].signaling = conn[cr.pc].signaling
            /\ changed[cr.pc].stables = conn[cr.pc].stables
        BY <1>t, <3>1 DEF PeerConnection
      <4> HIDE DEF changed
      <4> QED BY <1>t, <4>1, <4>2, GuardedSame
    <3>2. CASE cr.pc \notin Pcs
      BY <1>t, <3>2
    <3> QED BY <3>1, <3>2
  <2>2. \A x \in {lacking, waiting, failing} :
          /\ x \in ConnectionRecord
          /\ x.pc = cr.pc /\ x.isNegotiating = cr.isNegotiating
          /\ x.queuedNegotiation = cr.queuedNegotiation
    <3>1. /\ needed \in ConnectionRecord
          /\ needed.pc = cr.pc /\ needed.isNegotiating = cr.isNegotiating
          /\ needed.queuedNegotiation = cr.queuedNegotiation
      BY <1>t, RecordTypes DEF NegotiationNeeded, ConnectionRecord
    <3> HIDE DEF needed
    <3> QED BY <1>t, <3>1 DEF ConnectionRecord
  <2>3. /\ UNCHANGED <<handler, closed>>
        /\ \E q : \/ MaybeNegotiateAndUnlock(cr, conn, q)
                  \/ MaybeNegotiateAndUnlock(lacking, changed, q)
                  \/ MaybeNegotiateAndUnlock(waiting, conn, q)
                  \/ Fail(failing, conn, q)
    BY <1>9 DEF TrackChange
  <2> HIDE DEF changed, lacking, waiting, failing
  <2>4. \A x \in {lacking, waiting, failing} :
          Initiator /\ Up => Guarded(x, conn) /\ Guarded(x, changed)
    BY <1>t, <2>1, <2>2 DEF Guarded
  <2>5. ASSUME NEW q, \/ MaybeNegotiateAndUnlock(cr, conn, q)
                      \/ MaybeNegotiateAndUnlock(waiting, conn, q)
                      \/ Fail(failing, conn, q)
        PROVE  (Initiator /\ Up => Guarded(cr, conn))' /\ Awake'
    BY <1>t, <2>2, <2>3, <2>4, <2>5, OtherStep
  <2>6. ASSUME NEW q, MaybeNegotiateAndUnlock(lacking, changed, q)
        PROVE  (Initiator /\ Up => Guarded(cr, conn))' /\ Awake'
    BY <2>1, <2>2, <2>3, <2>4, <2>6, OtherStep
  <2> QED BY <2>3, <2>5, <2>6
<1>10. CASE WriteFails \/ CloseReset
  BY <1>10, <1>t, OtherReset DEF WriteFails, Fault, CloseReset
<1> QED BY <1>1, <1>2, <1>3, <1>4, <1>5, <1>6, <1>7, <1>8, <1>9, <1>10

LEMMA FlagsInit ==
  ASSUME NegotiationAssumption, Init PROVE FlagsInv
<1>1. cr.pc = NoPc /\ ~cr.queuedNegotiation /\ ~cr.needsNegotiation /\ handler = Idle
  BY DEF Init, NewConnectionRecord
<1>2. Guarded(cr, conn) /\ Awake
  BY <1>1 DEF Guarded, Awake, Idle
<1>3. NoOffers
  BY <1>1 DEF Init, NoOffers, Message, Idle
<1> QED BY <1>2, <1>3 DEF FlagsInv

-----------------------------------------------------------------------------
(* The flags always say how far the negotiation is.                        *)
THEOREM FlagsCorrect == Spec => [](TypeOK /\ PcInv /\ FlagsInv)
<1> DEFINE IInv == TypeOK /\ PcInv /\ FlagsInv
<1>1. Init => IInv
  BY NegotiationAssumption, InitTypes, PcInit, FlagsInit
<1>2. IInv /\ [Next]_vars => IInv'
  <2>1. IInv /\ Next => PcInv' /\ FlagsInv'
    <3> SUFFICES ASSUME IInv, Next PROVE PcInv' /\ FlagsInv'
      OBVIOUS
    <3>1. NoOffers'
      BY NegotiationAssumption, NoOffersStep DEF FlagsInv
    <3>2. PcInv'
      BY NegotiationAssumption, PcHandler, PcOther DEF Next
    <3>3. (Initiator /\ Up => Guarded(cr, conn))' /\ Awake'
      BY NegotiationAssumption, GuardedHandler, AwakeHandler, FlagsOther DEF Next
    <3> QED BY <3>1, <3>2, <3>3 DEF FlagsInv
  <2>2. IInv /\ UNCHANGED vars => PcInv' /\ FlagsInv'
    BY DEF vars, recordVars, lifeVars, clientVars, PcInv, FlagsInv, NoOffers, Awake, Guarded,
           Up, Initiator
  <2>3. TypeOK /\ [Next]_vars => TypeOK'
    BY NegotiationAssumption, StepTypes
  <2> QED BY <2>1, <2>2, <2>3
<1> QED BY <1>1, <1>2, PTL DEF Spec

(* A request in the needsNegotiation channel is the handler's own and is   *)
(* taken out at its end: every other critical section that makes one ends  *)
(* in maybeNegotiateAndUnlock, which leaves none.                          *)
THEOREM WakeupsAreServed == Spec => []NoLostWakeup
<1>1. FlagsInv => NoLostWakeup
  BY DEF FlagsInv, Awake, NoLostWakeup
<1> QED BY <1>1, FlagsCorrect, PTL

(* On the initiator's side isNegotiating covers an offer from the moment   *)
(* it is made until the callback of its answer has run, and a request that *)
(* waits behind a negotiation has one of the two to wait for.              *)
THEOREM OffersAreGuarded == Spec => []OfferGuarded
<1>1. TypeOK /\ FlagsInv => OfferGuarded
  <2> SUFFICES ASSUME TypeOK, FlagsInv, Initiator, Live
               PROVE  /\ conn[cr.pc].signaling = "have-local-offer" \/ conn[cr.pc].stables > 0
                           => cr.isNegotiating
                      /\ conn[cr.pc].signaling = "have-local-offer" => conn[cr.pc].stables = 0
                      /\ cr.queuedNegotiation =>
                           /\ cr.isNegotiating
                           /\ conn[cr.pc].signaling = "have-local-offer" \/ conn[cr.pc].stables > 0
    BY DEF OfferGuarded
  <2>1. Guarded(cr, conn)
    BY DEF FlagsInv, Live, Up
  <2> QED BY <2>1 DEF Guarded, Live
<1> QED BY <1>1, FlagsCorrect, PTL

-----------------------------------------------------------------------------
(***************************************************************************)
(* Nothing that is to reach the remote's description is left behind: the   *)
(* changes of the tracks and the candidates.                               *)
(***************************************************************************)

Ongoing == wsUp /\ ~removed /\ ~closed

(* The remote has been asked for an offer, or its offer is on its way.     *)
Asked(q) == \E i \in 1..Len(q) : q[i] \in {"renegotiate", "transceiver"}
OfferOnItsWay ==
  \/ client.owes
  \/ \E i \in 1..Len(toServer) : toServer[i].type = "offer"
  \/ handler.at \in {"media", "create", "remote", "local"} /\ handler.msg.type = "offer"

ChangeServed(r, k, q, a) ==
  r.pc # NoPc /\ k[r.pc].signaling # "closed" /\ k[r.pc].changed /\ ~k[r.pc].failed =>
    \/ r.needsNegotiation \/ r.queuedNegotiation
    \/ ~Initiator /\ (Asked(q) \/ a)

CandidatesWait(r, k, b) ==
  r.pc # NoPc /\ k[r.pc].remote /\ r.pendingCandidates => b

(* While the handler is at work nobody else gives the record a peer        *)
(* connection, and candidates wait only for the handler that goes on.      *)
ServedInv ==
  /\ handler.at # "idle" => cr.pc \in {NoPc, handler.pc}
  /\ Ongoing => ChangeServed(cr, conn, toClient, OfferOnItsWay)
  /\ CandidatesWait(cr, conn, handler.at = "local" /\ handler.pc = cr.pc)

-----------------------------------------------------------------------------
LEMMA AskedKept ==
  ASSUME NEW q \in Seq(ClientMessage), NEW x \in ClientMessage,
         NEW s \in Seq(ClientMessage)
  PROVE  /\ Asked(q) => Asked(Append(q, x)) /\ Asked(q \o s)
         /\ x \in {"renegotiate", "transceiver"} => Asked(Append(q, x))
         /\ q # <<>> /\ Asked(q) =>
              Head(q) \in {"renegotiate", "transceiver"} \/ Asked(Tail(q))
<1>1. /\ Len(q) \in Nat /\ Len(s) \in Nat /\ Len(Append(q, x)) = Len(q) + 1
      /\ Len(q \o s) = Len(q) + Len(s)
  OBVIOUS
<1>2. \A i \in 1..Len(q) : i \in 1..Len(q) + 1 /\ i \in 1..Len(q) + Len(s)
  BY <1>1
<1>3. \A i \in 1..Len(q) : Append(q, x)[i] = q[i] /\ (q \o s)[i] = q[i]
  OBVIOUS
<1>4. Asked(q) => Asked(Append(q, x)) /\ Asked(q \o s)
  BY <1>1, <1>2, <1>3 DEF Asked
<1>5. Append(q, x)[Len(q) + 1] = x /\ Len(q) + 1 \in 1..Len(q) + 1
  BY <1>1
<1>6. x \in {"renegotiate", "transceiver"} => Asked(Append(q, x))
  BY <1>1, <1>5 DEF Asked
<1>7. ASSUME q # <<>>, Asked(q), Head(q) \notin {"renegotiate", "transceiver"}
      PROVE  Asked(Tail(q))
  <2>1. PICK i \in 1..Len(q) : q[i] \in {"renegotiate", "transceiver"}
    BY <1>7 DEF Asked
  <2>2. i # 1
    BY <1>7, <2>1
  <2>3. Len(Tail(q)) = Len(q) - 1 /\ i - 1 \in 1..Len(Tail(q)) /\ Tail(q)[i - 1] = q[i]
    BY <1>1, <1>7, <2>1, <2>2
  <2> QED BY <2>1, <2>3 DEF Asked
<1> QED BY <1>4, <1>6, <1>7

LEMMA OffersKept ==
  ASSUME NEW s \in Seq(ServerMessage)
  PROVE  /\ \A m \in ServerMessage :
              /\ (\E i \in 1..Len(s) : s[i].type = "offer") =>
                   \E i \in 1..Len(Append(s, m)) : Append(s, m)[i].type = "offer"
              /\ m.type = "offer" =>
                   \E i \in 1..Len(Append(s, m)) : Append(s, m)[i].type = "offer"
         /\ s # <<>> /\ (\E i \in 1..Len(s) : s[i].type = "offer") =>
              \/ Head(s).type = "offer"
              \/ \E i \in 1..Len(Tail(s)) : Tail(s)[i].type = "offer"
<1>1. ASSUME NEW m \in ServerMessage
      PROVE  /\ (\E i \in 1..Len(s) : s[i].type = "offer") =>
                  \E i \in 1..Len(Append(s, m)) : Append(s, m)[i].type = "offer"
             /\ m.type = "offer" =>
                  \E i \in 1..Len(Append(s, m)) : Append(s, m)[i].type = "offer"
  <2>1. Len(s) \in Nat /\ Len(Append(s, m)) = Len(s) + 1
    OBVIOUS
  <2>2. \A i \in 1..Len(s) : i \in 1..Len(s) + 1 /\ Append(s, m)[i] = s[i]
    BY <2>1
  <2>3. Append(s, m)[Len(s) + 1] = m /\ Len(s) + 1 \in 1..Len(s) + 1
    BY <2>1
  <2> QED BY <2>1, <2>2, <2>3
<1>2. ASSUME s # <<>>, NEW i \in 1..Len(s), s[i].type = "offer", Head(s).type # "offer"
      PROVE  \E j \in 1..Len(Tail(s)) : Tail(s)[j].type = "offer"
  <2>1. i # 1
    BY <1>2
  <2>2. Len(Tail(s)) = Len(s) - 1 /\ i - 1 \in 1..Len(Tail(s)) /\ Tail(s)[i - 1] = s[i]
    BY <1>2, <2>1
  <2> QED BY <1>2, <2>2
<1> QED BY <1>1, <1>2

(* ChangeServed and CandidatesWait depend on little of the record and of   *)
(* its peer connection.                                                    *)
LEMMA ServedSame ==
  ASSUME NEW r, NEW s, NEW k, NEW j, NEW q, NEW a, NEW b, s.pc = r.pc,
         r.pc # NoPc => /\ j[r.pc].signaling = "closed" <=> k[r.pc].signaling = "closed"
                        /\ j[r.pc].changed = k[r.pc].changed
                        /\ j[r.pc].failed = k[r.pc].failed
                        /\ j[r.pc].remote = k[r.pc].remote
  PROVE  /\ /\ ChangeServed(r, k, q, a)
            /\ r.needsNegotiation => s.needsNegotiation \/ s.queuedNegotiation
            /\ r.queuedNegotiation => s.needsNegotiation \/ s.queuedNegotiation
            => ChangeServed(s, j, q, a)
         /\ /\ CandidatesWait(r, k, b)
            /\ s.pendingCandidates => r.pendingCandidates
            => CandidatesWait(s, j, b)
  BY DEF ChangeServed, CandidatesWait

LEMMA ServedNone ==
  ASSUME NEW r, r.pc = NoPc, NEW k, NEW q, NEW a, NEW b
  PROVE  ChangeServed(r, k, q, a) /\ CandidatesWait(r, k, b)
  BY DEF ChangeServed, CandidatesWait

LEMMA NegotiateServed ==
  ASSUME NegotiationAssumption, NEW r \in ConnectionRecord,
         NEW k \in [Pcs -> PeerConnection], NEW q \in Seq(ClientMessage), NEW a, NEW b,
         MaybeNegotiateAndUnlock(r, k, q)
  PROVE  /\ cr'.pc = r.pc
         /\ wsUp' => wsUp
         /\ wsUp' /\ ChangeServed(r, k, q, a) => ChangeServed(cr', conn', toClient', a)
         /\ CandidatesWait(r, k, b) => CandidatesWait(cr', conn', b)
<1>1. CASE Leave(r, k, q)
  BY <1>1 DEF Leave
<1>2. CASE r.needsNegotiation /\ Negotiate([r EXCEPT !.needsNegotiation = FALSE], k, q)
  <2> DEFINE s == [r EXCEPT !.needsNegotiation = FALSE]
             t == Negotiating(s)
             u == Queued(t)
             v == Queued(s)
  <2>1. /\ s.pc = r.pc /\ t.pc = r.pc /\ u.pc = r.pc /\ v.pc = r.pc
        /\ r.pc \in Pcs \cup {NoPc}
        /\ s.pendingCandidates = r.pendingCandidates
        /\ t.pendingCandidates = r.pendingCandidates
        /\ u.pendingCandidates = r.pendingCandidates
        /\ u.queuedNegotiation
        /\ "renegotiate" \in ClientMessage
    BY DEF ConnectionRecord, Negotiating, Queued, ClientMessage
  <2> HIDE DEF s, t, u
  <2>2. CASE s.pc = NoPc /\ Leave(t, k, q)
    BY <2>1, <2>2, ServedNone DEF Leave
  <2>3. CASE Leave(u, k, q)
    BY <2>1, <2>3 DEF Leave, ChangeServed, CandidatesWait
  <2>4. CASE ~Initiator /\ Leave(t, k, Append(q, "renegotiate"))
    <3>1. Asked(Append(q, "renegotiate"))
      BY <2>1, AskedKept
    <3> QED BY <2>1, <2>4, <3>1 DEF Leave, ChangeServed, CandidatesWait
  <2>5. CASE ~Initiator /\ Fail(s, k, q)
    BY <2>1, <2>5 DEF Fail, CandidatesWait
  <2>6. CASE s.pc # NoPc /\ CreateOffer(s, k, q)
    <3> DEFINE offered == [k EXCEPT ![s.pc] = [@ EXCEPT !.signaling = "have-local-offer",
                                                        !.changed = FALSE]]
               fails == [k EXCEPT ![s.pc] = [@ EXCEPT !.failed = TRUE]]
    <3>1. s.pc \in Pcs
      BY <2>1, <2>6
    <3>2. /\ ~offered[s.pc].changed /\ offered[s.pc].remote = k[s.pc].remote
          /\ fails[s.pc].failed /\ fails[s.pc].remote = k[s.pc].remote
      BY <3>1 DEF PeerConnection
    <3> HIDE DEF offered, fails
    <3>3. \/ Leave(t, offered, Append(q, "offer"))
          \/ Fail(s, offered, q)
          \/ wsUp' = wsUp /\ Leave(s, fails, q)
      BY <2>6 DEF CreateOffer, offered, fails, t, Leave
    <3>4. wsUp' => wsUp
      BY <3>3 DEF Leave, Fail
    <3> QED BY <2>1, <3>2, <3>3, <3>4 DEF Leave, Fail, ChangeServed, CandidatesWait
  <2> QED BY <1>2, <2>1, <2>2, <2>3, <2>4, <2>5, <2>6 DEF Negotiate, s, t, u, Leave, Fail
<1> QED BY <1>1, <1>2 DEF MaybeNegotiateAndUnlock

(* What a critical section that ends with r, k and q has to see to.        *)
LEMMA EndServed ==
  ASSUME NegotiationAssumption, NEW r \in ConnectionRecord,
         NEW k \in [Pcs -> PeerConnection], NEW q \in Seq(ClientMessage), NEW p,
         Return(r, k, q, p) \/ Leave(r, k, q) \/ Fail(r, k, q)
           \/ MaybeNegotiateAndUnlock(r, k, q),
         role' = role, removed => removed', closed => closed',
         handler'.at # "idle" => r.pc \in {NoPc, handler'.pc},
         Ongoing /\ ~removed' => ChangeServed(r, k, q, OfferOnItsWay'),
         CandidatesWait(r, k, handler'.at = "local" /\ handler'.pc = r.pc)
  PROVE  ServedInv'
<1> DEFINE a == OfferOnItsWay'
           b == handler'.at = "local" /\ handler'.pc = r.pc
<1> HIDE DEF a, b
<1>1. /\ cr'.pc = r.pc
      /\ wsUp' => wsUp
      /\ wsUp' /\ ChangeServed(r, k, q, a) => ChangeServed(cr', conn', toClient', a)
      /\ CandidatesWait(r, k, b) => CandidatesWait(cr', conn', b)
  <2>1. CASE MaybeNegotiateAndUnlock(r, k, q)
    BY <2>1, NegotiateServed
  <2>2. CASE Leave(r, k, q) \/ Fail(r, k, q)
    BY <2>2 DEF Leave, Fail
  <2> QED BY <2>1, <2>2 DEF Return
<1>2. CandidatesWait(cr', conn', b)
  BY <1>1 DEF b
<1>3. Ongoing' => Ongoing /\ ~removed'
  BY <1>1 DEF Ongoing
<1>4. Ongoing' => ChangeServed(cr', conn', toClient', a)
  BY <1>1, <1>3 DEF a, Ongoing
<1>5. (Ongoing => ChangeServed(cr, conn, toClient, OfferOnItsWay))'
  BY <1>4 DEF a, ChangeServed, Initiator
<1>6. CandidatesWait(cr, conn, handler.at = "local" /\ handler.pc = cr.pc)'
  BY <1>1, <1>2 DEF b, CandidatesWait
<1> QED BY <1>1, <1>5, <1>6 DEF ServedInv

LEMMA ReceiveKeeps ==
  ASSUME TypeOK, NEW m, Receive(m), OfferOnItsWay,
         m.type = "offer" => /\ handler'.at \in {"media", "create", "remote", "local"}
                             /\ handler'.msg = m
  PROVE  OfferOnItsWay'
<1>1. /\ toServer \in Seq(ServerMessage) /\ toServer # <<>> /\ m = Head(toServer)
      /\ toServer' = Tail(toServer) /\ client' = client /\ handler.at = "idle"
  BY DEF Receive, TypeOK
<1>2. CASE client.owes
  BY <1>1, <1>2 DEF OfferOnItsWay
<1>3. CASE \E i \in 1..Len(toServer) : toServer[i].type = "offer"
  <2>1. m.type = "offer" \/ \E i \in 1..Len(toServer') : toServer'[i].type = "offer"
    BY <1>1, <1>3, OffersKept
  <2> QED BY <2>1 DEF OfferOnItsWay
<1> QED BY <1>1, <1>2, <1>3 DEF OfferOnItsWay

LEMMA ReboundServed ==
  ASSUME NegotiationAssumption, TypeOK, NEW i, NEW a, NEW b
  PROVE  /\ Rebound(cr, i).pc \in {cr.pc, NoPc}
         /\ Rebound(cr, i).pc # NoPc => ReboundConn(i) = conn
         /\ ChangeServed(cr, conn, toClient, a) =>
              ChangeServed(Rebound(cr, i), ReboundConn(i), toClient, a)
         /\ CandidatesWait(cr, conn, b) =>
              CandidatesWait(Rebound(cr, i), ReboundConn(i), b)
<1>1. cr \in ConnectionRecord
  BY DEF TypeOK
<1>2. CASE cr.rpcid # NoId /\ i # cr.rpcid
  <2>1. Rebound(cr, i).pc = NoPc
    BY <1>1, <1>2, RecordPc DEF Rebound, ClearPeerConnection, Reset
  <2> QED BY <2>1, ServedNone
<1>3. CASE ~(cr.rpcid # NoId /\ i # cr.rpcid)
  <2>1. ReboundConn(i) = conn
    BY <1>3 DEF ReboundConn
  <2>2. Rebound(cr, i) \in {cr, [cr EXCEPT !.rpcid = i]}
    BY <1>3 DEF Rebound
  <2>3. \A s \in {cr, [cr EXCEPT !.rpcid = i]} :
          /\ s.pc = cr.pc /\ s.needsNegotiation = cr.needsNegotiation
          /\ s.queuedNegotiation = cr.queuedNegotiation
          /\ s.pendingCandidates = cr.pendingCandidates
    BY <1>1 DEF ConnectionRecord
  <2> QED BY <2>1, <2>2, <2>3, ServedSame
<1> QED BY <1>2, <1>3

LEMMA CreateServed ==
  ASSUME NegotiationAssumption, TypeOK, NEW r \in ConnectionRecord,
         NEW k \in [Pcs -> PeerConnection], NEW i, NEW q, NEW a, NEW b, CanCreate(r)
  PROVE  /\ CreatePeerConnection(r, i).pc = lastPc + 1
         /\ ChangeServed(CreatePeerConnection(r, i), Created(k), q, a)
         /\ CandidatesWait(CreatePeerConnection(r, i), Created(k), b)
<1>1. CreatePeerConnection(r, i).pc = lastPc + 1
  BY DEF CreatePeerConnection, NegotiationNeeded, ConnectionRecord
<1>2. lastPc + 1 \in Pcs
  BY DEF CanCreate, TypeOK, Pcs, NegotiationAssumption
<1>3. Created(k)[lastPc + 1] = NewPeerConnection
  BY <1>2 DEF Created
<1>4. ~NewPeerConnection.changed /\ ~NewPeerConnection.remote
  BY DEF NewPeerConnection
<1> QED BY <1>1, <1>3, <1>4 DEF ChangeServed, CandidatesWait

(* The fields that the operations leave alone.                             *)
LEMMA FieldsServed ==
  ASSUME NEW r \in ConnectionRecord, NEW k, NEW q, NEW a, NEW b
  PROVE  /\ ChangeServed(NegotiationNeeded(r), k, q, a)
         /\ ChangeServed(r, k, q, a) =>
              /\ ChangeServed(Flushed(r), k, q, a)
              /\ ChangeServed([r EXCEPT !.media = TRUE], k, q, a)
              /\ ChangeServed([r EXCEPT !.pendingCandidates = TRUE], k, q, a)
         /\ CandidatesWait(Flushed(r), k, b)
         /\ CandidatesWait(r, k, b) =>
              /\ CandidatesWait(NegotiationNeeded(r), k, b)
              /\ CandidatesWait([r EXCEPT !.media = TRUE], k, b)
<1>1. \A s \in {Flushed(r), [r EXCEPT !.media = TRUE], [r EXCEPT !.pendingCandidates = TRUE]} :
        /\ s.pc = r.pc /\ s.needsNegotiation = r.needsNegotiation
        /\ s.queuedNegotiation = r.queuedNegotiation
  BY DEF Flushed, ConnectionRecord
<1>2. ~Flushed(r).pendingCandidates
  BY DEF Flushed, ConnectionRecord
<1>3. NegotiationNeeded(r).needsNegotiation
  BY DEF NegotiationNeeded, ConnectionRecord
<1>4. \A s \in {NegotiationNeeded(r), [r EXCEPT !.media = TRUE]} :
        s.pc = r.pc /\ s.pendingCandidates = r.pendingCandidates
  BY DEF NegotiationNeeded, ConnectionRecord
<1>5. ChangeServed(NegotiationNeeded(r), k, q, a) /\ CandidatesWait(Flushed(r), k, b)
  BY <1>2, <1>3 DEF ChangeServed, CandidatesWait
<1> QED BY <1>1, <1>4, <1>5, ServedSame

(* A reset, also by the handler.                                           *)
LEMMA ResetServed ==
  ASSUME NegotiationAssumption, TypeOK, NEW k \in [Pcs -> PeerConnection], NEW p,
         Return(Reset(cr), k, toClient, p) \/ Leave(Reset(cr), k, toClient),
         role' = role, removed => removed', closed => closed'
  PROVE  ServedInv'
<1>1. Reset(cr) \in ConnectionRecord /\ Reset(cr).pc = NoPc
  BY RecordTypes, RecordPc DEF TypeOK
<1>2. toClient \in Seq(ClientMessage)
  BY DEF TypeOK
<1> QED BY <1>1, <1>2, ServedNone, EndServed

(* A message that is handled at once.                                      *)
LEMMA ReturnServed ==
  ASSUME NegotiationAssumption, TypeOK, NEW r \in ConnectionRecord,
         NEW k \in [Pcs -> PeerConnection], NEW p, NEW m,
         Receive(m), m.type # "offer", Return(r, k, toClient, p), role' = role,
         \A a : Ongoing /\ (OfferOnItsWay => a) => ChangeServed(r, k, toClient, a),
         CandidatesWait(r, k, FALSE)
  PROVE  ServedInv'
<1>1. handler' = Idle /\ Idle.at = "idle"
  BY DEF Return, Idle
<1>3. OfferOnItsWay => OfferOnItsWay'
  BY ReceiveKeeps
<1>4. Ongoing => ChangeServed(r, k, toClient, OfferOnItsWay')
  BY <1>3
<1>5. CandidatesWait(r, k, handler'.at = "local" /\ handler'.pc = r.pc)
  BY DEF CandidatesWait
<1>6. removed' = removed /\ closed' = closed
  BY DEF Receive, lifeVars
<1>7. toClient \in Seq(ClientMessage)
  BY DEF TypeOK
<1> QED BY <1>1, <1>4, <1>5, <1>6, <1>7, EndServed

(* The steps of the handler.                                               *)
LEMMA ServedHandler ==
  ASSUME NegotiationAssumption, TypeOK, ServedInv, Handler, UNCHANGED role
  PROVE  ServedInv'
<1> USE DEF handlerEnv, lifeVars, clientVars
<1>t. /\ cr \in ConnectionRecord /\ cr.pc \in Pcs \cup {NoPc}
      /\ conn \in [Pcs -> PeerConnection]
      /\ toClient \in Seq(ClientMessage) /\ toServer \in Seq(ServerMessage)
      /\ handler \in [at : HandlerPoint, pc : Pcs \cup {NoPc}, msg : ServerMessage]
      /\ Close(conn, cr.pc) \in [Pcs -> PeerConnection]
  BY CloseTypes DEF TypeOK, ConnectionRecord
<1>i. /\ handler.at # "idle" => cr.pc \in {NoPc, handler.pc}
      /\ Ongoing => ChangeServed(cr, conn, toClient, OfferOnItsWay)
      /\ CandidatesWait(cr, conn, handler.at = "local" /\ handler.pc = cr.pc)
  BY DEF ServedInv
<1>r. ResetReturn /\ UNCHANGED <<removed, closed>> => ServedInv'
  BY <1>t, ResetServed DEF ResetReturn
<1>p. Replaced /\ handler.at # "idle" => ServedInv'
  <2>1. Replaced /\ handler.at # "idle" => cr'.pc = NoPc /\ handler' = Idle
    BY <1>i DEF Replaced, recordVars
  <2>2. Idle.at = "idle"
    BY DEF Idle
  <2> QED BY <2>1, <2>2 DEF ServedInv, ChangeServed, CandidatesWait
<1>g. \A at, p : Goto(at, p) =>
        handler'.at = at /\ handler'.pc = p /\ handler'.msg = handler.msg
  BY <1>t DEF Goto
<1>1. CASE Refuse
  BY <1>1, <1>i DEF Refuse, Receive, recordVars, Ongoing, ServedInv, CandidatesWait
<1>2. CASE HandleRenegotiate
  <2>1. PICK m \in ServerMessage :
          LET r == Rebound(cr, m.pcid)
              k == ReboundConn(m.pcid)
          IN /\ Receive(m) /\ m.type # "offer"
             /\ \/ Return(r, k, toClient, cr.pc)
                \/ Return(NegotiationNeeded(r), k, toClient, r.pc)
                \/ /\ CanCreate(r)
                   /\ Return(CreatePeerConnection(r, m.pcid), Created(k), toClient, lastPc + 1)
                \/ Return(Reset(r), k, toClient, cr.pc)
    BY <1>2 DEF HandleRenegotiate
  <2> DEFINE r == Rebound(cr, m.pcid)
             k == ReboundConn(m.pcid)
  <2>2. /\ r \in ConnectionRecord /\ Reset(r) \in ConnectionRecord /\ Reset(r).pc = NoPc
        /\ NegotiationNeeded(r) \in ConnectionRecord /\ k \in [Pcs -> PeerConnection]
        /\ m.pcid \in 0..MaxRpc
    BY ReboundTypes, RecordTypes, RecordPc DEF ServerMessage
  <2>3. handler.at = "idle"
    BY <2>1 DEF Receive
  <2>4. /\ \A a : Ongoing /\ (OfferOnItsWay => a) => ChangeServed(cr, conn, toClient, a)
        /\ CandidatesWait(cr, conn, FALSE)
    BY <1>i, <2>3 DEF ChangeServed, CandidatesWait
  <2>5. /\ \A a : Ongoing /\ (OfferOnItsWay => a) => ChangeServed(r, k, toClient, a)
        /\ CandidatesWait(r, k, FALSE)
    BY <2>4, ReboundServed
  <2> HIDE DEF r, k
  <2>6. CASE Return(r, k, toClient, cr.pc)
    BY <2>1, <2>2, <2>5, <2>6, ReturnServed
  <2>7. CASE Return(NegotiationNeeded(r), k, toClient, r.pc)
    <3>1. /\ \A a : ChangeServed(NegotiationNeeded(r), k, toClient, a)
          /\ CandidatesWait(NegotiationNeeded(r), k, FALSE)
      BY <2>2, <2>5, FieldsServed
    <3> QED BY <2>1, <2>2, <2>7, <3>1, ReturnServed
  <2>8. CASE /\ CanCreate(r)
             /\ Return(CreatePeerConnection(r, m.pcid), Created(k), toClient, lastPc + 1)
    <3>1. /\ CreatePeerConnection(r, m.pcid) \in ConnectionRecord
          /\ Created(k) \in [Pcs -> PeerConnection]
      BY <2>2, <2>8, CreateTypes
    <3>2. /\ \A a : ChangeServed(CreatePeerConnection(r, m.pcid), Created(k), toClient, a)
          /\ CandidatesWait(CreatePeerConnection(r, m.pcid), Created(k), FALSE)
      BY <2>2, <2>8, CreateServed
    <3> QED BY <2>1, <2>8, <3>1, <3>2, ReturnServed
  <2>9. CASE Return(Reset(r), k, toClient, cr.pc)
    <3>1. /\ \A a : ChangeServed(Reset(r), k, toClient, a)
          /\ CandidatesWait(Reset(r), k, FALSE)
      BY <2>2, ServedNone
    <3> QED BY <2>1, <2>2, <2>9, <3>1, ReturnServed
  <2> QED BY <2>1, <2>6, <2>7, <2>8, <2>9 DEF r, k
<1>3. CASE HandleCandidate
  <2>1. PICK m \in ServerMessage :
          LET r == Rebound(cr, m.pcid)
              k == ReboundConn(m.pcid)
              ready == cr.pc # NoPc /\ conn[cr.pc].remote
          IN /\ Receive(m) /\ m.type # "offer"
             /\ \/ Return(r, k, toClient, cr.pc)
                \/ Return(Reset(r), Close(k, r.pc), toClient, cr.pc)
                \/ ~ready /\ Return([r EXCEPT !.pendingCandidates = TRUE], k, toClient, cr.pc)
    BY <1>3 DEF HandleCandidate
  <2> DEFINE r == Rebound(cr, m.pcid)
             k == ReboundConn(m.pcid)
             w == [r EXCEPT !.pendingCandidates = TRUE]
  <2>2. /\ r \in ConnectionRecord /\ Reset(r) \in ConnectionRecord /\ Reset(r).pc = NoPc
        /\ k \in [Pcs -> PeerConnection] /\ r.pc \in Pcs \cup {NoPc}
        /\ Close(k, r.pc) \in [Pcs -> PeerConnection]
    <3>1. r \in ConnectionRecord /\ k \in [Pcs -> PeerConnection]
      BY ReboundTypes
    <3> HIDE DEF r, k
    <3>2. r.pc \in Pcs \cup {NoPc}
      BY <3>1 DEF ConnectionRecord
    <3> QED BY <3>1, <3>2, RecordTypes, RecordPc, CloseTypes
  <2>3. handler.at = "idle"
    BY <2>1 DEF Receive
  <2>4. /\ \A a : Ongoing /\ (OfferOnItsWay => a) => ChangeServed(cr, conn, toClient, a)
        /\ CandidatesWait(cr, conn, FALSE)
    BY <1>i, <2>3 DEF ChangeServed, CandidatesWait
  <2>5. /\ \A a : Ongoing /\ (OfferOnItsWay => a) => ChangeServed(r, k, toClient, a)
        /\ CandidatesWait(r, k, FALSE)
        /\ r.pc \in {cr.pc, NoPc} /\ (r.pc # NoPc => k = conn)
    BY <2>4, ReboundServed
  <2> HIDE DEF r, k
  <2>6. CASE Return(r, k, toClient, cr.pc)
    BY <2>1, <2>2, <2>5, <2>6, ReturnServed
  <2>7. CASE Return(Reset(r), Close(k, r.pc), toClient, cr.pc)
    <3>1. /\ \A a : ChangeServed(Reset(r), Close(k, r.pc), toClient, a)
          /\ CandidatesWait(Reset(r), Close(k, r.pc), FALSE)
      BY <2>2, ServedNone
    <3> QED BY <2>1, <2>2, <2>7, <3>1, ReturnServed
  <2>8. CASE ~(cr.pc # NoPc /\ conn[cr.pc].remote) /\ Return(w, k, toClient, cr.pc)
    <3>1. w \in ConnectionRecord /\ w.pc = r.pc
      BY <2>2 DEF ConnectionRecord
    <3>2. \A a : Ongoing /\ (OfferOnItsWay => a) => ChangeServed(w, k, toClient, a)
      BY <2>2, <2>5, FieldsServed
    <3>3. CandidatesWait(w, k, FALSE)
      BY <2>5, <2>8, <3>1 DEF CandidatesWait
    <3> HIDE DEF w
    <3> QED BY <2>1, <2>2, <2>8, <3>1, <3>2, <3>3, ReturnServed
  <2> QED BY <2>1, <2>6, <2>7, <2>8 DEF r, k, w
<1>4. CASE HandleTransceiverRequest
  <2>1. PICK m \in ServerMessage :
          /\ Receive(m) /\ m.type # "offer"
          /\ Return(Rebound(cr, m.pcid), ReboundConn(m.pcid), toClient, cr.pc)
    BY <1>4 DEF HandleTransceiverRequest
  <2>2. handler.at = "idle"
    BY <2>1 DEF Receive
  <2>3. /\ \A a : Ongoing /\ (OfferOnItsWay => a) => ChangeServed(cr, conn, toClient, a)
        /\ CandidatesWait(cr, conn, FALSE)
    BY <1>i, <2>2 DEF ChangeServed, CandidatesWait
  <2>4. /\ \A a : Ongoing /\ (OfferOnItsWay => a) =>
                    ChangeServed(Rebound(cr, m.pcid), ReboundConn(m.pcid), toClient, a)
        /\ CandidatesWait(Rebound(cr, m.pcid), ReboundConn(m.pcid), FALSE)
    BY <2>3, ReboundServed
  <2> QED BY <2>1, <2>4, ReboundTypes, ReturnServed
<1>5. CASE HandleSDP
  <2>1. PICK m \in ServerMessage :
          /\ Receive(m)
          /\ Leave(Rebound(cr, m.pcid), ReboundConn(m.pcid), toClient)
          /\ handler' = [at |-> IF ~Initiator THEN "media"
                                ELSE IF cr.pc = NoPc THEN "restart" ELSE "remote",
                         pc |-> cr.pc, msg |-> m]
    BY <1>5 DEF HandleSDP
  <2> DEFINE r == Rebound(cr, m.pcid)
             k == ReboundConn(m.pcid)
  <2>2. r \in ConnectionRecord /\ k \in [Pcs -> PeerConnection]
    BY ReboundTypes
  <2>3. handler.at = "idle" /\ UNCHANGED <<removed, closed>>
    BY <2>1 DEF Receive
  <2>4. OfferOnItsWay /\ ~Initiator => OfferOnItsWay'
    BY <2>1, ReceiveKeeps
  <2>5. /\ Ongoing => ChangeServed(cr, conn, toClient, OfferOnItsWay')
        /\ CandidatesWait(cr, conn, FALSE)
    BY <1>i, <2>3, <2>4 DEF ChangeServed, CandidatesWait
  <2>6. /\ Ongoing => ChangeServed(r, k, toClient, OfferOnItsWay')
        /\ CandidatesWait(r, k, FALSE)
        /\ r.pc \in {cr.pc, NoPc}
    BY <2>5, ReboundServed
  <2>7. /\ handler'.pc = cr.pc /\ Leave(r, k, toClient)
        /\ CandidatesWait(r, k, handler'.at = "local" /\ handler'.pc = r.pc)
    BY <2>1, <2>6 DEF CandidatesWait
  <2> HIDE DEF r, k
  <2> QED BY <1>t, <2>2, <2>3, <2>6, <2>7, EndServed
<1>6. CASE UpdateMedia
  <2> DEFINE r == [cr EXCEPT !.media = TRUE]
  <2>1. CASE /\ cr.pc = handler.pc
             /\ Leave(r, conn, toClient)
             /\ Goto(IF handler.pc = NoPc THEN "create" ELSE "remote", handler.pc)
    <3>1. /\ handler'.at \in {"create", "remote"} /\ handler'.pc = cr.pc
          /\ handler'.msg = handler.msg /\ handler.at = "media"
          /\ UNCHANGED <<removed, closed, clientVars>>
      BY <1>6, <1>g, <2>1 DEF UpdateMedia
    <3>2. OfferOnItsWay => OfferOnItsWay'
      BY <3>1 DEF OfferOnItsWay
    <3>3. r \in ConnectionRecord /\ r.pc = cr.pc
      BY <1>t DEF ConnectionRecord
    <3>4. /\ Ongoing => ChangeServed(cr, conn, toClient, OfferOnItsWay')
          /\ CandidatesWait(cr, conn, handler'.at = "local" /\ handler'.pc = r.pc)
      BY <1>i, <3>1, <3>2 DEF ChangeServed, CandidatesWait
    <3>5. /\ Ongoing => ChangeServed(r, conn, toClient, OfferOnItsWay')
          /\ CandidatesWait(r, conn, handler'.at = "local" /\ handler'.pc = r.pc)
      BY <1>t, <3>4, FieldsServed
    <3> HIDE DEF r
    <3> QED BY <1>t, <2>1, <3>1, <3>3, <3>5, EndServed
  <2> QED BY <1>6, <1>r, <1>p, <2>1 DEF UpdateMedia
<1>7. CASE RequestRestart
  <2>1. /\ handler'.at = "create" /\ handler'.pc = handler.pc /\ handler'.msg = handler.msg
        /\ handler.at = "restart" /\ UNCHANGED <<removed, closed, clientVars>>
        /\ Leave(NegotiationNeeded(cr), conn, toClient)
    BY <1>7, <1>g DEF RequestRestart
  <2>2. NegotiationNeeded(cr) \in ConnectionRecord /\ NegotiationNeeded(cr).pc = cr.pc
    BY <1>t, RecordTypes, RecordPc
  <2>3. CandidatesWait(cr, conn, handler'.at = "local" /\ handler'.pc = cr.pc)
    BY <1>i, <2>1 DEF CandidatesWait
  <2>4. /\ ChangeServed(NegotiationNeeded(cr), conn, toClient, OfferOnItsWay')
        /\ CandidatesWait(NegotiationNeeded(cr), conn,
                          handler'.at = "local" /\ handler'.pc = NegotiationNeeded(cr).pc)
    BY <1>t, <2>2, <2>3, FieldsServed
  <2> QED BY <1>t, <1>i, <2>1, <2>2, <2>4, EndServed
<1>8. CASE CreateForSDP
  <2> DEFINE r == CreatePeerConnection(cr, NoId)
  <2>1. CASE /\ CanCreate(cr)
             /\ Leave(r, Created(conn), toClient)
             /\ Goto(IF Initiator THEN "finish" ELSE "remote", lastPc + 1)
    <3>1. NoId \in 0..MaxRpc
      BY DEF NoId, NegotiationAssumption
    <3>2. r \in ConnectionRecord /\ Created(conn) \in [Pcs -> PeerConnection]
      BY <1>t, <2>1, <3>1, CreateTypes
    <3>3. /\ r.pc = lastPc + 1
          /\ \A a, b : /\ ChangeServed(r, Created(conn), toClient, a)
                       /\ CandidatesWait(r, Created(conn), b)
      BY <1>t, <2>1, CreateServed
    <3>4. handler'.pc = lastPc + 1 /\ UNCHANGED <<removed, closed>>
      BY <1>8, <1>g, <2>1 DEF CreateForSDP
    <3> HIDE DEF r
    <3> QED BY <1>t, <2>1, <3>2, <3>3, <3>4, EndServed
  <2> QED BY <1>8, <1>r, <1>p, <2>1 DEF CreateForSDP
<1>9. CASE SetRemoteDescription
  <2> DEFINE p == handler.pc
             c == IF handler.msg.type = "offer"
                  THEN [conn[p] EXCEPT !.signaling = "have-remote-offer", !.remote = TRUE]
                  ELSE [conn[p] EXCEPT !.signaling = "stable", !.remote = TRUE,
                                       !.stables = conn[p].stables + 1]
  <2>1. CASE /\ conn[p].signaling =
                   IF handler.msg.type = "offer" THEN "stable" ELSE "have-local-offer"
             /\ Leave(cr, [conn EXCEPT ![p] = c], toClient)
             /\ Goto("local", p)
    <3>1. /\ handler'.at = "local" /\ handler'.pc = p /\ handler'.msg = handler.msg
          /\ handler.at = "remote" /\ UNCHANGED <<removed, closed, clientVars>>
      BY <1>9, <1>g, <2>1 DEF SetRemoteDescription
    <3>2. OfferOnItsWay => OfferOnItsWay'
      BY <3>1 DEF OfferOnItsWay
    <3>3. cr.pc # NoPc => cr.pc = p /\ p \in Pcs
      BY <1>t, <1>i, <3>1
    <3>4. p \in Pcs => /\ c.signaling # "closed" /\ c.changed = conn[p].changed
                       /\ c.failed = conn[p].failed
      BY <1>t DEF PeerConnection
    <3>5. Ongoing => ChangeServed(cr, conn, toClient, OfferOnItsWay')
      BY <1>i, <3>2 DEF ChangeServed
    <3>6. conn[p].signaling # "closed"
      BY <2>1
    <3>7. conn' = [conn EXCEPT ![p] = c] /\ cr' = cr /\ toClient' = toClient /\ wsUp' = wsUp
      BY <2>1 DEF Leave
    <3> HIDE DEF c, p
    <3>8. Ongoing => ChangeServed(cr', conn', toClient', OfferOnItsWay')
      BY <1>t, <3>3, <3>4, <3>5, <3>6, <3>7 DEF ChangeServed
    <3>9. CandidatesWait(cr', conn', handler'.at = "local" /\ handler'.pc = cr'.pc)
      BY <3>1, <3>3, <3>7 DEF CandidatesWait
    <3>10. handler'.at # "idle" => cr'.pc \in {NoPc, handler'.pc}
      BY <3>1, <3>3, <3>7
    <3>11. Ongoing' = Ongoing
      BY <3>1, <3>7 DEF Ongoing
    <3> QED BY <3>8, <3>9, <3>10, <3>11 DEF ServedInv, ChangeServed, Initiator, CandidatesWait
  <2> QED BY <1>9, <1>r, <2>1 DEF SetRemoteDescription
<1>10. CASE ApplyRemoteDescription
  <2> DEFINE r == Flushed(cr)
             added == NegotiationNeeded([r EXCEPT !.pending = FALSE])
  <2>1. r \in ConnectionRecord /\ r.pc = cr.pc /\ ~r.pendingCandidates
    BY <1>t, RecordTypes, RecordPc DEF Flushed, ConnectionRecord
  <2>2. added \in ConnectionRecord /\ added.pc = cr.pc /\ ~added.pendingCandidates
    <3>1. /\ [r EXCEPT !.pending = FALSE] \in ConnectionRecord
          /\ [r EXCEPT !.pending = FALSE].pc = r.pc
          /\ ~[r EXCEPT !.pending = FALSE].pendingCandidates
      BY <2>1 DEF ConnectionRecord
    <3> QED BY <2>1, <3>1, RecordTypes, RecordPc DEF NegotiationNeeded, ConnectionRecord
  <2> HIDE DEF r, added
  <2>3. CASE /\ cr.pc = handler.pc /\ handler.msg.type = "answer"
             /\ Leave(r, conn, toClient) /\ Goto("finish", handler.pc)
    <3>1. /\ handler'.at = "finish" /\ handler'.pc = cr.pc /\ handler'.msg = handler.msg
          /\ UNCHANGED <<removed, closed, clientVars>>
      BY <1>10, <1>g, <2>3 DEF ApplyRemoteDescription
    <3>2. OfferOnItsWay => OfferOnItsWay'
      BY <2>3, <3>1 DEF OfferOnItsWay
    <3>3. Ongoing => ChangeServed(cr, conn, toClient, OfferOnItsWay')
      BY <1>i, <3>2 DEF ChangeServed
    <3>4. /\ Ongoing => ChangeServed(r, conn, toClient, OfferOnItsWay')
          /\ \A b : CandidatesWait(r, conn, b)
      BY <1>t, <3>3, FieldsServed DEF r
    <3> QED BY <1>t, <2>1, <2>3, <3>1, <3>4, EndServed
  <2>4. CASE /\ cr.pc = handler.pc
             /\ CreateAnswer(r, conn, toClient) \/ CreateAnswer(added, conn, toClient)
             /\ Goto("finish", handler.pc)
    <3>1. /\ handler'.at = "finish" /\ handler'.pc = cr.pc
          /\ UNCHANGED <<removed, closed>>
      BY <1>10, <1>g, <2>4 DEF ApplyRemoteDescription
    <3>2. ASSUME NEW s \in ConnectionRecord, s.pc = cr.pc, ~s.pendingCandidates,
                 CreateAnswer(s, conn, toClient)
          PROVE  ServedInv'
      <4> DEFINE answered == [conn EXCEPT ![s.pc] =
                                [@ EXCEPT !.signaling = "stable", !.changed = FALSE,
                                          !.stables = conn[s.pc].stables + 1]]
      <4>1. cr' = RequestMissingTransceivers(s) /\ conn' = answered
        BY <3>2 DEF CreateAnswer, Leave, Fail
      <4>2. /\ RequestMissingTransceivers(s).pc = s.pc
            /\ ~RequestMissingTransceivers(s).pendingCandidates
        BY <3>2 DEF RequestMissingTransceivers, ConnectionRecord
      <4>3. s.pc # NoPc => ~answered[s.pc].changed
        BY <1>t, <3>2 DEF PeerConnection
      <4> HIDE DEF answered
      <4> QED BY <3>1, <3>2, <4>1, <4>2, <4>3 DEF ServedInv, ChangeServed, CandidatesWait
    <3> QED BY <2>1, <2>2, <2>4, <3>2
  <2> QED BY <1>10, <1>r, <1>p, <2>3, <2>4 DEF ApplyRemoteDescription, r, added
<1>11. CASE Finish
  <2>1. /\ Return(cr, conn, toClient, handler.pc) /\ handler.at = "finish"
        /\ UNCHANGED <<removed, closed, clientVars>>
    BY <1>11 DEF Finish
  <2>2. handler' = Idle /\ Idle.at = "idle"
    BY <2>1 DEF Return, Idle
  <2>3. OfferOnItsWay => OfferOnItsWay'
    BY <2>1 DEF OfferOnItsWay
  <2>4. /\ Ongoing => ChangeServed(cr, conn, toClient, OfferOnItsWay')
        /\ CandidatesWait(cr, conn, handler'.at = "local" /\ handler'.pc = cr.pc)
    BY <1>i, <2>1, <2>3 DEF ChangeServed, CandidatesWait
  <2> QED BY <1>t, <2>1, <2>2, <2>4, EndServed
<1> QED BY <1>1, <1>2, <1>3, <1>4, <1>5, <1>6, <1>7, <1>8, <1>9, <1>10, <1>11 DEF Handler

(* Any other step that ends with the record's own peer connection; the     *)
(* handler does not move, and messages and the remote stay.                *)
LEMMA OtherEnd ==
  ASSUME NegotiationAssumption, TypeOK, ServedInv, NEW r \in ConnectionRecord,
         NEW k \in [Pcs -> PeerConnection], NEW q \in Seq(ClientMessage),
         Leave(r, k, q) \/ Fail(r, k, q) \/ MaybeNegotiateAndUnlock(r, k, q),
         UNCHANGED <<role, handler, clientVars>>,
         removed => removed', closed => closed', r.pc \in {NoPc, cr.pc},
         ChangeServed(cr, conn, toClient, OfferOnItsWay) =>
           ChangeServed(r, k, q, OfferOnItsWay),
         \A b : CandidatesWait(cr, conn, b) => CandidatesWait(r, k, b)
  PROVE  ServedInv'
<1>1. OfferOnItsWay' = OfferOnItsWay /\ handler' = handler
  BY DEF OfferOnItsWay, clientVars
<1>2. CandidatesWait(r, k, handler.at = "local" /\ handler.pc = r.pc)
  BY DEF ServedInv, CandidatesWait
<1>3. Ongoing => ChangeServed(r, k, q, OfferOnItsWay)
  BY DEF ServedInv
<1> QED BY <1>1, <1>2, <1>3, EndServed DEF ServedInv

(* The same for the other goroutines, the events and the remote.           *)
LEMMA ServedOther ==
  ASSUME NegotiationAssumption, TypeOK, ServedInv, UNCHANGED role,
         \/ Remote \/ ClientExtra \/ ClientRestart
         \/ \E p \in Pcs : \/ OnStable(p) \/ Destroy(p) \/ ConnectionFails(p)
                           \/ WatcherTimeout(p) \/ DataChannelClose(p)
         \/ Resurrect \/ TrackChange \/ WriteFails \/ UserCloses \/ CloseReset \/ Stop
  PROVE  ServedInv'
<1> USE DEF handlerEnv, otherEnv, lifeVars
<1>t. /\ cr \in ConnectionRecord /\ cr.pc \in Pcs \cup {NoPc}
      /\ conn \in [Pcs -> PeerConnection]
      /\ toClient \in Seq(ClientMessage) /\ toServer \in Seq(ServerMessage)
      /\ \A p \in Pcs : Close(conn, p) \in [Pcs -> PeerConnection]
      /\ Close(conn, cr.pc) \in [Pcs -> PeerConnection]
      /\ client.pcid \in 1..MaxRpc /\ 1..MaxRpc \subseteq 0..MaxRpc
      /\ NoId \in 0..MaxRpc
  <2>1. cr \in ConnectionRecord /\ cr.pc \in Pcs \cup {NoPc}
    BY DEF TypeOK, ConnectionRecord
  <2>2. conn \in [Pcs -> PeerConnection]
    BY DEF TypeOK
  <2>3. 1..MaxRpc \subseteq 0..MaxRpc /\ NoId \in 0..MaxRpc
    BY DEF NegotiationAssumption, NoId
  <2> QED BY <2>1, <2>2, <2>3, CloseTypes DEF TypeOK
<1>m. ASSUME UNCHANGED <<role, cr, conn, wsUp, handler>>,
             removed => removed', closed => closed',
             ~Initiator /\ (Asked(toClient) \/ OfferOnItsWay) =>
               Asked(toClient') \/ OfferOnItsWay'
      PROVE  ServedInv'
  BY <1>m DEF ServedInv, ChangeServed, CandidatesWait, Ongoing, Initiator
<1>a. \A i \in 0..MaxRpc,
         t \in {"offer", "answer", "renegotiate", "noop", "candidate", "transceiver"} :
        /\ Message(t, i) \in ServerMessage /\ Message(t, i).type = t
        /\ toServer' = Append(toServer, Message(t, i)) /\ handler' = handler =>
             /\ OfferOnItsWay /\ (client.owes => client'.owes) => OfferOnItsWay'
             /\ t = "offer" => OfferOnItsWay'
  <2>1. ASSUME NEW i \in 0..MaxRpc,
               NEW t \in {"offer", "answer", "renegotiate", "noop", "candidate", "transceiver"}
        PROVE  Message(t, i) \in ServerMessage /\ Message(t, i).type = t
    BY DEF Message, ServerMessage
  <2>2. ASSUME NEW x \in ServerMessage, toServer' = Append(toServer, x), handler' = handler
        PROVE  /\ OfferOnItsWay /\ (client.owes => client'.owes) => OfferOnItsWay'
               /\ x.type = "offer" => OfferOnItsWay'
    BY <1>t, <2>2, OffersKept DEF OfferOnItsWay
  <2> QED BY <2>1, <2>2
<1>1. CASE ClientReceive
  <2>1. /\ toClient # <<>> /\ toClient' = Tail(toClient)
        /\ UNCHANGED <<role, cr, conn, wsUp, handler, removed, closed>>
        /\ client'.owes = (client.owes \/ Head(toClient) \in {"renegotiate", "transceiver"})
        /\ \/ toServer' = toServer
           \/ toServer' = Append(toServer, Message("answer", client.pcid))
    BY <1>1 DEF ClientReceive, clientEnv, TypeOK
  <2>2. OfferOnItsWay => OfferOnItsWay'
    BY <1>t, <1>a, <2>1 DEF OfferOnItsWay
  <2>3. Head(toClient) \in ClientMessage
    BY <1>t, <2>1
  <2>4. Asked(toClient) => Asked(toClient') \/ OfferOnItsWay'
    BY <1>t, <2>1, <2>3, AskedKept DEF OfferOnItsWay
  <2> QED BY <1>m, <2>1, <2>2, <2>4
<1>2. CASE ClientOffer
  <2>1. /\ toServer' = Append(toServer, Message("offer", client.pcid))
        /\ UNCHANGED <<role, cr, conn, wsUp, handler, removed, closed>>
    BY <1>2 DEF ClientOffer, clientEnv
  <2>2. OfferOnItsWay'
    BY <1>t, <1>a, <2>1
  <2> QED BY <1>m, <2>1, <2>2
<1>3. CASE ClientExtra
  <2>1. /\ client'.owes = client.owes
        /\ UNCHANGED <<role, cr, conn, wsUp, handler, removed, closed, toClient>>
        /\ \E t \in {"candidate", "renegotiate", "transceiver"} :
             toServer' = Append(toServer, Message(t, client.pcid))
    BY <1>3 DEF ClientExtra, clientEnv, TypeOK
  <2>2. OfferOnItsWay => OfferOnItsWay'
    BY <1>t, <1>a, <2>1
  <2> QED BY <1>m, <2>1, <2>2
<1>4. CASE ClientRestart
  <2>1. /\ client'.owes = ~Initiator
        /\ UNCHANGED <<role, cr, conn, wsUp, handler, removed, closed>>
    BY <1>4 DEF ClientRestart, clientEnv
  <2>2. ~Initiator => OfferOnItsWay'
    BY <2>1 DEF OfferOnItsWay
  <2> QED BY <1>m, <2>1, <2>2
<1>5. ASSUME NEW p \in Pcs, OnStable(p) PROVE ServedInv'
  <2> DEFINE run == [conn EXCEPT ![p] = [@ EXCEPT !.stables = conn[p].stables - 1]]
             done == [cr EXCEPT !.isNegotiating = FALSE, !.queuedNegotiation = FALSE,
                         !.needsNegotiation = IF cr.queuedNegotiation THEN TRUE ELSE @]
  <2>1. run \in [Pcs -> PeerConnection]
    BY <1>5, <1>t, EventTypes DEF OnStable
  <2>2. done \in ConnectionRecord
    <3>1. (IF cr.queuedNegotiation THEN TRUE ELSE cr.needsNegotiation) \in BOOLEAN
      BY <1>t DEF ConnectionRecord
    <3>2. \A b \in BOOLEAN :
            [cr EXCEPT !.isNegotiating = FALSE, !.queuedNegotiation = FALSE,
                       !.needsNegotiation = b] \in ConnectionRecord
      BY <1>t DEF ConnectionRecord
    <3> QED BY <3>1, <3>2
  <2>3. /\ done.pc = cr.pc /\ done.pendingCandidates = cr.pendingCandidates
        /\ cr.needsNegotiation \/ cr.queuedNegotiation => done.needsNegotiation
    BY <1>t DEF ConnectionRecord
  <2>4. \A x \in Pcs : /\ run[x].signaling = conn[x].signaling
                       /\ run[x].changed = conn[x].changed
                       /\ run[x].failed = conn[x].failed
                       /\ run[x].remote = conn[x].remote
    BY <1>t DEF PeerConnection
  <2>5. /\ Leave(cr, run, toClient) \/ MaybeNegotiateAndUnlock(done, run, toClient)
             \/ MaybeNegotiateAndUnlock(cr, run, toClient)
        /\ UNCHANGED <<role, handler, clientVars, removed, closed>>
    BY <1>5 DEF OnStable
  <2> HIDE DEF run, done
  <2>6. \A s \in {cr, done} :
          /\ ChangeServed(cr, conn, toClient, OfferOnItsWay) =>
               ChangeServed(s, run, toClient, OfferOnItsWay)
          /\ \A b : CandidatesWait(cr, conn, b) => CandidatesWait(s, run, b)
    BY <1>t, <2>3, <2>4, ServedSame
  <2> QED BY <1>t, <2>1, <2>2, <2>3, <2>5, <2>6, OtherEnd
<1>6. ASSUME NEW p \in Pcs, Destroy(p) PROVE ServedInv'
  <2> DEFINE run == [conn EXCEPT ![p] = [@ EXCEPT !.destroys = conn[p].destroys - 1]]
  <2>1. run \in [Pcs -> PeerConnection]
    BY <1>6, <1>t, EventTypes DEF Destroy
  <2>2. \A x \in Pcs : /\ run[x].signaling = conn[x].signaling
                       /\ run[x].changed = conn[x].changed
                       /\ run[x].failed = conn[x].failed
                       /\ run[x].remote = conn[x].remote
    BY <1>t DEF PeerConnection
  <2>3. /\ Leave(cr, run, toClient) \/ Leave(Reset(cr), Close(run, cr.pc), toClient)
        /\ UNCHANGED <<role, handler, clientVars, closed>>
        /\ removed' = removed \/ removed' = (removed \/ Pipeline)
    BY <1>6 DEF Destroy
  <2>r. removed => removed'
    BY <2>3
  <2> HIDE DEF run
  <2>4. /\ ChangeServed(cr, conn, toClient, OfferOnItsWay) =>
             ChangeServed(cr, run, toClient, OfferOnItsWay)
        /\ \A b : CandidatesWait(cr, conn, b) => CandidatesWait(cr, run, b)
    BY <1>t, <2>2, ServedSame
  <2>5. Close(run, cr.pc) \in [Pcs -> PeerConnection]
    BY <1>t, <2>1, CloseTypes
  <2> QED BY <1>t, <2>1, <2>3, <2>r, <2>4, <2>5, OtherEnd, ResetServed
<1>7. ASSUME NEW p \in Pcs, ConnectionFails(p) PROVE ServedInv'
  <2> DEFINE run == [conn EXCEPT ![p] = [@ EXCEPT !.destroys = conn[p].destroys + 1]]
  <2>1. run \in [Pcs -> PeerConnection]
    BY <1>t, EventTypes
  <2>2. \A x \in Pcs : /\ run[x].signaling = conn[x].signaling
                       /\ run[x].changed = conn[x].changed
                       /\ run[x].failed = conn[x].failed
                       /\ run[x].remote = conn[x].remote
    BY <1>t DEF PeerConnection
  <2>3. Leave(cr, run, toClient) /\ UNCHANGED <<role, handler, clientVars, removed, closed>>
    BY <1>7 DEF ConnectionFails, Fault
  <2> HIDE DEF run
  <2>4. /\ ChangeServed(cr, conn, toClient, OfferOnItsWay) =>
             ChangeServed(cr, run, toClient, OfferOnItsWay)
        /\ \A b : CandidatesWait(cr, conn, b) => CandidatesWait(cr, run, b)
    BY <1>t, <2>2, ServedSame
  <2> QED BY <1>t, <2>1, <2>3, <2>4, OtherEnd
<1>8. ASSUME NEW p \in Pcs, WatcherTimeout(p) PROVE ServedInv'
  <2>1. /\ Leave(cr, Close(conn, p), toClient)
        /\ UNCHANGED <<role, handler, clientVars, removed, closed>>
    BY <1>8 DEF WatcherTimeout, Fault
  <2>2. \A x \in Pcs : \/ Close(conn, p)[x] = conn[x]
                       \/ /\ Close(conn, p)[x].signaling = "closed"
                          /\ Close(conn, p)[x].remote = conn[x].remote
    <3>1. conn[p] \in PeerConnection /\ p # NoPc
      BY <1>t DEF Pcs, NoPc
    <3>2. \A n : LET c == [conn[p] EXCEPT !.signaling = "closed", !.changed = FALSE,
                                          !.failed = FALSE, !.destroys = n]
                 IN c.signaling = "closed" /\ c.remote = conn[p].remote
      BY <3>1 DEF PeerConnection
    <3> QED BY <1>t, <3>1, <3>2 DEF Close
  <2>3. /\ ChangeServed(cr, conn, toClient, OfferOnItsWay) =>
             ChangeServed(cr, Close(conn, p), toClient, OfferOnItsWay)
        /\ \A b : CandidatesWait(cr, conn, b) => CandidatesWait(cr, Close(conn, p), b)
    BY <1>t, <2>2 DEF ChangeServed, CandidatesWait
  <2> QED BY <1>t, <2>1, <2>3, OtherEnd
<1>9. CASE WriteFails \/ CloseReset \/ \E p \in Pcs : DataChannelClose(p)
  <2>1. Leave(Reset(cr), Close(conn, cr.pc), toClient) /\ UNCHANGED <<role, removed, closed>>
    BY <1>9 DEF WriteFails, CloseReset, DataChannelClose, Fault
  <2> QED BY <1>t, <2>1, ResetServed
<1>10. CASE Resurrect
  <2>1. handler.at = "idle" /\ UNCHANGED <<role, handler, clientVars, removed, closed>>
    BY <1>10 DEF Resurrect
  <2>2. CASE CanCreate(cr) /\ MaybeNegotiateAndUnlock(
                                CreatePeerConnection(cr, NoId), Created(conn), toClient)
    <3>1. /\ CreatePeerConnection(cr, NoId) \in ConnectionRecord
          /\ Created(conn) \in [Pcs -> PeerConnection]
      BY <1>t, <2>2, CreateTypes
    <3>2. \A a, b : /\ ChangeServed(CreatePeerConnection(cr, NoId), Created(conn), toClient, a)
                    /\ CandidatesWait(CreatePeerConnection(cr, NoId), Created(conn), b)
      BY <1>t, <2>2, CreateServed
    <3> QED BY <1>t, <2>1, <2>2, <3>1, <3>2, EndServed
  <2>3. CASE MaybeNegotiateAndUnlock(NegotiationNeeded(cr), conn, toClient)
    <3>1. NegotiationNeeded(cr) \in ConnectionRecord /\ NegotiationNeeded(cr).pc = cr.pc
      BY <1>t, RecordTypes, RecordPc
    <3>2. /\ ChangeServed(NegotiationNeeded(cr), conn, toClient, OfferOnItsWay)
          /\ \A b : CandidatesWait(cr, conn, b) => CandidatesWait(NegotiationNeeded(cr), conn, b)
      BY <1>t, FieldsServed
    <3> QED BY <1>t, <2>1, <2>3, <3>1, <3>2, OtherEnd
  <2> QED BY <1>10, <2>2, <2>3 DEF Resurrect
<1>11. CASE TrackChange
  <2> DEFINE changed == [conn EXCEPT ![cr.pc] = [@ EXCEPT !.changed = TRUE]]
             needed == NegotiationNeeded(cr)
             lacking == [needed EXCEPT !.missing = IF Initiator THEN @ ELSE TRUE]
             waiting == [needed EXCEPT !.pending = TRUE]
             failing == [cr EXCEPT !.pending = TRUE]
  <2>1. changed \in [Pcs -> PeerConnection]
    <3>1. CASE cr.pc \in Pcs
      BY <1>t, <3>1, EventTypes
    <3>2. CASE cr.pc \notin Pcs
      BY <1>t, <3>2
    <3> QED BY <3>1, <3>2
  <2>2. /\ lacking \in ConnectionRecord /\ waiting \in ConnectionRecord
        /\ failing \in ConnectionRecord
        /\ \A s \in {lacking, waiting, failing} :
             s.pc = cr.pc /\ s.pendingCandidates = cr.pendingCandidates
        /\ lacking.needsNegotiation /\ waiting.needsNegotiation
        /\ failing.needsNegotiation = cr.needsNegotiation
        /\ failing.queuedNegotiation = cr.queuedNegotiation
    <3>1. /\ needed \in ConnectionRecord /\ needed.pc = cr.pc /\ needed.needsNegotiation
          /\ needed.pendingCandidates = cr.pendingCandidates
      BY <1>t DEF NegotiationNeeded, ConnectionRecord
    <3> HIDE DEF needed
    <3> QED BY <1>t, <3>1 DEF ConnectionRecord
  <2>3. Append(toClient, "transceiver") \in Seq(ClientMessage)
    BY <1>t DEF ClientMessage
  <2>4. /\ \/ MaybeNegotiateAndUnlock(cr, conn, toClient)
           \/ MaybeNegotiateAndUnlock(lacking, changed, toClient)
           \/ MaybeNegotiateAndUnlock(waiting, conn, Append(toClient, "transceiver"))
           \/ Fail(failing, conn, toClient)
        /\ UNCHANGED <<role, handler, clientVars, removed, closed>>
    BY <1>11 DEF TrackChange
  <2>5. \A x \in Pcs : changed[x].remote = conn[x].remote
    BY <1>t DEF PeerConnection
  <2> HIDE DEF changed, lacking, waiting, failing
  <2>6. /\ ChangeServed(lacking, changed, toClient, OfferOnItsWay)
        /\ ChangeServed(waiting, conn, Append(toClient, "transceiver"), OfferOnItsWay)
        /\ ChangeServed(cr, conn, toClient, OfferOnItsWay) =>
             ChangeServed(failing, conn, toClient, OfferOnItsWay)
    BY <2>2 DEF ChangeServed
  <2>7. \A b : CandidatesWait(cr, conn, b) =>
          /\ CandidatesWait(lacking, changed, b)
          /\ CandidatesWait(waiting, conn, b)
          /\ CandidatesWait(failing, conn, b)
    BY <1>t, <2>2, <2>5 DEF CandidatesWait
  <2> QED BY <1>t, <2>1, <2>2, <2>3, <2>4, <2>6, <2>7, OtherEnd
<1>12. CASE UserCloses \/ Stop
  <2>1. /\ UNCHANGED <<role, cr, conn, wsUp, handler, toClient, clientVars>>
        /\ removed => removed'
        /\ closed => closed'
    BY <1>12 DEF UserCloses, Stop, recordVars
  <2>2. OfferOnItsWay => OfferOnItsWay'
    BY <2>1 DEF OfferOnItsWay, clientVars
  <2>3. Asked(toClient) => Asked(toClient')
    BY <2>1
  <2> QED BY <1>m, <2>1, <2>2, <2>3
<1> QED BY <1>1, <1>2, <1>3, <1>4, <1>5, <1>6, <1>7, <1>8, <1>9, <1>10, <1>11, <1>12 DEF Remote

LEMMA ServedInit ==
  ASSUME NegotiationAssumption, Init PROVE ServedInv
<1>1. cr.pc = NoPc /\ handler.at = "idle"
  <2>1. \A b : [NewConnectionRecord EXCEPT !.isNegotiating = b].pc = NoPc
    BY DEF NewConnectionRecord
  <2> QED BY <2>1 DEF Init, Idle
<1> QED BY <1>1 DEF ServedInv, ChangeServed, CandidatesWait

THEOREM ServedCorrect == Spec => [](TypeOK /\ ServedInv)
<1>1. Init => ServedInv
  BY NegotiationAssumption, ServedInit
<1>2. TypeOK /\ ServedInv /\ [Next]_vars => ServedInv'
  <2>1. TypeOK /\ ServedInv /\ Next => ServedInv'
    BY NegotiationAssumption, ServedHandler, ServedOther DEF Next
  <2>2. ServedInv /\ UNCHANGED vars => ServedInv'
    BY DEF vars, recordVars, lifeVars, clientVars, ServedInv, Ongoing, OfferOnItsWay,
           ChangeServed, CandidatesWait, Initiator
  <2> QED BY <2>1, <2>2
<1> QED BY <1>1, <1>2, TypeCorrect, PTL DEF Spec

(* No change of the tracks is lost: whatever restarts, callbacks and       *)
(* failed writes come in between, a request is waiting or queued, or the   *)
(* remote has been asked or its offer is on its way, until a description   *)
(* has the change.                                                         *)
THEOREM UpdatesAreServed == Spec => []NoLostUpdate
<1>1. TypeOK /\ ServedInv => NoLostUpdate
  <2>1. ASSUME TypeOK, Asked(toClient) \/ OfferOnItsWay PROVE RemoteAsked
    <3>1. DOMAIN toClient = 1..Len(toClient) /\ DOMAIN toServer = 1..Len(toServer)
      BY <2>1 DEF TypeOK
    <3> QED BY <2>1, <3>1 DEF RemoteAsked, Asked, OfferOnItsWay
  <2> QED BY <2>1 DEF ServedInv, NoLostUpdate, Live, Ongoing, ChangeServed
<1> QED BY <1>1, ServedCorrect, PTL

(* A candidate that came before the remote's description does not stay     *)
(* behind when the handler is done with that: the one goroutine that       *)
(* gives a peer connection its description flushes them afterwards.        *)
THEOREM CandidatesAreApplied == Spec => []CandidatesApplied
<1>1. ServedInv => CandidatesApplied
  BY DEF ServedInv, CandidatesApplied, Live, CandidatesWait
<1> QED BY <1>1, ServedCorrect, PTL
=============================================================================
