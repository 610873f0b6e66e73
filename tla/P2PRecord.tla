----------------------------- MODULE P2PRecord -----------------------------
(***************************************************************************)
(* One P2PRecord (p2precord.go): the WebRTC connection for a stream that   *)
(* is announced over a data channel, negotiated over that data channel.    *)
(*                                                                         *)
(* An incoming record receives the stream from its source.  An outgoing    *)
(* one, at the connection to a target, sends it on: a new peer connection  *)
(* is given the track that the source's record has at that moment, and     *)
(* the track worker adds and removes tracks later.  P2P says how records   *)
(* come to be, Negotiation describes the same protocol for the records     *)
(* that are negotiated over the websocket.                                 *)
(*                                                                         *)
(* A critical section is one step.  The handler of the data channel's      *)
(* messages gives up the lock for an SDP and goes on with the peer         *)
(* connection it captured.  A reset takes the record's data channel and    *)
(* its source from it, and nothing gives it others.                        *)
(***************************************************************************)
EXTENDS Naturals, Sequences

CONSTANTS
  Roles,         \* the kinds of record that there are
  MaxPc,         \* bound: peer connections ever created
  MaxRpc,        \* bound: incarnations of the remote
  MaxTracks,     \* bound: tracks of the source
  MaxFaults      \* bound: failures of connections and writes

ASSUME P2PRecordAssumption ==
  /\ Roles \subseteq [initiator : BOOLEAN, incoming : BOOLEAN, codec : BOOLEAN]
  /\ MaxPc \in Nat
  /\ MaxRpc \in Nat \ {0}
  /\ MaxTracks \in Nat
  /\ MaxFaults \in Nat

NoPc == 0
NoId == 0
NoTrack == 0
Pcs == 1..MaxPc
Tracks == 1..MaxTracks

VARIABLES
  role,      \* what never changes of the record
  rec,       \* the record
  conn,      \* the peer connections, by number
  lastPc,    \* how many of them have been created
  handler,   \* handleWebRTCSignalMessage
  session,   \* of the parent record, see below
  toClient,  \* messages in the data channel to the remote
  toServer,  \* messages in the data channel from the remote
  client,    \* the remote
  source,    \* the track that the source's record has
  pump,      \* of each track of the source, the goroutine that reads it
  trackCh,   \* the changes that the track worker has to make
  faults     \* failures so far

recordVars == <<rec, conn, toClient>>
clientVars == <<toServer, client>>
sourceVars == <<source, pump, trackCh>>
vars == <<role, recordVars, lastPc, handler, session, clientVars, sourceVars, faults>>

Initiator == role.initiator   \* parent.initiator
Incoming == role.incoming     \* made by handleAnnounceStreams, without source
Codec == role.codec           \* of the tracks, one that the other side has too

(* The parent has its data channel; that is gone, but not the parent's     *)
(* context; the parent is reset; the Channel is closed.                    *)
Session == {"up", "down", "done", "closed"}
Closed == session = "closed"
CtxDone == session \in {"done", "closed"}
Later == [up |-> {"down", "done", "closed"}, down |-> {"done", "closed"},
          done |-> {"closed"}, closed |-> {}]

SignalingState ==
  {"new", "stable", "have-local-offer", "have-remote-offer", "closed"}
(* A request for a transceiver names its track, an offer the tracks that   *)
(* it has a media line with their codec for.                               *)
ClientMessage ==
  [type : {"offer", "answer", "renegotiate"}, tracks : {{}}]
    \cup [type : {"transceiver"}, tracks : SUBSET Tracks]
ServerMessage ==
  [type : {"offer", "answer", "renegotiate", "noop", "candidate", "transceiver"},
   pcid : 0..MaxRpc, lines : SUBSET Tracks]
(* nil, or made from a description without or with the codec.              *)
Media == {"none", "other", "codec"}
HandlerPoint == {"idle", "media", "restart", "create", "remote", "local", "finish"}
PumpPoint == {"none", "announce", "reading", "remove", "done"}
Change == [track : Tracks, remove : BOOLEAN]

Record ==
  [pc : Pcs \cup {NoPc}, rpcid : 0..MaxRpc,
   dataChannel : BOOLEAN, source : BOOLEAN,   \* not nil
   needsNegotiation : BOOLEAN,                \* the channel of that name is full
   isNegotiating : BOOLEAN, queuedNegotiation : BOOLEAN,
   pendingCandidates : BOOLEAN,               \* there are some
   media : Media,                             \* an answerer's webrtcMedia, see below
   tracks : SUBSET Tracks, pending : SUBSET Tracks,
   senders : [Tracks -> Pcs \cup {NoPc}],     \* the peer connection of each
   requested : SUBSET Tracks]                 \* requestedTransceivers
PeerConnection ==
  [signaling : SignalingState,
   remote : BOOLEAN,            \* it has a remote description
   changed : BOOLEAN,           \* its tracks, since its last local description
   failed : BOOLEAN,            \* an offer of it failed
   peer : 0..MaxRpc,            \* the incarnation it was created for
   stables : Nat,               \* callbacks started for a stable state
   destroys : Nat]              \* callbacks started that call destroy

TypeOK ==
  /\ role \in Roles
  /\ rec \in Record
  /\ conn \in [Pcs -> PeerConnection]
  /\ lastPc \in 0..MaxPc
  /\ handler \in [at : HandlerPoint, pc : Pcs \cup {NoPc}, msg : ServerMessage]
  /\ session \in Session
  /\ toClient \in Seq(ClientMessage)
  /\ toServer \in Seq(ServerMessage)
  /\ client \in [pcid : 1..MaxRpc, owes : BOOLEAN, awaits : BOOLEAN, extra : BOOLEAN,
                 lines : SUBSET Tracks]
  /\ source \in Tracks \cup {NoTrack}
  /\ pump \in [Tracks -> PumpPoint]
  /\ trackCh \in Seq(Change)
  /\ faults \in 0..MaxFaults

-----------------------------------------------------------------------------
(* Operations on the record r, the peer connections k and the queue q to   *)
(* the remote. *)

NewRecord ==
  [pc |-> NoPc, rpcid |-> NoId, dataChannel |-> TRUE, source |-> ~Incoming,
   needsNegotiation |-> FALSE, isNegotiating |-> FALSE, queuedNegotiation |-> FALSE,
   pendingCandidates |-> FALSE, media |-> "none",
   tracks |-> {}, pending |-> {}, senders |-> [x \in Tracks |-> NoPc], requested |-> {}]

NewPeerConnection ==
  [signaling |-> "stable", remote |-> FALSE, changed |-> FALSE,
   failed |-> FALSE, peer |-> NoId, stables |-> 0, destroys |-> 0]

(* Both the ICE and the connection state become closed, and each of the    *)
(* two callbacks calls destroy.                                            *)
Close(k, p) ==
  IF p = NoPc \/ k[p].signaling = "closed" THEN k
  ELSE [k EXCEPT ![p] = [@ EXCEPT !.signaling = "closed", !.changed = FALSE,
                                  !.failed = FALSE, !.destroys = k[p].destroys + 2]]

(* What a reset and a clear have in common.                                *)
Emptied(r) ==
  [NewRecord EXCEPT
     !.dataChannel = r.dataChannel, !.source = r.source,
     !.media = IF r.pc = NoPc THEN r.media ELSE "none"]

(* The candidates stay.                                                    *)
Reset(r) ==
  [Emptied(r) EXCEPT !.dataChannel = FALSE, !.source = FALSE,
                     !.pendingCandidates = r.pendingCandidates]

(* The senders stay.                                                       *)
ClearPeerConnection(r) ==
  IF r.pc = NoPc THEN r ELSE [Emptied(r) EXCEPT !.senders = r.senders]

Say(type) == [type |-> type, tracks |-> {}]
Ask(asked) == [type |-> "transceiver", tracks |-> asked]

NegotiationNeeded(r) == [r EXCEPT !.needsNegotiation = TRUE]

Leave(r, k, q) ==
  /\ rec' = r
  /\ conn' = k
  /\ toClient' = q

CanSend(r) == r.dataChannel /\ session = "up"

Negotiating(r) == [r EXCEPT !.isNegotiating = TRUE]

(* Mutant: a request during a negotiation is taken and forgotten.          *)
QueueForgotten(r) == r

Queued(r) == [r EXCEPT !.queuedNegotiation = TRUE]

(* An offer that is made and cannot be sent is an error like one that      *)
(* cannot be made.                                                         *)
CreateOffer(r, k, q) ==
  LET offered == [k EXCEPT ![r.pc] = [@ EXCEPT !.signaling = "have-local-offer",
                                               !.changed = FALSE]]
  IN \/ /\ k[r.pc].signaling = "stable"
        /\ IF CanSend(r) THEN Leave(Negotiating(r), offered, Append(q, Say("offer")))
           ELSE Leave(r, offered, q)
     \/ Leave(r, [k EXCEPT ![r.pc] = [@ EXCEPT !.failed = TRUE]], q)

Negotiate(r, k, q) ==
  \/ /\ Initiator /\ r.pc = NoPc
     /\ Leave(Negotiating(r), k, q)
  \/ /\ Initiator /\ r.pc # NoPc /\ ~r.isNegotiating
     /\ CreateOffer(r, k, q)
  \/ /\ r.isNegotiating
     /\ Initiator => r.pc # NoPc
     /\ Leave(Queued(r), k, q)
  \/ /\ ~Initiator /\ ~r.isNegotiating
     /\ IF CanSend(r) THEN Leave(Negotiating(r), k, Append(q, Say("renegotiate")))
        ELSE Leave(r, k, q)

(* select: a done context and a pending request are both ready.            *)
MaybeNegotiateAndUnlock(r, k, q) ==
  \/ /\ r.needsNegotiation
     /\ Negotiate([r EXCEPT !.needsNegotiation = FALSE], k, q)
  \/ /\ r.needsNegotiation => CtxDone
     /\ Leave(r, k, q)

-----------------------------------------------------------------------------
(* Tracks. *)

(* Mutant: a track that waits for its transceiver stays there.             *)
RemovedButPending(r, x) ==
  [r EXCEPT !.tracks = @ \ {x}, !.senders = [@ EXCEPT ![x] = NoPc]]

(* Mutant: tracks are deleted by kind here too.                            *)
RemovedByKind(r, x) ==
  [r EXCEPT !.pending = {}, !.tracks = {}, !.senders = [@ EXCEPT ![x] = NoPc]]

Removed(r, x) ==
  [r EXCEPT !.pending = @ \ {x}, !.tracks = @ \ {x}, !.senders = [@ EXCEPT ![x] = NoPc]]

Added(r, x) == [r EXCEPT !.tracks = @ \cup {x}, !.senders = [@ EXCEPT ![x] = r.pc]]

(* An initiator knows the codecs that it offers.                           *)
HasCodec(r) == Codec /\ (Initiator \/ r.media = "codec")

Changed(k, p) == [k EXCEPT ![p] = [@ EXCEPT !.changed = TRUE]]

Pended(r, x) == [r EXCEPT !.pending = @ \cup {x}, !.requested = @ \cup {x}]

(* Mutant: the remote is asked for a transceiver once for the kind.        *)
TransceiverByKind(r, x) == IF r.requested # {} THEN <<>> ELSE <<Ask({x})>>

(* The remote is asked for a transceiver once for each track.              *)
TransceiverRequest(r, x) == IF x \in r.requested THEN <<>> ELSE <<Ask({x})>>

(* addTrack by the track worker.  An answerer needs the transceiver that   *)
(* its remote adds; a TrackRecord that another target waits with counts as *)
(* having one.  It also needs the codec, and waits for that too.           *)
AddTrack(x) ==
  \/ /\ \/ HasCodec(rec) /\ (x \in rec.tracks \/ conn[rec.pc].signaling = "closed")
        \/ ~HasCodec(rec) /\ Initiator
     /\ MaybeNegotiateAndUnlock(rec, conn, toClient)
  \/ /\ HasCodec(rec)
     /\ x \notin rec.tracks /\ conn[rec.pc].signaling # "closed"
     /\ MaybeNegotiateAndUnlock(
          NegotiationNeeded(Added(rec, x)), Changed(conn, rec.pc), toClient)
  \/ /\ ~Initiator
     /\ LET asks == TransceiverRequest(rec, x) IN
        IF x \in rec.pending
        THEN MaybeNegotiateAndUnlock(NegotiationNeeded(rec), conn, toClient)
        ELSE IF asks = <<>> \/ CanSend(rec)
        THEN MaybeNegotiateAndUnlock(
               NegotiationNeeded(Pended(rec, x)), conn, toClient \o asks)
        ELSE MaybeNegotiateAndUnlock(Pended(rec, x), conn, toClient)

(* A sender that an earlier peer connection made, and one of a closed peer *)
(* connection, are errors.                                                 *)
RemoveTrack(x) ==
  LET r == Removed(rec, x)
      p == rec.senders[x]
  IN IF p = NoPc THEN MaybeNegotiateAndUnlock(NegotiationNeeded(r), conn, toClient)
     ELSE IF p = rec.pc /\ conn[p].signaling # "closed"
     THEN MaybeNegotiateAndUnlock(NegotiationNeeded(r), Changed(conn, p), toClient)
     ELSE MaybeNegotiateAndUnlock(r, conn, toClient)

(* The track that a new peer connection gets from the source's record.     *)
Given(r) == IF r.source THEN {source} \ {NoTrack} ELSE {}

(* createPeerConnection; creating can fail, and the caller then resets.    *)
(* An initiator gets no track with another codec than those it offers; an  *)
(* answerer without data channel cannot ask for a transceiver.             *)
(* bound: MaxPc peer connections, a failure when they are used up.         *)
CanCreate(r) ==
  /\ lastPc < MaxPc
  /\ Initiator \/ r.media # "none"
  /\ Given(r) = {} \/ IF Initiator THEN Codec ELSE CanSend(r)

CreatePeerConnection(r, rpcid) ==
  LET p == lastPc + 1
      bound == [r EXCEPT !.pc = p, !.rpcid = rpcid,
                         !.isNegotiating = FALSE]
  IN IF Initiator
     THEN NegotiationNeeded(
            [bound EXCEPT !.tracks = Given(r),
                          !.senders = [x \in Tracks |-> IF x \in Given(r) THEN p ELSE @[x]]])
     ELSE [bound EXCEPT !.pending = Given(r), !.requested = Given(r)]

Created(k, r, pcid) ==
  [k EXCEPT ![lastPc + 1] =
     [NewPeerConnection EXCEPT !.changed = Initiator /\ Given(r) # {}, !.peer = pcid]]

Asked(r, q) == IF Initiator \/ Given(r) = {} THEN q ELSE Append(q, Ask(Given(r)))

-----------------------------------------------------------------------------
(* handleWebRTCSignalMessage. *)

Message(type, pcid) == [type |-> type, pcid |-> pcid, lines |-> {}]
Idle == [at |-> "idle", pc |-> NoPc, msg |-> Message("candidate", NoId)]

(* The deferred function: it negotiates unless the peer connection is not  *)
(* the one captured, p.                                                    *)
Return(r, k, q, p) ==
  /\ handler' = Idle
  /\ IF r.pc = p THEN MaybeNegotiateAndUnlock(r, k, q) ELSE Leave(r, k, q)

(* A message with another pcid than the record is bound to.                *)
Rebound(r, pcid) ==
  IF r.rpcid # NoId /\ pcid # r.rpcid THEN ClearPeerConnection(r)
  ELSE IF r.pc # NoPc /\ r.rpcid = NoId THEN [r EXCEPT !.rpcid = pcid]
  ELSE r

(* Mutant: clearPeerConnection does not close.                             *)
ReboundOpen(pcid) == conn

ReboundConn(pcid) ==
  IF rec.rpcid # NoId /\ pcid # rec.rpcid THEN Close(conn, rec.pc) ELSE conn

Receive ==
  /\ handler.at = "idle"
  /\ toServer # <<>>
  /\ toServer' = Tail(toServer)
  /\ UNCHANGED <<session, client, sourceVars, faults>>

HandleRenegotiate ==
  LET m == Head(toServer)
      r == Rebound(rec, m.pcid)
      k == ReboundConn(m.pcid)
  IN /\ Receive
     /\ m.type \in {"renegotiate", "noop"}
     /\ \/ /\ ~Initiator \/ (m.type = "noop" /\ r.pc # NoPc)
           /\ Return(r, k, toClient, rec.pc)
           /\ UNCHANGED lastPc
        \/ /\ Initiator /\ r.pc # NoPc /\ m.type = "renegotiate"
           /\ Return(NegotiationNeeded(r), k, toClient, r.pc)
           /\ UNCHANGED lastPc
        \/ /\ Initiator /\ r.pc = NoPc /\ CanCreate(r)
           /\ lastPc' = lastPc + 1
           /\ Return(CreatePeerConnection(r, m.pcid), Created(k, r, m.pcid), toClient, lastPc + 1)
        \/ /\ Initiator /\ r.pc = NoPc
           /\ Return(Reset(r), k, toClient, rec.pc)
           /\ UNCHANGED lastPc

(* A candidate is added to the captured peer connection when that has a    *)
(* remote description, and kept for later otherwise.                       *)
HandleCandidate ==
  LET m == Head(toServer)
      r == Rebound(rec, m.pcid)
      k == ReboundConn(m.pcid)
      ready == rec.pc # NoPc /\ conn[rec.pc].remote
  IN /\ Receive
     /\ m.type = "candidate"
     /\ \/ ready /\ Return(r, k, toClient, rec.pc)
        \/ ready /\ Return(Reset(r), Close(k, r.pc), toClient, rec.pc)
        \/ ~ready /\ Return([r EXCEPT !.pendingCandidates = TRUE], k, toClient, rec.pc)
     /\ UNCHANGED lastPc

(* An initiator looks for the transceiver request in the SDP of the        *)
(* message, finds no JSON there and returns the error.                     *)
HandleTransceiverRequest ==
  LET m == Head(toServer) IN
  /\ Receive
  /\ m.type = "transceiver"
  /\ Return(Rebound(rec, m.pcid), ReboundConn(m.pcid), toClient, rec.pc)
  /\ UNCHANGED lastPc

(* The lock is given up before the SDP is looked at.                       *)
HandleSDP ==
  LET m == Head(toServer) IN
  /\ Receive
  /\ m.type \in {"offer", "answer"}
  /\ Leave(Rebound(rec, m.pcid), ReboundConn(m.pcid), toClient)
  /\ handler' = [at |-> IF ~Initiator THEN "media"
                        ELSE IF rec.pc = NoPc THEN "restart" ELSE "remote",
                 pc |-> rec.pc, msg |-> m]
  /\ UNCHANGED lastPc

handlerEnv == <<session, clientVars, sourceVars, faults>>
Goto(at, p) == handler' = [handler EXCEPT !.at = at, !.pc = p]

(* reset, also without the lock, from the unlocked part of the handler.    *)
ResetReturn ==
  /\ Return(Reset(rec), Close(conn, rec.pc), toClient, handler.pc)
  /\ UNCHANGED lastPc

(* lock() found another peer connection than the captured one.             *)
Replaced ==
  /\ rec.pc # handler.pc
  /\ handler' = Idle
  /\ UNCHANGED <<recordVars, lastPc>>

(* The media engine of an answerer comes from the remote's description.    *)
UpdateMedia ==
  /\ handler.at = "media"
  /\ \/ ResetReturn
     \/ Replaced
     \/ /\ rec.pc = handler.pc
        /\ Leave([rec EXCEPT !.media = IF handler.msg.lines = {} THEN "other" ELSE "codec"],
                 conn, toClient)
        /\ Goto(IF handler.pc = NoPc THEN "create" ELSE "remote", handler.pc)
        /\ UNCHANGED lastPc
  /\ UNCHANGED handlerEnv

(* An SDP for an initiator without peer connection is ignored, and a       *)
(* negotiation started instead; the request is made without the lock.      *)
RequestRestart ==
  /\ handler.at = "restart"
  /\ Leave(NegotiationNeeded(rec), conn, toClient)
  /\ Goto("create", handler.pc)
  /\ UNCHANGED <<lastPc, handlerEnv>>

CreateForSDP ==
  /\ handler.at = "create"
  /\ \/ Replaced
     \/ rec.pc = handler.pc /\ ResetReturn
     \/ /\ rec.pc = handler.pc
        /\ CanCreate(rec)
        /\ lastPc' = lastPc + 1
        /\ Leave(CreatePeerConnection(rec, NoId), Created(conn, rec, handler.msg.pcid),
                 Asked(rec, toClient))
        /\ Goto(IF Initiator THEN "finish" ELSE "remote", lastPc + 1)
  /\ UNCHANGED handlerEnv

(* On the captured peer connection, without the lock; it can fail, and     *)
(* must in the wrong signaling state.                                      *)
SetRemoteDescription ==
  LET p == handler.pc
      legal == conn[p].signaling =
                 IF handler.msg.type = "offer" THEN "stable" ELSE "have-local-offer"
      set == IF handler.msg.type = "offer"
             THEN [conn EXCEPT ![p] = [@ EXCEPT !.signaling = "have-remote-offer",
                                                !.remote = TRUE]]
             ELSE [conn EXCEPT ![p] = [@ EXCEPT !.signaling = "stable", !.remote = TRUE,
                                                !.stables = conn[p].stables + 1]]
  IN /\ handler.at = "remote"
     /\ \/ ResetReturn
        \/ /\ legal
           /\ Leave(rec, set, toClient)
           /\ Goto("local", p)
           /\ UNCHANGED lastPc
     /\ UNCHANGED handlerEnv

Flushed(r) == [r EXCEPT !.pendingCandidates = FALSE]

(* The tracks that waited for the remote's transceivers are added, if its  *)
(* description has their codec; those that the record has already are      *)
(* errors.  Otherwise they go on waiting, and nothing is negotiated.       *)
PendingAdded(r) ==
  LET added == r.pending \ r.tracks
      s == [r EXCEPT !.pending = {}, !.tracks = @ \cup added,
                     !.senders = [x \in Tracks |-> IF x \in added THEN r.pc ELSE @[x]]]
  IN IF ~HasCodec(r) THEN r
     ELSE IF added = {} THEN s ELSE NegotiationNeeded(s)

(* The answer describes what the offer has a line for; a track may have    *)
(* the line that was meant for another one.  A transceiver is requested    *)
(* for each track that none was requested for.                             *)
CreateAnswer(r, k, q) ==
  LET p == r.pc
      missing == IF Initiator THEN {} ELSE r.tracks \ r.requested
      message == IF missing = {} THEN <<Say("answer")>> ELSE <<Say("answer"), Ask(missing)>>
  IN \E changed \in BOOLEAN :
       /\ changed => ~Initiator /\ ~(r.tracks \subseteq handler.msg.lines)
       /\ ~changed => handler.msg.lines # {} \/ r.tracks = {}
       /\ Leave([r EXCEPT !.requested = @ \cup missing],
                [k EXCEPT ![p] = [@ EXCEPT !.signaling = "stable", !.changed = changed,
                                           !.stables = k[p].stables + 1]],
                IF CanSend(r) THEN q \o message ELSE q)

(* With the lock again: the pending candidates, and for an offer the       *)
(* pending tracks and the answer.                                          *)
ApplyRemoteDescription ==
  LET p == handler.pc IN
  /\ handler.at = "local"
  /\ \/ Replaced
     \/ rec.pc = p /\ ResetReturn
     \/ /\ rec.pc = p
        /\ handler.msg.type = "answer"
        /\ Leave(Flushed(rec), conn, toClient)
        /\ Goto("finish", p)
        /\ UNCHANGED lastPc
     \/ /\ rec.pc = p
        /\ handler.msg.type = "offer"
        /\ conn[p].signaling = "have-remote-offer"
        /\ CreateAnswer(PendingAdded(Flushed(rec)), conn, toClient)
        /\ Goto("finish", p)
        /\ UNCHANGED lastPc
  /\ UNCHANGED handlerEnv

Finish ==
  /\ handler.at = "finish"
  /\ Return(rec, conn, toClient, handler.pc)
  /\ UNCHANGED <<lastPc, handlerEnv>>

-----------------------------------------------------------------------------
(* The source's record and the track worker. *)

recordEnv == <<lastPc, handler, session, clientVars, faults>>

(* OnTrack: a second track is ignored while the record has one.            *)
OnTrack(x) ==
  /\ ~Incoming /\ ~Closed
  /\ pump[x] = "none" /\ \A y \in Tracks : y < x => pump[y] # "none"
  /\ source = NoTrack
  /\ source' = x
  /\ pump' = [pump EXCEPT ![x] = "announce"]
  /\ UNCHANGED <<trackCh, recordVars, recordEnv>>

PumpAnnounces(x) ==
  /\ pump[x] = "announce"
  /\ pump' = [pump EXCEPT ![x] = "reading"]
  /\ trackCh' = Append(trackCh, [track |-> x, remove |-> FALSE])
  /\ UNCHANGED <<source, recordVars, recordEnv>>

(* The track ends.  It is deleted by kind: whichever the record has now.   *)
PumpEnds(x) ==
  /\ pump[x] = "reading"
  /\ pump' = [pump EXCEPT ![x] = "remove"]
  /\ source' = NoTrack
  /\ UNCHANGED <<trackCh, recordVars, recordEnv>>

PumpRemoves(x) ==
  /\ pump[x] = "remove"
  /\ pump' = [pump EXCEPT ![x] = "done"]
  /\ trackCh' = Append(trackCh, [track |-> x, remove |-> TRUE])
  /\ UNCHANGED <<source, recordVars, recordEnv>>

(* The source's record is reset or cleared; the track may end later.       *)
SourceReset ==
  /\ source # NoTrack
  /\ source' = NoTrack
  /\ UNCHANGED <<pump, trackCh, recordVars, recordEnv>>

(* When the data channel is gone the record may be in no map any more; the *)
(* worker ends when the Channel is closed.                                 *)
TrackWorker ==
  /\ trackCh # <<>>
  /\ trackCh' = Tail(trackCh)
  /\ LET c == Head(trackCh) IN
     \/ session # "up" /\ UNCHANGED recordVars
     \/ /\ Closed \/ rec.pc = NoPc
        /\ MaybeNegotiateAndUnlock(rec, conn, toClient)
     \/ /\ ~Closed /\ rec.pc # NoPc
        /\ IF c.remove THEN RemoveTrack(c.track) ELSE AddTrack(c.track)
  /\ UNCHANGED <<source, pump, recordEnv>>

-----------------------------------------------------------------------------
(* Callbacks and failures. *)

otherEnv == <<lastPc, handler, session, clientVars, sourceVars>>

(* OnSignalingStateChange with the stable state.                           *)
OnStable(p) ==
  LET run == [conn EXCEPT ![p] = [@ EXCEPT !.stables = conn[p].stables - 1]]
      done == [rec EXCEPT !.isNegotiating = FALSE, !.queuedNegotiation = FALSE,
                          !.needsNegotiation = @ \/ rec.queuedNegotiation]
  IN /\ conn[p].stables > 0
     /\ \/ (Closed \/ rec.pc # p) /\ Leave(rec, run, toClient)
        \/ /\ ~Closed /\ rec.pc = p
           /\ MaybeNegotiateAndUnlock(IF rec.isNegotiating THEN done ELSE rec, run, toClient)
     /\ UNCHANGED <<otherEnv, faults>>

(* destroy: it does nothing when the peer connection has been replaced.    *)
Destroy(p) ==
  LET run == [conn EXCEPT ![p] = [@ EXCEPT !.destroys = conn[p].destroys - 1]]
  IN /\ conn[p].destroys > 0
     /\ \/ /\ Closed \/ rec.pc \notin {NoPc, p}
           /\ Leave(rec, run, toClient)
        \/ /\ ~Closed /\ rec.pc \in {NoPc, p}
           /\ Leave(Reset(rec), Close(run, rec.pc), toClient)
     /\ UNCHANGED <<otherEnv, faults>>

(* bound: MaxFaults. *)
Fault ==
  /\ session = "up"
  /\ faults < MaxFaults
  /\ faults' = faults + 1
  /\ UNCHANGED otherEnv

ConnectionFails(p) ==
  /\ conn[p].signaling \notin {"new", "closed"}
  /\ conn[p].destroys = 0
  /\ Leave(rec, [conn EXCEPT ![p] = [@ EXCEPT !.destroys = conn[p].destroys + 1]],
           toClient)
  /\ Fault

(* The goroutine that writes the source's packets could not write to a     *)
(* track it found; it resets the record, whatever became of it since.      *)
WriteFails ==
  /\ \E x \in Tracks : pump[x] # "none"
  /\ lastPc > 0
  /\ Leave(Reset(rec), Close(conn, rec.pc), toClient)
  /\ Fault

(* The parent loses its peer connection, is reset, or the Channel closed.  *)
SessionEnds ==
  /\ session' \in Later[session]
  /\ toClient' = <<>> /\ toServer' = <<>>
  /\ UNCHANGED <<rec, conn, lastPc, handler, client, sourceVars, faults>>

-----------------------------------------------------------------------------
(* The remote: it answers every offer, makes an offer for every request    *)
(* unless it waits for an answer, and may start over.                      *)

(* The lines it has unasked: none, or enough for every track.              *)
OwnLines == IF Initiator \/ Incoming \/ ~Codec THEN {{}} ELSE {{}, Tracks}

clientEnv == <<rec, conn, lastPc, handler, session, sourceVars, faults>>

(* For a transceiver it has a line with the codec, if it has the codec.    *)
ClientReceive ==
  /\ toClient # <<>>
  /\ toClient' = Tail(toClient)
  /\ LET m == Head(toClient)
     IN /\ client' = [client EXCEPT !.owes = @ \/ m.type \in {"renegotiate", "transceiver"},
                                    !.awaits = @ /\ m.type # "answer",
                                    !.lines = IF Codec THEN @ \cup m.tracks ELSE @]
        /\ toServer' = IF m.type = "offer"
                       THEN Append(toServer, Message("answer", client.pcid))
                       ELSE toServer
  /\ UNCHANGED clientEnv

ClientOffer ==
  /\ session = "up"
  /\ ~Initiator
  /\ client.owes /\ ~client.awaits
  /\ client' = [client EXCEPT !.owes = FALSE, !.awaits = TRUE]
  /\ toServer' = Append(toServer, [Message("offer", client.pcid) EXCEPT !.lines = client.lines])
  /\ UNCHANGED <<toClient, clientEnv>>

(* Once per incarnation it sends something unasked.                        *)
ClientExtra ==
  /\ session = "up"
  /\ ~client.extra
  /\ client' = [client EXCEPT !.extra = TRUE]
  /\ \E type \in {"candidate"} \cup (IF Initiator THEN {"renegotiate", "transceiver"} ELSE {}) :
       toServer' = Append(toServer, Message(type, client.pcid))
  /\ UNCHANGED <<toClient, clientEnv>>

(* bound: MaxRpc incarnations.                                             *)
ClientRestart ==
  /\ session = "up"
  /\ client.pcid < MaxRpc
  /\ \E lines \in OwnLines :
       client' = [pcid |-> client.pcid + 1, owes |-> ~Initiator, awaits |-> FALSE,
                  extra |-> FALSE, lines |-> lines]
  /\ \/ ~Initiator /\ UNCHANGED toServer
     \/ /\ Initiator
        /\ \E type \in {"renegotiate", "noop"} :
             toServer' = Append(toServer, Message(type, client.pcid + 1))
  /\ UNCHANGED <<toClient, clientEnv>>

-----------------------------------------------------------------------------
(* An incoming record negotiates at once, without the lock; an outgoing    *)
(* one is announced, and its remote asks or offers.                        *)
Init ==
  /\ role \in Roles
  /\ rec = [NewRecord EXCEPT !.isNegotiating = Incoming]
  /\ conn = [p \in Pcs |-> [NewPeerConnection EXCEPT !.signaling = "new"]]
  /\ lastPc = 0
  /\ handler = Idle
  /\ session = "up"
  /\ toClient = IF Incoming /\ ~Initiator THEN <<Say("renegotiate")>> ELSE <<>>
  /\ \E lines \in OwnLines :
       client = [pcid |-> 1, owes |-> ~Initiator /\ ~Incoming, awaits |-> FALSE,
                 extra |-> FALSE, lines |-> lines]
  /\ toServer = IF Initiator THEN <<Message("renegotiate", 1)>> ELSE <<>>
  /\ source = NoTrack
  /\ pump = [x \in Tracks |-> "none"]
  /\ trackCh = <<>>
  /\ faults = 0

Handler ==
  \/ HandleRenegotiate \/ HandleCandidate \/ HandleTransceiverRequest
  \/ HandleSDP \/ UpdateMedia \/ RequestRestart \/ CreateForSDP
  \/ SetRemoteDescription \/ ApplyRemoteDescription \/ Finish

Remote == ClientReceive \/ ClientOffer
PumpStep(x) == PumpAnnounces(x) \/ PumpRemoves(x)

Next ==
  /\ \/ Handler \/ Remote \/ TrackWorker \/ SourceReset
     \/ \E x \in Tracks : OnTrack(x) \/ PumpStep(x) \/ PumpEnds(x)
     \/ \E p \in Pcs : OnStable(p) \/ Destroy(p) \/ ConnectionFails(p)
     \/ WriteFails \/ SessionEnds
     \/ ClientExtra \/ ClientRestart
  /\ UNCHANGED role

Spec == Init /\ [][Next]_vars

(* Goroutines that can go on do, and the remote, which is told something,  *)
(* reacts.  No track needs to come or to end.                              *)
FairSpec ==
  /\ Spec
  /\ WF_vars(Handler /\ UNCHANGED role)
  /\ WF_vars(Remote /\ UNCHANGED role)
  /\ WF_vars(TrackWorker /\ UNCHANGED role)
  /\ \A x \in Tracks : WF_vars(PumpStep(x) /\ UNCHANGED role)
  /\ \A p \in Pcs : /\ WF_vars(OnStable(p) /\ UNCHANGED role)
                    /\ WF_vars(Destroy(p) /\ UNCHANGED role)

-----------------------------------------------------------------------------
Forwarded == rec.tracks \cup rec.pending
Sends == rec.source /\ rec.pc # NoPc /\ conn[rec.pc].signaling # "closed"

(* A peer connection made for an SDP is bound to whichever incarnation of  *)
(* the remote sends the next message, and asks that for nothing again.     *)
Paired == Initiator \/ conn[rec.pc].peer = client.pcid

(* The pumps and the track worker have done what there was to do.          *)
Quiet ==
  /\ trackCh = <<>>
  /\ \A x \in Tracks : pump[x] \notin {"announce", "remove"}

(* Between what a new peer connection is given and what the worker adds    *)
(* and removes, no track is missed and none stays that has ended.          *)
TracksFollow ==
  Quiet /\ Sends /\ session = "up" =>
    /\ source # NoTrack /\ (Initiator => Codec) => source \in Forwarded
    /\ \A x \in Forwarded : pump[x] = "reading"

(* The remote has been asked for an offer, or its offer is on its way.     *)
RemoteAsked ==
  \/ \E i \in DOMAIN toClient : toClient[i].type \in {"renegotiate", "transceiver"}
  \/ client.owes
  \/ \E i \in DOMAIN toServer : toServer[i].type = "offer"
  \/ handler.at \in {"media", "create", "remote", "local"} /\ handler.msg.type = "offer"

(* There will be a line for the track x, or an offer with it is under way. *)
LineComes(x) ==
  \/ \E i \in DOMAIN toClient : x \in toClient[i].tracks
  \/ client.owes /\ x \in client.lines
  \/ \E i \in DOMAIN toServer : toServer[i].type = "offer" /\ x \in toServer[i].lines
  \/ /\ handler.at \in {"media", "create", "remote", "local"}
     /\ handler.msg.type = "offer" /\ x \in handler.msg.lines

(* No change of the tracks is lost: the handler is about to take up the    *)
(* request for it, or that is queued, or the remote's next offer brings    *)
(* it, until a description has it.  And a track that waits for its         *)
(* transceiver and its codec does so while the remote is to bring them,    *)
(* which it never does when it has not the codec.                          *)
NoLostUpdate ==
  Sends /\ session = "up" /\ ~conn[rec.pc].failed /\ Paired =>
    /\ conn[rec.pc].changed =>
         \/ rec.needsNegotiation /\ handler.at = "finish"
         \/ rec.queuedNegotiation
         \/ ~Initiator /\ RemoteAsked
    /\ Codec /\ ~Initiator =>
         \A x \in rec.pending \ rec.tracks : LineComes(x)

(* The track that the source has gets into a description for the remote:   *)
(* given or added, negotiated and, by an answerer, first asked for; unless *)
(* the track or the connection goes, an offer fails or another incarnation *)
(* of the remote takes the connection over.                                *)
Delivered == source \in rec.tracks /\ ~conn[rec.pc].changed
TrackReachesRemote ==
  Codec /\ Sends /\ source # NoTrack
    ~> \/ source = NoTrack \/ ~Sends \/ session # "up"
       \/ conn[rec.pc].failed \/ ~Paired \/ Delivered

-----------------------------------------------------------------------------
(* The record implements PeerConnections, as a ConnectionRecord does.      *)
Usage(c) ==
  CASE c.signaling = "new" -> "unused"
    [] c.signaling = "closed" -> "closed"
    [] OTHER -> "open"

PC == INSTANCE PeerConnections WITH
        current <- rec.pc, state <- [p \in Pcs |-> Usage(conn[p])]

(* A reset that hits a newer peer connection closes that one too: the      *)
(* record has one after the other, each closed before the next.            *)
ImplementsPeerConnections == PC!Spec

(* It also implements Distribution, as the only target of its source.      *)
TrackState(x) ==
  CASE pump[x] = "none" -> "new"
    [] pump[x] = "done" /\ (\A i \in 1..Len(trackCh) : trackCh[i].track # x) -> "gone"
    [] x = source -> "live"
    [] OTHER -> "leaving"

Connected == rec.pc # NoPc /\ session = "up"

D == INSTANCE Distribution WITH
       Targets <- {"target"},
       state <- [x \in Tracks |-> TrackState(x)],
       MaxConnections <- MaxPc,
       connection <- [t \in {"target"} |-> IF Connected THEN rec.pc ELSE NoPc],
       has <- [t \in {"target"} |-> IF Connected THEN Forwarded ELSE {}]

(* The track the source has is not taken from the record that was given it *)
(* and one that has ended never comes back, whether a new peer connection  *)
(* takes it from the source or the worker comes with changes.              *)
ImplementsDistribution == D!Spec
=============================================================================
