---------------------------- MODULE Negotiation ----------------------------
(***************************************************************************)
(* The WebRTC negotiation of one ConnectionRecord (connectionrecord.go)    *)
(* with the browser at the other end of the signalling websocket.          *)
(*                                                                         *)
(* Three kinds of goroutine work on the record, each taking its lock for   *)
(* one critical section at a time, and a critical section is one step:     *)
(*   - readPump, which runs handleWebRTCSignalMessage for one message      *)
(*     after the other.  It gives the lock up while it works on an SDP, so *)
(*     it is a process with a program counter, handler.at, and with the    *)
(*     peer connection it captured when it started, handler.pc;            *)
(*   - the track and receiver workers and the RTP pumps of other users;    *)
(*   - callbacks of pion, each in a goroutine of its own, so they run at   *)
(*     any time after the event: conn[p].stables and conn[p].destroys      *)
(*     count those that have been started and did not get the lock yet.    *)
(*                                                                         *)
(* Peer connections are numbered in the order they are created; pc = NoPc  *)
(* is the nil pointer.  The remote's pcid is the number of its             *)
(* incarnation, NoId is the empty string.  SDPs are not modelled, only     *)
(* that a peer connection has changes its last local description lacks.    *)
(***************************************************************************)
EXTENDS Naturals, Sequences

CONSTANTS
  Roles,         \* the kinds of record that there are
  MaxPc,         \* bound: peer connections ever created
  MaxRpc,        \* bound: incarnations of the remote
  MaxChanges,    \* bound: track changes
  MaxFaults      \* bound: failures of connections, data channels and writes

ASSUME NegotiationAssumption ==
  /\ Roles \subseteq [initiator : BOOLEAN, pipeline : BOOLEAN]
  /\ MaxPc \in Nat
  /\ MaxRpc \in Nat \ {0}
  /\ MaxChanges \in Nat
  /\ MaxFaults \in Nat

NoPc == 0
NoId == 0
Pcs == 1..MaxPc

VARIABLES
  role,      \* the fields of the ConnectionRecord that never change
  cr,        \* its other fields
  conn,      \* the peer connections, by number
  lastPc,    \* how many of them have been created
  handler,   \* handleWebRTCSignalMessage of the readPump
  removed,   \* the owner is closed, or the record out of its owner's maps
  killer,    \* the close goroutine of a user still has to reset the record
  closed,    \* channel.closed
  wsUp,      \* the websocket takes messages and its context is not done
  toClient,  \* messages on their way to the remote
  toServer,  \* messages on their way to the readPump
  client,    \* the remote
  changes,   \* track changes so far
  faults     \* failures so far

recordVars == <<cr, conn, toClient, wsUp>>
lifeVars == <<removed, killer, closed>>
clientVars == <<toServer, client>>
vars == <<role, recordVars, lastPc, handler, lifeVars, clientVars, changes, faults>>

Initiator == role.initiator   \* utils.ComputeInitiator(owner.id, target)
Pipeline == role.pipeline     \* pipeline # nil: the sender every user has

SignalingState ==
  {"new", "stable", "have-local-offer", "have-remote-offer", "closed"}
ClientMessage == {"offer", "answer", "renegotiate", "transceiver"}
ServerMessage ==
  [type : {"offer", "answer", "renegotiate", "noop", "candidate", "transceiver"},
   pcid : 0..MaxRpc]
HandlerPoint == {"idle", "media", "restart", "create", "remote", "local", "finish"}

ConnectionRecord ==
  [pc : Pcs \cup {NoPc}, rpcid : 0..MaxRpc,
   needsNegotiation : BOOLEAN,  \* the channel of that name is full
   isNegotiating : BOOLEAN, queuedNegotiation : BOOLEAN,
   pendingCandidates : BOOLEAN, \* there are some
   media : BOOLEAN,             \* webrtcMedia # nil
   pending : BOOLEAN,           \* record.pending holds a track
   missing : BOOLEAN]           \* a track's transceiver is still unrequested
PeerConnection ==
  [signaling : SignalingState,
   remote : BOOLEAN,            \* it has a remote description
   changed : BOOLEAN,           \* its tracks, since its last local description
   failed : BOOLEAN,            \* an offer of it failed
   stables : Nat,               \* callbacks started for a stable state
   destroys : Nat]              \* callbacks started that call destroy

TypeOK ==
  /\ role \in Roles
  /\ cr \in ConnectionRecord
  /\ conn \in [Pcs -> PeerConnection]
  /\ lastPc \in 0..MaxPc
  /\ handler \in [at : HandlerPoint, pc : Pcs \cup {NoPc}, msg : ServerMessage]
  /\ removed \in BOOLEAN
  /\ killer \in BOOLEAN
  /\ closed \in BOOLEAN
  /\ wsUp \in BOOLEAN
  /\ toClient \in Seq(ClientMessage)
  /\ toServer \in Seq(ServerMessage)
  /\ client \in [pcid : 1..MaxRpc, owes : BOOLEAN, awaits : BOOLEAN,
                 extra : BOOLEAN]
  /\ changes \in 0..MaxChanges
  /\ faults \in 0..MaxFaults

-----------------------------------------------------------------------------
(* Operations on the record r and the peer connections k. *)

NewConnectionRecord ==
  [pc |-> NoPc, rpcid |-> NoId, needsNegotiation |-> FALSE,
   isNegotiating |-> FALSE, queuedNegotiation |-> FALSE,
   pendingCandidates |-> FALSE, media |-> FALSE,
   pending |-> FALSE, missing |-> FALSE]

NewPeerConnection ==
  [signaling |-> "stable", remote |-> FALSE, changed |-> FALSE,
   failed |-> FALSE, stables |-> 0, destroys |-> 0]

(* Mutant: the callbacks are taken off before the Close.                   *)
CloseSilent(k, p) ==
  IF p = NoPc THEN k ELSE [k EXCEPT ![p] = [@ EXCEPT !.signaling = "closed"]]

(* pc.Close: both the ICE and the connection state become closed, and each *)
(* of the two callbacks calls destroy.                                     *)
Close(k, p) ==
  IF p = NoPc \/ k[p].signaling = "closed" THEN k
  ELSE [k EXCEPT ![p] = [@ EXCEPT !.signaling = "closed", !.changed = FALSE,
                                  !.failed = FALSE,
                                  !.destroys = k[p].destroys + 2]]

(* A reset or cleared record has the fields of a new one; the media engine *)
(* of the remote's offer goes with the peer connection it was made for.    *)
Emptied(r) ==
  [NewConnectionRecord EXCEPT
     !.media = IF Initiator \/ r.pc = NoPc THEN r.media ELSE FALSE]

Reset(r) == Emptied(r)

ClearPeerConnection(r) == IF r.pc = NoPc THEN r ELSE Emptied(r)

NegotiationNeeded(r) == [r EXCEPT !.needsNegotiation = TRUE]

-----------------------------------------------------------------------------
(* What a critical section leaves behind. *)

Leave(r, k, q) ==
  /\ cr' = r
  /\ conn' = k
  /\ toClient' = q
  /\ UNCHANGED wsUp

(* channel.send: a write that fails takes the websocket down with it.      *)
Fail(r, k, q) ==
  /\ cr' = r
  /\ conn' = k
  /\ toClient' = q
  /\ wsUp' = FALSE

(* Mutants: negotiate forgets to set the one or the other flag.            *)
FlagForgotten(r) == r

Negotiating(r) == [r EXCEPT !.isNegotiating = TRUE]

Queued(r) == [r EXCEPT !.queuedNegotiation = TRUE]

CreateOffer(r, k, q) ==
  LET offered == [k EXCEPT ![r.pc] = [@ EXCEPT !.signaling = "have-local-offer",
                                               !.changed = FALSE]]
  IN \/ /\ wsUp
        /\ k[r.pc].signaling = "stable"
        /\ Leave(Negotiating(r), offered, Append(q, "offer"))
     \/ /\ k[r.pc].signaling = "stable"
        /\ Fail(r, offered, q)
     \/ Leave(r, [k EXCEPT ![r.pc] = [@ EXCEPT !.failed = TRUE]], q)

Negotiate(r, k, q) ==
  \/ /\ Initiator
     /\ r.pc = NoPc
     /\ Leave(Negotiating(r), k, q)
  \/ /\ Initiator
     /\ r.pc # NoPc
     /\ ~r.isNegotiating
     /\ CreateOffer(r, k, q)
  \/ /\ r.isNegotiating
     /\ Initiator => r.pc # NoPc
     /\ Leave(Queued(Negotiating(r)), k, q)
  \/ /\ ~Initiator
     /\ ~r.isNegotiating
     /\ \/ wsUp /\ Leave(Negotiating(r), k, Append(q, "renegotiate"))
        \/ Fail(r, k, q)

(* select: a done context and a pending request are both ready.            *)
MaybeNegotiateAndUnlock(r, k, q) ==
  \/ /\ r.needsNegotiation
     /\ Negotiate([r EXCEPT !.needsNegotiation = FALSE], k, q)
  \/ /\ r.needsNegotiation => ~wsUp
     /\ Leave(r, k, q)

(* createPeerConnection; creating can fail, and the caller then resets.    *)
(* bound: MaxPc peer connections, a failure when they are used up.         *)
CanCreate(r) == lastPc < MaxPc /\ (Initiator \/ r.media)

CreatePeerConnection(r, rpcid) ==
  LET bound == [r EXCEPT !.pc = lastPc + 1, !.rpcid = rpcid,
                         !.isNegotiating = FALSE, !.media = TRUE]
  IN IF Initiator THEN NegotiationNeeded(bound) ELSE bound

Created(k) == [k EXCEPT ![lastPc + 1] = NewPeerConnection]

-----------------------------------------------------------------------------
(* handleWebRTCSignalMessage, run by the readPump. *)

Idle == [at |-> "idle", pc |-> NoPc,
         msg |-> [type |-> "candidate", pcid |-> NoId]]

(* Mutant: a return that forgets the requests made on the way.             *)
ReturnUnserved(r, k, q, p) ==
  /\ handler' = Idle
  /\ Leave(r, k, q)

(* The deferred function: it negotiates unless the peer connection is not  *)
(* the one captured, p.                                                    *)
Return(r, k, q, p) ==
  /\ handler' = Idle
  /\ IF r.pc = p THEN MaybeNegotiateAndUnlock(r, k, q) ELSE Leave(r, k, q)

(* A message with another pcid than the record is bound to.                *)
Rebound(r, pcid) ==
  IF r.rpcid # NoId /\ pcid # r.rpcid THEN ClearPeerConnection(r)
  ELSE IF r.pc # NoPc /\ r.rpcid = NoId THEN [r EXCEPT !.rpcid = pcid]
  ELSE r

(* Mutant: the record is cleared for another remote, its peer connection   *)
(* stays open.                                                             *)
ReboundForgotten(pcid) == conn

ReboundConn(pcid) ==
  IF cr.rpcid # NoId /\ pcid # cr.rpcid THEN Close(conn, cr.pc) ELSE conn

(* The readPump takes the next message.  A closed channel refuses it, and  *)
(* for a removed record the channel makes another one.                     *)
Receive(m) ==
  /\ handler.at = "idle"
  /\ wsUp
  /\ toServer # <<>>
  /\ m = Head(toServer)
  /\ toServer' = Tail(toServer)
  /\ UNCHANGED <<lifeVars, client, changes, faults>>

Refuse ==
  \E m \in ServerMessage :
    /\ Receive(m)
    /\ closed \/ removed
    /\ UNCHANGED <<recordVars, lastPc, handler>>

HandleRenegotiate ==
  \E m \in ServerMessage :
    LET r == Rebound(cr, m.pcid)
        k == ReboundConn(m.pcid)
    IN /\ Receive(m)
       /\ ~closed /\ ~removed
       /\ m.type \in {"renegotiate", "noop"}
       /\ \/ /\ ~Initiator \/ (m.type = "noop" /\ r.pc # NoPc)
             /\ Return(r, k, toClient, cr.pc)
             /\ UNCHANGED lastPc
          \/ /\ Initiator
             /\ r.pc # NoPc
             /\ m.type = "renegotiate"
             /\ Return(NegotiationNeeded(r), k, toClient, r.pc)
             /\ UNCHANGED lastPc
          \/ /\ Initiator
             /\ r.pc = NoPc
             /\ CanCreate(r)
             /\ lastPc' = lastPc + 1
             /\ Return(CreatePeerConnection(r, m.pcid), Created(k), toClient, lastPc + 1)
          \/ /\ Initiator
             /\ r.pc = NoPc
             /\ Return(Reset(r), k, toClient, cr.pc)
             /\ UNCHANGED lastPc

(* A candidate is added to the captured peer connection when that has a    *)
(* remote description, and kept for later otherwise.                       *)
HandleCandidate ==
  \E m \in ServerMessage :
    LET r == Rebound(cr, m.pcid)
        k == ReboundConn(m.pcid)
        ready == cr.pc # NoPc /\ conn[cr.pc].remote
    IN /\ Receive(m)
       /\ ~closed /\ ~removed
       /\ m.type = "candidate"
       /\ \/ ready /\ Return(r, k, toClient, cr.pc)
          \/ ready /\ Return(Reset(r), Close(k, r.pc), toClient, cr.pc)
          \/ ~ready /\ Return([r EXCEPT !.pendingCandidates = TRUE], k, toClient, cr.pc)
       /\ UNCHANGED lastPc

(* An initiator looks for the transceiver request in the SDP of the        *)
(* message, finds no JSON there and returns the error.                     *)
HandleTransceiverRequest ==
  \E m \in ServerMessage :
    /\ Receive(m)
    /\ ~closed /\ ~removed
    /\ m.type = "transceiver"
    /\ Return(Rebound(cr, m.pcid), ReboundConn(m.pcid), toClient, cr.pc)
    /\ UNCHANGED lastPc

(* The lock is given up before the SDP is looked at.                       *)
HandleSDP ==
  \E m \in ServerMessage :
    /\ Receive(m)
    /\ ~closed /\ ~removed
    /\ m.type \in {"offer", "answer"}
    /\ Leave(Rebound(cr, m.pcid), ReboundConn(m.pcid), toClient)
    /\ handler' = [at |-> IF ~Initiator THEN "media"
                          ELSE IF cr.pc = NoPc THEN "restart" ELSE "remote",
                   pc |-> cr.pc, msg |-> m]
    /\ UNCHANGED lastPc

handlerEnv == <<lifeVars, clientVars, changes, faults>>
Goto(at, p) == handler' = [handler EXCEPT !.at = at, !.pc = p]

(* reset without the lock, from the unlocked part of the handler.          *)
ResetReturn ==
  /\ Return(Reset(cr), Close(conn, cr.pc), toClient, handler.pc)
  /\ UNCHANGED lastPc

(* lock() found another peer connection than the captured one.             *)
Replaced ==
  /\ cr.pc # handler.pc
  /\ handler' = Idle
  /\ UNCHANGED <<recordVars, lastPc>>

(* The media engine of an answerer comes from the remote's description.    *)
UpdateMedia ==
  /\ handler.at = "media"
  /\ \/ ResetReturn
     \/ Replaced
     \/ /\ cr.pc = handler.pc
        /\ Leave([cr EXCEPT !.media = TRUE], conn, toClient)
        /\ Goto(IF handler.pc = NoPc THEN "create" ELSE "remote", handler.pc)
        /\ UNCHANGED lastPc
  /\ UNCHANGED handlerEnv

(* An SDP for an initiator without peer connection is ignored, and a       *)
(* negotiation started instead; the request is made without the lock.      *)
RequestRestart ==
  /\ handler.at = "restart"
  /\ Leave(NegotiationNeeded(cr), conn, toClient)
  /\ Goto("create", handler.pc)
  /\ UNCHANGED <<lastPc, handlerEnv>>

CreateForSDP ==
  /\ handler.at = "create"
  /\ \/ Replaced
     \/ cr.pc = handler.pc /\ ResetReturn
     \/ /\ cr.pc = handler.pc
        /\ CanCreate(cr)
        /\ lastPc' = lastPc + 1
        /\ Leave(CreatePeerConnection(cr, NoId), Created(conn), toClient)
        /\ Goto(IF Initiator THEN "finish" ELSE "remote", lastPc + 1)
  /\ UNCHANGED handlerEnv

(* pc.SetRemoteDescription on the captured peer connection, without the    *)
(* lock; it can fail, and must in the wrong signaling state.               *)
SetRemoteDescription ==
  LET p == handler.pc
      legal == conn[p].signaling =
                 IF handler.msg.type = "offer" THEN "stable" ELSE "have-local-offer"
      set == IF handler.msg.type = "offer"
             THEN [conn EXCEPT ![p] = [@ EXCEPT !.signaling = "have-remote-offer",
                                                !.remote = TRUE]]
             ELSE [conn EXCEPT ![p] = [@ EXCEPT !.signaling = "stable", !.remote = TRUE,
                                                !.stables = conn[p].stables + 1]]
  IN /\ handler.at = "remote"
     /\ \/ ResetReturn
        \/ /\ legal
           /\ Leave(cr, set, toClient)
           /\ Goto("local", p)
           /\ UNCHANGED lastPc
     /\ UNCHANGED handlerEnv

(* Every track added without a transceiver of the remote is asked for      *)
(* once; an initiator adds its transceivers itself.                        *)
AddTransceiver(r) == IF r.missing /\ ~Initiator THEN <<"transceiver">> ELSE <<>>
RequestMissingTransceivers(r) == [r EXCEPT !.missing = IF Initiator THEN @ ELSE FALSE]

CreateAnswer(r, k, q) ==
  LET p == r.pc
      answered == [k EXCEPT ![p] = [@ EXCEPT !.signaling = "stable", !.changed = FALSE,
                                             !.stables = k[p].stables + 1]]
      asked == RequestMissingTransceivers(r)
  IN \/ wsUp /\ Leave(asked, answered, Append(q, "answer") \o AddTransceiver(r))
     \/ Fail(asked, answered, q)

(* Mutant: they are kept.                                                  *)
FlushForgotten(r) == r

(* The candidates that came before the description are added.              *)
Flushed(r) == [r EXCEPT !.pendingCandidates = FALSE]

(* With the lock again: the pending candidates, and for an offer the       *)
(* pending tracks and the answer.                                          *)
ApplyRemoteDescription ==
  LET p == handler.pc
      r == Flushed(cr)
      added == NegotiationNeeded([r EXCEPT !.pending = FALSE])
  IN /\ handler.at = "local"
     /\ \/ Replaced
        \/ cr.pc = p /\ ResetReturn
        \/ /\ cr.pc = p
           /\ handler.msg.type = "answer"
           /\ Leave(r, conn, toClient)
           /\ Goto("finish", p)
           /\ UNCHANGED lastPc
        \/ /\ cr.pc = p
           /\ handler.msg.type = "offer"
           /\ conn[p].signaling = "have-remote-offer"
           /\ \/ CreateAnswer(r, conn, toClient)
              \/ r.pending /\ CreateAnswer(added, conn, toClient)
           /\ Goto("finish", p)
           /\ UNCHANGED lastPc
     /\ UNCHANGED handlerEnv

Finish ==
  /\ handler.at = "finish"
  /\ Return(cr, conn, toClient, handler.pc)
  /\ UNCHANGED <<lastPc, handlerEnv>>

(* The same function ends, when it handled an SDP for the connection in    *)
(* the other direction, with resurrecting a record that has no peer        *)
(* connection.                                                             *)
Resurrect ==
  /\ handler.at = "idle"
  /\ ~Pipeline
  /\ ~closed /\ ~removed
  /\ cr.pc = NoPc
  /\ \/ /\ Initiator
        /\ CanCreate(cr)
        /\ lastPc' = lastPc + 1
        /\ MaybeNegotiateAndUnlock(CreatePeerConnection(cr, NoId), Created(conn), toClient)
     \/ /\ ~Initiator
        /\ MaybeNegotiateAndUnlock(NegotiationNeeded(cr), conn, toClient)
        /\ UNCHANGED lastPc
  /\ UNCHANGED <<handler, handlerEnv>>

-----------------------------------------------------------------------------
(* Other goroutines. *)

(* Once the user is closed or the websocket down, the events outside the   *)
(* program matter no more, and the model leaves them out.                  *)
InSession == wsUp /\ ~removed

otherEnv == <<lastPc, handler, clientVars>>

(* The track worker or the receiver worker adds tracks to the record's     *)
(* peer connection or removes one.  An answerer lets a track wait in       *)
(* record.pending and requests a transceiver, unless another target of the *)
(* same TrackRecord did so before.                                         *)
TrackChange ==
  LET changed == [conn EXCEPT ![cr.pc] = [@ EXCEPT !.changed = TRUE]]
      needed == NegotiationNeeded(cr)
  IN /\ ~Pipeline
     /\ changes < MaxChanges
     /\ changes' = changes + 1
     /\ \/ MaybeNegotiateAndUnlock(cr, conn, toClient)
        \/ /\ ~closed /\ ~removed /\ cr.pc # NoPc
           /\ \/ /\ conn[cr.pc].signaling # "closed"
                 /\ MaybeNegotiateAndUnlock(
                      [needed EXCEPT !.missing = IF Initiator THEN @ ELSE TRUE], changed, toClient)
              \/ /\ ~Initiator /\ wsUp
                 /\ MaybeNegotiateAndUnlock(
                      [needed EXCEPT !.pending = TRUE], conn, Append(toClient, "transceiver"))
              \/ /\ ~Initiator
                 /\ Fail([cr EXCEPT !.pending = TRUE], conn, toClient)
     /\ UNCHANGED <<otherEnv, lifeVars, faults>>

(* bound: MaxFaults. *)
Fault ==
  /\ InSession
  /\ faults < MaxFaults
  /\ faults' = faults + 1
  /\ UNCHANGED <<otherEnv, lifeVars, changes>>

(* An RTP pump that fails to write to a track resets the record the track  *)
(* was found in, whatever became of it since.                              *)
WriteFails ==
  /\ ~Pipeline
  /\ lastPc > 0
  /\ Leave(Reset(cr), Close(conn, cr.pc), toClient)
  /\ Fault

(* Mutant: a callback that runs more often than it is started.             *)
OnStableAgain(p) ==
  /\ cr.pc = p
  /\ MaybeNegotiateAndUnlock(
       cr, [conn EXCEPT ![p] = [@ EXCEPT !.stables = conn[p].stables - 1]], toClient)
  /\ UNCHANGED <<otherEnv, lifeVars, changes, faults>>

(* OnSignalingStateChange with the stable state.                           *)
OnStable(p) ==
  LET run == [conn EXCEPT ![p] = [@ EXCEPT !.stables = conn[p].stables - 1]]
      done == [cr EXCEPT !.isNegotiating = FALSE, !.queuedNegotiation = FALSE,
                         !.needsNegotiation = IF cr.queuedNegotiation THEN TRUE ELSE @]
  IN /\ conn[p].stables > 0
     /\ \/ (closed \/ cr.pc # p) /\ Leave(cr, run, toClient)
        \/ /\ ~closed /\ cr.pc = p
           /\ MaybeNegotiateAndUnlock(IF cr.isNegotiating THEN done ELSE cr, run, toClient)
     /\ UNCHANGED <<otherEnv, lifeVars, changes, faults>>

(* destroy: it does nothing when the peer connection has been replaced,    *)
(* and for a user's default sender closes the user too.                    *)
Destroy(p) ==
  LET run == [conn EXCEPT ![p] = [@ EXCEPT !.destroys = conn[p].destroys - 1]]
  IN /\ conn[p].destroys > 0
     /\ \/ /\ closed \/ cr.pc \notin {NoPc, p}
           /\ Leave(cr, run, toClient)
           /\ UNCHANGED lifeVars
        \/ /\ ~closed /\ cr.pc \in {NoPc, p}
           /\ Leave(Reset(cr), Close(run, cr.pc), toClient)
           /\ removed' = (removed \/ Pipeline)
           /\ killer' = (killer \/ (Pipeline /\ ~removed))
           /\ UNCHANGED closed
     /\ UNCHANGED <<otherEnv, changes, faults>>

(* Events at pion: the connection fails; the watcher closes a connection   *)
(* that did not get connected in 35 seconds; the remote closes the data    *)
(* channel, which resets the record at once.                               *)
ConnectionFails(p) ==
  /\ conn[p].signaling \notin {"new", "closed"}
  /\ conn[p].destroys = 0
  /\ Leave(cr, [conn EXCEPT ![p] = [@ EXCEPT !.destroys = conn[p].destroys + 1]], toClient)
  /\ Fault

WatcherTimeout(p) ==
  /\ conn[p].signaling \notin {"new", "closed"}
  /\ Leave(cr, Close(conn, p), toClient)
  /\ Fault

DataChannelClose(p) ==
  /\ cr.pc = p
  /\ Leave(Reset(cr), Close(conn, p), toClient)
  /\ Fault

(* A hangup or Stop closes the owner, or the user at the other end leaves  *)
(* and the record is taken out of its owner's map; the goroutine of        *)
(* UserRecord.close resets the record later.                               *)
UserCloses ==
  /\ InSession
  /\ removed' = TRUE
  /\ killer' = TRUE
  /\ UNCHANGED <<recordVars, closed, otherEnv, changes, faults>>

CloseReset ==
  /\ killer
  /\ killer' = FALSE
  /\ Leave(Reset(cr), Close(conn, cr.pc), toClient)
  /\ UNCHANGED <<removed, closed, otherEnv, changes, faults>>

(* Stop closes the users before it closes the channel.                     *)
Stop ==
  /\ removed /\ ~closed
  /\ closed' = TRUE
  /\ UNCHANGED <<recordVars, removed, killer, otherEnv, changes, faults>>

-----------------------------------------------------------------------------
(* The remote: a browser that answers every offer, makes an offer for      *)
(* every request unless it waits for an answer, and may at any time start  *)
(* over with a new incarnation.                                            *)

Message(type, pcid) == [type |-> type, pcid |-> pcid]

clientEnv == <<cr, conn, wsUp, lastPc, handler, lifeVars, changes, faults>>

ClientReceive ==
  /\ wsUp
  /\ toClient # <<>>
  /\ toClient' = Tail(toClient)
  /\ LET type == Head(toClient)
     IN /\ client' = [client EXCEPT !.owes = @ \/ type \in {"renegotiate", "transceiver"},
                                    !.awaits = @ /\ type # "answer"]
        /\ toServer' = IF type = "offer"
                       THEN Append(toServer, Message("answer", client.pcid))
                       ELSE toServer
  /\ UNCHANGED clientEnv

ClientOffer ==
  /\ wsUp
  /\ ~Initiator
  /\ client.owes
  /\ ~client.awaits
  /\ client' = [client EXCEPT !.owes = FALSE, !.awaits = TRUE]
  /\ toServer' = Append(toServer, Message("offer", client.pcid))
  /\ UNCHANGED <<toClient, clientEnv>>

(* Once per incarnation it sends something unasked: a candidate, or, when  *)
(* it is not the initiator, the request for an offer or a transceiver that *)
(* a change of its own tracks makes it send.                               *)
ClientExtra ==
  /\ InSession
  /\ ~client.extra
  /\ client' = [client EXCEPT !.extra = TRUE]
  /\ \E type \in {"candidate"} \cup (IF Initiator THEN {"renegotiate", "transceiver"} ELSE {}) :
       toServer' = Append(toServer, Message(type, client.pcid))
  /\ UNCHANGED <<toClient, clientEnv>>

(* bound: MaxRpc incarnations.                                             *)
ClientRestart ==
  /\ InSession
  /\ client.pcid < MaxRpc
  /\ client' = [pcid |-> client.pcid + 1, owes |-> ~Initiator, awaits |-> FALSE,
                extra |-> FALSE]
  /\ \/ ~Initiator /\ UNCHANGED toServer
     \/ /\ Initiator
        /\ toServer' = Append(toServer, Message("renegotiate", client.pcid + 1))
     \/ toServer' = Append(toServer, Message("noop", NoId))
  /\ UNCHANGED <<toClient, clientEnv>>

-----------------------------------------------------------------------------
(* createSender negotiates for the new record of a pipeline at once.       *)
Init ==
  /\ role \in Roles
  /\ cr = [NewConnectionRecord EXCEPT !.isNegotiating = Pipeline]
  /\ conn = [p \in Pcs |-> [NewPeerConnection EXCEPT !.signaling = "new"]]
  /\ lastPc = 0
  /\ handler = Idle
  /\ removed = FALSE /\ killer = FALSE /\ closed = FALSE
  /\ wsUp = TRUE
  /\ toClient = IF Pipeline /\ ~Initiator THEN <<"renegotiate">> ELSE <<>>
  /\ client = [pcid |-> 1, owes |-> ~Initiator, awaits |-> FALSE,
               extra |-> FALSE]
  /\ toServer = IF Initiator THEN <<Message("renegotiate", 1)>> ELSE <<>>
  /\ changes = 0
  /\ faults = 0

Handler ==
  \/ Refuse \/ HandleRenegotiate \/ HandleCandidate \/ HandleTransceiverRequest
  \/ HandleSDP \/ UpdateMedia \/ RequestRestart \/ CreateForSDP
  \/ SetRemoteDescription \/ ApplyRemoteDescription \/ Finish

Remote == ClientReceive \/ ClientOffer

Next ==
  /\ \/ Handler \/ Remote
     \/ \E p \in Pcs : OnStable(p) \/ Destroy(p)
     \/ Resurrect \/ TrackChange \/ WriteFails
     \/ \E p \in Pcs : ConnectionFails(p) \/ WatcherTimeout(p) \/ DataChannelClose(p)
     \/ UserCloses \/ CloseReset \/ Stop
     \/ ClientExtra \/ ClientRestart
  /\ UNCHANGED role

Spec == Init /\ [][Next]_vars

(* The readPump, callbacks that have been started and the remote run on.   *)
FairSpec ==
  /\ Spec
  /\ WF_vars(Handler /\ UNCHANGED role)
  /\ WF_vars(Remote /\ UNCHANGED role)
  /\ \A p \in Pcs : /\ WF_vars(OnStable(p) /\ UNCHANGED role)
                    /\ WF_vars(Destroy(p) /\ UNCHANGED role)

-----------------------------------------------------------------------------
(* The record's peer connection works and nothing has ended the session.   *)
Live ==
  wsUp /\ ~removed /\ ~closed /\ cr.pc # NoPc /\ conn[cr.pc].signaling # "closed"

(* At most one peer connection is open, the record's own: each of the ways *)
(* a record gets a new one first closes the one it replaces, also when the *)
(* reset comes from a goroutine without the lock or for an older one.      *)
NoLeakedPeerConnection ==
  \A p \in Pcs : conn[p].signaling \in {"new", "closed"} \/ p = cr.pc

(* A request in the needsNegotiation channel is always taken out by the    *)
(* critical section that put it there or by the handler that is going to   *)
(* finish: none waits for an unrelated event, because every path that      *)
(* makes one ends in maybeNegotiateAndUnlock.                              *)
NoLostWakeup ==
  cr.needsNegotiation /\ wsUp => handler.at \in {"create", "finish"}

(* The initiator's offer that waits for its answer keeps isNegotiating     *)
(* set, so that no second offer is made before the stable callback, which  *)
(* comes later in a goroutine of its own, has run.  A request that came    *)
(* meanwhile is queued and has somebody to take it up: the answer or the   *)
(* callback is still to come.                                              *)
OfferGuarded ==
  Initiator /\ Live =>
    LET on == conn[cr.pc].signaling = "have-local-offer" \/ conn[cr.pc].stables > 0
    IN  /\ on => cr.isNegotiating
        /\ conn[cr.pc].signaling = "have-local-offer" => conn[cr.pc].stables = 0
        /\ cr.queuedNegotiation => cr.isNegotiating /\ on

(* Tracks that were added to or removed from a live connection after its   *)
(* last local description will get into a later one: a request is waiting  *)
(* or queued, or the remote has been asked and its offer is on its way.    *)
RemoteAsked ==
  \/ \E i \in DOMAIN toClient : toClient[i] \in {"renegotiate", "transceiver"}
  \/ client.owes
  \/ \E i \in DOMAIN toServer : toServer[i].type = "offer"
  \/ handler.at # "idle" /\ handler.msg.type = "offer"

NoLostUpdate ==
  Live /\ conn[cr.pc].changed /\ ~conn[cr.pc].failed =>
    \/ cr.needsNegotiation
    \/ cr.queuedNegotiation
    \/ ~Initiator /\ RemoteAsked

(* No candidate is left waiting on a connection that can take it.          *)
CandidatesApplied ==
  handler.at = "idle" /\ Live /\ conn[cr.pc].remote => ~cr.pendingCandidates

(* A peer connection that was closed under the record, by the watcher's    *)
(* timeout, is dropped by one of its own callbacks.                        *)
ClosedIsDropped ==
  \A p \in Pcs :
    [](cr.pc = p /\ conn[p].signaling = "closed" /\ ~closed => <>(cr.pc # p \/ closed))

(* When the handler gives up the lock for an SDP, the peer connection it   *)
(* goes on with is the record's.                                           *)
CapturedIsCurrent ==
  [][handler.at = "idle" /\ handler'.at # "idle" => handler'.pc = cr'.pc]_vars

(* Every track change reaches the remote, or the connection goes.          *)
UpdateDelivered ==
  \A p \in Pcs :
    [](cr.pc = p /\ conn[p].changed =>
         <>(\/ cr.pc # p \/ ~conn[p].changed \/ conn[p].failed
            \/ conn[p].signaling = "closed" \/ removed \/ ~wsUp))

-----------------------------------------------------------------------------
(* The record implements PeerConnections.  Everything but "new" and        *)
(* "closed" is a state of a peer connection in use.                        *)
Usage(c) ==
  CASE c.signaling = "new" -> "unused"
    [] c.signaling = "closed" -> "closed"
    [] OTHER -> "open"

PC == INSTANCE PeerConnections WITH
        current <- cr.pc, state <- [p \in Pcs |-> Usage(conn[p])]

(* Every step of the handler, of a callback or of another goroutine is one *)
(* that PeerConnections allows or changes nothing that it shows: a reset   *)
(* without the lock or a late callback never reopens a peer connection,    *)
(* skips the closing of one or brings an earlier one back.                 *)
ImplementsPeerConnections == PC!Spec
=============================================================================
