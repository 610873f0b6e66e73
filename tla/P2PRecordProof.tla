--------------------------- MODULE P2PRecordProof ---------------------------
(***************************************************************************)
(* Proofs about P2PRecord for every set of roles and all bounds.           *)
(***************************************************************************)
EXTENDS P2PRecord, TLAPS

Sent(r) == r.tracks \cup r.pending

(* j has the same peer connections in use and closed as k.                 *)
Like(k, j) ==
  \A p \in Pcs : /\ j[p].signaling = "new" <=> k[p].signaling = "new"
                 /\ j[p].signaling = "closed" <=> k[p].signaling = "closed"

(* What a critical section works with.                                     *)
Works(r, k, q) ==
  r \in Record /\ k \in [Pcs -> PeerConnection] /\ q \in Seq(ClientMessage)

(* The ways a critical section ends.                                       *)
Ends(r, k, q) ==
  \/ Leave(r, k, q)
  \/ MaybeNegotiateAndUnlock(r, k, q)
  \/ \E p : Return(r, k, q, p)

(* n peer connections have been made, an open one is the record's, and     *)
(* without one the record sends nothing.                                   *)
PcOK(r, k, n) ==
  /\ n \in 0..MaxPc
  /\ r.pc \in 0..n
  /\ \A p \in Pcs : /\ k[p].signaling = "new" <=> p > n
                    /\ k[p].signaling \notin {"new", "closed"} => p = r.pc
  /\ r.pc = NoPc => Sent(r) = {}

PcInv ==
  /\ PcOK(rec, conn, lastPc)
  /\ handler.at \in {"restart", "create"} => handler.pc = NoPc

(* What a step makes of the record, the peer connections and their number: *)
(* the record keeps its peer connection and now sends S; it has dropped    *)
(* it; or it has got the next one, and sends what the source gave.         *)
Kept(r, k, n, S) ==
  /\ n = lastPc /\ r.pc = rec.pc /\ r.source = rec.source
  /\ Sent(r) = S
  /\ Like(conn, k)

Dropped(r, k, n) ==
  /\ n = lastPc /\ r.pc = NoPc
  /\ Sent(r) = {}
  /\ \A p \in Pcs : /\ k[p].signaling = "new" <=> p > n
                    /\ k[p].signaling = "closed" <=> p <= n

Made(r, k, n) ==
  /\ n = lastPc + 1 /\ n \in Pcs /\ r.pc = n /\ r.source = rec.source
  /\ Sent(r) = Given(rec)
  /\ \A p \in Pcs : /\ k[p].signaling = "new" <=> p > n
                    /\ k[p].signaling = "closed" <=> p < n

Became(r, k, n, S) == Kept(r, k, n, S) \/ Dropped(r, k, n) \/ Made(r, k, n)

StepTo(S) == Works(rec', conn', toClient') /\ Became(rec', conn', lastPc', S)

(* The same for a step that leaves the record its peer connection.         *)
Stays(S) == Works(rec', conn', toClient') /\ Kept(rec', conn', lastPc', S)

LEMMA ClientMessages ==
  ASSUME P2PRecordAssumption, NEW S \in SUBSET Tracks
  PROVE  /\ Ask(S) \in ClientMessage /\ Ask(S).type = "transceiver" /\ Ask(S).tracks = S
         /\ \A type \in {"offer", "answer", "renegotiate"} :
              /\ Say(type) \in ClientMessage
              /\ Say(type).type = type /\ Say(type).tracks = {}
BY DEF Ask, Say, ClientMessage

LEMMA RecordTypes ==
  ASSUME P2PRecordAssumption, role \in Roles, NEW r \in Record
  PROVE  /\ Emptied(r) \in Record /\ Reset(r) \in Record
         /\ ClearPeerConnection(r) \in Record
         /\ NegotiationNeeded(r) \in Record /\ Flushed(r) \in Record
         /\ Negotiating(r) \in Record /\ Queued(r) \in Record
         /\ [r EXCEPT !.needsNegotiation = FALSE] \in Record
         /\ [r EXCEPT !.pendingCandidates = TRUE] \in Record
<1>1. NewRecord \in Record
  <2>1. Incoming \in BOOLEAN
    BY DEF Incoming, P2PRecordAssumption
  <2>2. [x \in Tracks |-> NoPc] \in [Tracks -> Pcs \cup {NoPc}]
    OBVIOUS
  <2> QED BY <2>1, <2>2 DEF NewRecord, Record, P2PRecordAssumption, NoPc, NoId, Media
<1>2. /\ r.dataChannel \in BOOLEAN /\ r.source \in BOOLEAN
      /\ r.pendingCandidates \in BOOLEAN
      /\ (IF r.pc = NoPc THEN r.media ELSE "none") \in Media
      /\ r.senders \in [Tracks -> Pcs \cup {NoPc}]
  BY DEF Record, Media
<1>3. ASSUME NEW e \in Record, NEW d \in BOOLEAN, NEW s \in BOOLEAN
      PROVE  /\ \A m \in Media :
                  [e EXCEPT !.dataChannel = d, !.source = s, !.media = m] \in Record
             /\ \A c \in BOOLEAN :
                  [e EXCEPT !.dataChannel = d, !.source = s, !.pendingCandidates = c] \in Record
             /\ [e EXCEPT !.senders = r.senders] \in Record
  <2>1. ASSUME NEW m \in Media
        PROVE  [e EXCEPT !.dataChannel = d, !.source = s, !.media = m] \in Record
    BY DEF Record
  <2>2. ASSUME NEW c \in BOOLEAN
        PROVE  [e EXCEPT !.dataChannel = d, !.source = s, !.pendingCandidates = c] \in Record
    BY DEF Record
  <2>3. [e EXCEPT !.senders = r.senders] \in Record
    BY <1>2 DEF Record
  <2> QED BY <2>1, <2>2, <2>3, Zenon
<1>4. Emptied(r) \in Record
  <2> DEFINE m == IF r.pc = NoPc THEN r.media ELSE "none"
  <2>1. Emptied(r) = [NewRecord EXCEPT !.dataChannel = r.dataChannel, !.source = r.source,
                                       !.media = m]
    BY DEF Emptied
  <2> HIDE DEF m
  <2>2. m \in Media
    BY <1>2 DEF m
  <2>3. r.dataChannel \in BOOLEAN /\ r.source \in BOOLEAN
    BY <1>2
  <2>4. [NewRecord EXCEPT !.dataChannel = r.dataChannel, !.source = r.source,
                          !.media = m] \in Record
    BY <1>1, <1>3, <2>2, <2>3, Zenon
  <2> QED BY <2>1, <2>4, Zenon
<1>5. Reset(r) \in Record /\ ClearPeerConnection(r) \in Record
  <2>1. FALSE \in BOOLEAN
    OBVIOUS
  <2>2. Reset(r) \in Record
    BY <1>2, <1>3, <1>4, <2>1, Zenon DEF Reset
  <2>3. [Emptied(r) EXCEPT !.senders = r.senders] \in Record
    BY <1>3, <1>4, <2>1, Zenon
  <2> QED BY <2>2, <2>3 DEF ClearPeerConnection
<1>6. /\ NegotiationNeeded(r) \in Record /\ Flushed(r) \in Record
      /\ Negotiating(r) \in Record /\ Queued(r) \in Record
      /\ [r EXCEPT !.needsNegotiation = FALSE] \in Record
      /\ [r EXCEPT !.pendingCandidates = TRUE] \in Record
  BY DEF NegotiationNeeded, Flushed, Negotiating, Queued, Record
<1> QED BY <1>4, <1>5, <1>6

(* What the operations leave of the fields that tell what is sent.         *)
LEMMA RecordFields ==
  ASSUME P2PRecordAssumption, role \in Roles, NEW r \in Record
  PROVE  /\ Emptied(r).pc = NoPc /\ Sent(Emptied(r)) = {}
         /\ Reset(r).pc = NoPc /\ Sent(Reset(r)) = {}
         /\ ClearPeerConnection(r).pc = NoPc
         /\ Sent(ClearPeerConnection(r)) = IF r.pc = NoPc THEN Sent(r) ELSE {}
         /\ \A s \in {NegotiationNeeded(r), Flushed(r), Negotiating(r), Queued(r),
                      [r EXCEPT !.needsNegotiation = FALSE],
                      [r EXCEPT !.pendingCandidates = TRUE]} :
              s.pc = r.pc /\ Sent(s) = Sent(r) /\ s.source = r.source
<1>1. Emptied(r).pc = NoPc /\ Emptied(r).tracks = {} /\ Emptied(r).pending = {}
  BY DEF Emptied, NewRecord
<1>2. \A e \in Record :
        /\ \A d, s, c : LET x == [e EXCEPT !.dataChannel = d, !.source = s,
                                           !.pendingCandidates = c]
                        IN x.pc = e.pc /\ x.tracks = e.tracks /\ x.pending = e.pending
        /\ \A s : LET x == [e EXCEPT !.senders = s]
                  IN x.pc = e.pc /\ x.tracks = e.tracks /\ x.pending = e.pending
  BY DEF Record
<1>3. Emptied(r) \in Record
  BY RecordTypes
<1>4. \A s \in {NegotiationNeeded(r), Flushed(r), Negotiating(r), Queued(r),
                [r EXCEPT !.needsNegotiation = FALSE],
                [r EXCEPT !.pendingCandidates = TRUE]} :
        s.pc = r.pc /\ s.tracks = r.tracks /\ s.pending = r.pending /\ s.source = r.source
  BY DEF NegotiationNeeded, Flushed, Negotiating, Queued, Record
<1> QED BY <1>1, <1>2, <1>3, <1>4 DEF Sent, Reset, ClearPeerConnection

LEMMA MediaFields ==
  ASSUME NEW r \in Record, NEW v \in Media
  PROVE  LET s == [r EXCEPT !.media = v]
         IN /\ s \in Record /\ s.pc = r.pc /\ s.source = r.source /\ Sent(s) = Sent(r)
            /\ s.tracks = r.tracks /\ s.pending = r.pending /\ s.media = v
BY DEF Record, Sent

(* What pion does to a peer connection keeps it one, and all but Close     *)
(* leave it in use or closed as it was.                                    *)
LEMMA ConnTypes ==
  ASSUME P2PRecordAssumption, NEW k \in [Pcs -> PeerConnection], NEW p \in Pcs
  PROVE  /\ k[p] \in PeerConnection
         /\ \A c \in PeerConnection : [k EXCEPT ![p] = c] \in [Pcs -> PeerConnection]
         /\ \A s \in SignalingState :
              /\ [k[p] EXCEPT !.signaling = s, !.changed = FALSE] \in PeerConnection
              /\ [k[p] EXCEPT !.signaling = s, !.remote = TRUE] \in PeerConnection
              /\ [k[p] EXCEPT !.signaling = s, !.remote = TRUE,
                              !.stables = k[p].stables + 1] \in PeerConnection
              /\ [k[p] EXCEPT !.signaling = s, !.changed = FALSE,
                              !.stables = k[p].stables + 1] \in PeerConnection
              /\ [k[p] EXCEPT !.signaling = s, !.changed = FALSE, !.failed = FALSE,
                              !.destroys = k[p].destroys + 2] \in PeerConnection
         /\ [k[p] EXCEPT !.failed = TRUE] \in PeerConnection
         /\ [k[p] EXCEPT !.changed = TRUE] \in PeerConnection
         /\ [k[p] EXCEPT !.destroys = k[p].destroys + 1] \in PeerConnection
         /\ k[p].stables > 0 => [k[p] EXCEPT !.stables = k[p].stables - 1] \in PeerConnection
         /\ k[p].destroys > 0 =>
              [k[p] EXCEPT !.destroys = k[p].destroys - 1] \in PeerConnection
<1> DEFINE c == k[p]
<1>1. c \in PeerConnection
  OBVIOUS
<1>2. /\ c.stables + 1 \in Nat /\ c.destroys + 1 \in Nat /\ c.destroys + 2 \in Nat
      /\ c.stables > 0 => c.stables - 1 \in Nat
      /\ c.destroys > 0 => c.destroys - 1 \in Nat
  BY <1>1 DEF PeerConnection
<1> HIDE DEF c
<1>3. ASSUME NEW s \in SignalingState, NEW n \in Nat
      PROVE  /\ [c EXCEPT !.signaling = s, !.changed = FALSE] \in PeerConnection
             /\ [c EXCEPT !.signaling = s, !.remote = TRUE] \in PeerConnection
             /\ [c EXCEPT !.signaling = s, !.remote = TRUE, !.stables = n] \in PeerConnection
             /\ [c EXCEPT !.signaling = s, !.changed = FALSE, !.stables = n] \in PeerConnection
             /\ [c EXCEPT !.signaling = s, !.changed = FALSE, !.failed = FALSE,
                          !.destroys = n] \in PeerConnection
             /\ [c EXCEPT !.failed = TRUE] \in PeerConnection
             /\ [c EXCEPT !.changed = TRUE] \in PeerConnection
             /\ [c EXCEPT !.destroys = n] \in PeerConnection
             /\ [c EXCEPT !.stables = n] \in PeerConnection
  <2>1. /\ [c EXCEPT !.signaling = s, !.changed = FALSE] \in PeerConnection
        /\ [c EXCEPT !.signaling = s, !.remote = TRUE] \in PeerConnection
        /\ [c EXCEPT !.signaling = s, !.remote = TRUE, !.stables = n] \in PeerConnection
    BY <1>1 DEF PeerConnection
  <2>2. /\ [c EXCEPT !.signaling = s, !.changed = FALSE, !.stables = n] \in PeerConnection
        /\ [c EXCEPT !.signaling = s, !.changed = FALSE, !.failed = FALSE,
                     !.destroys = n] \in PeerConnection
    BY <1>1 DEF PeerConnection
  <2>3. /\ [c EXCEPT !.failed = TRUE] \in PeerConnection
        /\ [c EXCEPT !.changed = TRUE] \in PeerConnection
    BY <1>1 DEF PeerConnection
  <2>4. /\ [c EXCEPT !.destroys = n] \in PeerConnection
        /\ [c EXCEPT !.stables = n] \in PeerConnection
    BY <1>1 DEF PeerConnection
  <2> QED BY <2>1, <2>2, <2>3, <2>4
<1>4. \A d \in PeerConnection : [k EXCEPT ![p] = d] \in [Pcs -> PeerConnection]
  OBVIOUS
<1>5. "new" \in SignalingState
  BY DEF SignalingState
<1>6. ASSUME NEW s \in SignalingState
      PROVE  /\ [c EXCEPT !.signaling = s, !.changed = FALSE] \in PeerConnection
             /\ [c EXCEPT !.signaling = s, !.remote = TRUE] \in PeerConnection
             /\ [c EXCEPT !.signaling = s, !.remote = TRUE,
                          !.stables = c.stables + 1] \in PeerConnection
             /\ [c EXCEPT !.signaling = s, !.changed = FALSE,
                          !.stables = c.stables + 1] \in PeerConnection
             /\ [c EXCEPT !.signaling = s, !.changed = FALSE, !.failed = FALSE,
                          !.destroys = c.destroys + 2] \in PeerConnection
  BY <1>2, <1>3, Zenon
<1>7. /\ [c EXCEPT !.failed = TRUE] \in PeerConnection
      /\ [c EXCEPT !.changed = TRUE] \in PeerConnection
      /\ [c EXCEPT !.destroys = c.destroys + 1] \in PeerConnection
  BY <1>2, <1>3, <1>5, Zenon
<1>8. c.stables > 0 => [c EXCEPT !.stables = c.stables - 1] \in PeerConnection
  BY <1>2, <1>3, <1>5, Zenon
<1>9. c.destroys > 0 => [c EXCEPT !.destroys = c.destroys - 1] \in PeerConnection
  BY <1>2, <1>3, <1>5, Zenon
<1> QED BY <1>1, <1>4, <1>6, <1>7, <1>8, <1>9, Zenon DEF c

(* An answer, that may leave tracks out.                                   *)
LEMMA AnsweredConn ==
  ASSUME NEW c \in PeerConnection, NEW b \in BOOLEAN
  PROVE  LET d == [c EXCEPT !.signaling = "stable", !.changed = b, !.stables = c.stables + 1]
         IN d \in PeerConnection /\ d.signaling = "stable"
<1>1. c.stables + 1 \in Nat
  BY DEF PeerConnection
<1> DEFINE n == c.stables + 1
<1> HIDE DEF n
<1>2. LET d == [c EXCEPT !.signaling = "stable", !.changed = b, !.stables = n]
      IN d \in PeerConnection /\ d.signaling = "stable"
  BY <1>1 DEF PeerConnection, SignalingState, n
<1> QED BY <1>2 DEF n

(* One peer connection that stays in use, or unused, or closed.            *)
LEMMA OneConn ==
  ASSUME NEW k \in [Pcs -> PeerConnection], NEW p \in Pcs, NEW c \in PeerConnection,
         c.signaling = "new" <=> k[p].signaling = "new",
         c.signaling = "closed" <=> k[p].signaling = "closed"
  PROVE  [k EXCEPT ![p] = c] \in [Pcs -> PeerConnection] /\ Like(k, [k EXCEPT ![p] = c])
  BY DEF Like

LEMMA CloseTypes ==
  ASSUME P2PRecordAssumption, NEW k \in [Pcs -> PeerConnection],
         NEW p \in Pcs \cup {NoPc}
  PROVE  /\ Close(k, p) \in [Pcs -> PeerConnection]
         /\ \A x \in Pcs :
              /\ x # p => Close(k, p)[x] = k[x]
              /\ x = p => Close(k, p)[x].signaling = "closed"
<1>1. CASE p = NoPc
  BY <1>1 DEF Close, Pcs, NoPc
<1>2. CASE p \in Pcs
  <2> DEFINE c == [k[p] EXCEPT !.signaling = "closed", !.changed = FALSE,
                               !.failed = FALSE, !.destroys = k[p].destroys + 2]
  <2>1. c \in PeerConnection /\ c.signaling = "closed"
    <3>1. c \in PeerConnection
      BY <1>2, ConnTypes DEF SignalingState
    <3>2. k[p] \in PeerConnection
      BY <1>2
    <3> QED BY <3>1, <3>2 DEF PeerConnection
  <2> HIDE DEF c
  <2>2. CASE k[p].signaling = "closed"
    BY <1>2, <2>2 DEF Close
  <2>3. CASE k[p].signaling # "closed"
    <3>1. Close(k, p) = [k EXCEPT ![p] = c]
      BY <1>2, <2>3 DEF Close, NoPc, Pcs, c
    <3> QED BY <2>1, <3>1
  <2> QED BY <2>2, <2>3
<1> QED BY <1>1, <1>2

LEMMA LikeTrans ==
  ASSUME NEW k, NEW j, NEW i, Like(k, j), Like(j, i)
  PROVE  Like(k, i)
  BY DEF Like

(* Negotiating changes neither what is sent nor what is in use.            *)
LEMMA NegotiateEnds ==
  ASSUME P2PRecordAssumption, role \in Roles, NEW r, NEW k, NEW q, Works(r, k, q),
         MaybeNegotiateAndUnlock(r, k, q)
  PROVE  /\ Works(rec', conn', toClient')
         /\ rec'.pc = r.pc /\ rec'.source = r.source /\ Sent(rec') = Sent(r)
         /\ Like(k, conn')
<1>t. r \in Record /\ k \in [Pcs -> PeerConnection] /\ q \in Seq(ClientMessage)
  BY DEF Works
<1>l. Like(k, k)
  BY DEF Like
<1>1. CASE Leave(r, k, q)
  BY <1>1, <1>l DEF Leave, Works
<1>2. CASE Negotiate([r EXCEPT !.needsNegotiation = FALSE], k, q)
  <2> DEFINE s == [r EXCEPT !.needsNegotiation = FALSE]
  <2>1. s \in Record /\ s.pc = r.pc /\ s.source = r.source /\ Sent(s) = Sent(r)
    BY <1>t, RecordTypes, RecordFields
  <2> HIDE DEF s
  <2>2. /\ Negotiating(s) \in Record /\ Queued(s) \in Record
        /\ \A e \in {Negotiating(s), Queued(s)} :
             e.pc = s.pc /\ e.source = s.source /\ Sent(e) = Sent(s)
    BY <2>1, RecordTypes, RecordFields
  <2>3. /\ Append(q, Say("offer")) \in Seq(ClientMessage)
        /\ Append(q, Say("renegotiate")) \in Seq(ClientMessage)
    BY <1>t, ClientMessages
  <2>4. CASE s.pc # NoPc /\ CreateOffer(s, k, q)
    <3>1. s.pc \in Pcs /\ k[s.pc] \in PeerConnection
      BY <1>t, <2>1, <2>4 DEF Record
    <3> DEFINE c == [k[s.pc] EXCEPT !.signaling = "have-local-offer", !.changed = FALSE]
               d == [k[s.pc] EXCEPT !.failed = TRUE]
               offered == [k EXCEPT ![s.pc] = c]
               failing == [k EXCEPT ![s.pc] = d]
    <3>2. c \in PeerConnection /\ d \in PeerConnection
      BY <1>t, <3>1, ConnTypes DEF SignalingState
    <3>3. c.signaling = "have-local-offer" /\ d.signaling = k[s.pc].signaling
      BY <3>1 DEF PeerConnection
    <3>4. failing \in [Pcs -> PeerConnection] /\ Like(k, failing)
      <4> HIDE DEF c, d
      <4> QED BY <1>t, <3>1, <3>2, <3>3, OneConn
    <3>5. k[s.pc].signaling = "stable" =>
            offered \in [Pcs -> PeerConnection] /\ Like(k, offered)
      <4> HIDE DEF c, d
      <4> QED BY <1>t, <3>1, <3>2, <3>3, OneConn
    <3> HIDE DEF offered, failing
    <3>6. \/ /\ k[s.pc].signaling = "stable"
             /\ \/ Leave(Negotiating(s), offered, Append(q, Say("offer")))
                \/ Leave(s, offered, q)
          \/ Leave(s, failing, q)
      BY <2>4 DEF CreateOffer, offered, failing
    <3> QED BY <1>t, <2>1, <2>2, <2>3, <3>4, <3>5, <3>6 DEF Leave, Works
  <2>5. CASE Leave(Negotiating(s), k, q) \/ Leave(Queued(s), k, q) \/ Leave(s, k, q)
             \/ Leave(Negotiating(s), k, Append(q, Say("renegotiate")))
    BY <1>t, <1>l, <2>1, <2>2, <2>3, <2>5 DEF Leave, Works
  <2>6. Negotiate(s, k, q)
    BY <1>2 DEF s
  <2> QED BY <2>4, <2>5, <2>6 DEF Negotiate
<1> QED BY <1>1, <1>2 DEF MaybeNegotiateAndUnlock

LEMMA EndsWell ==
  ASSUME P2PRecordAssumption, role \in Roles, NEW r, NEW k, NEW q, Works(r, k, q),
         Ends(r, k, q)
  PROVE  /\ Works(rec', conn', toClient')
         /\ rec'.pc = r.pc /\ rec'.source = r.source /\ Sent(rec') = Sent(r)
         /\ Like(k, conn')
<1>1. CASE Leave(r, k, q)
  BY <1>1 DEF Leave, Works, Like
<1>2. CASE MaybeNegotiateAndUnlock(r, k, q)
  BY <1>2, NegotiateEnds
<1> QED BY <1>1, <1>2 DEF Ends, Return

(* So what a critical section has made of the record is what its step does. *)
LEMMA EndStep ==
  ASSUME P2PRecordAssumption, role \in Roles, NEW r, NEW k, NEW q, Works(r, k, q),
         Ends(r, k, q), NEW S, Became(r, k, lastPc', S)
  PROVE  StepTo(S)
<1>1. /\ Works(rec', conn', toClient')
      /\ rec'.pc = r.pc /\ rec'.source = r.source /\ Sent(rec') = Sent(r)
      /\ Like(k, conn')
  BY EndsWell
<1>2. CASE Kept(r, k, lastPc', S)
  BY <1>1, <1>2, LikeTrans DEF Kept, Became, StepTo
<1>3. CASE Dropped(r, k, lastPc')
  BY <1>1, <1>3 DEF Dropped, Became, StepTo, Like
<1>4. CASE Made(r, k, lastPc')
  BY <1>1, <1>4 DEF Made, Became, StepTo, Like
<1> QED BY <1>2, <1>3, <1>4 DEF Became

(* Dropping the peer connection e.pc closes the only one that is open.     *)
LEMMA CloseDrops ==
  ASSUME P2PRecordAssumption, role \in Roles, lastPc \in 0..MaxPc, NEW e \in Record,
         NEW k \in [Pcs -> PeerConnection], PcOK(e, k, lastPc), NEW r \in Record
  PROVE  /\ Close(k, e.pc) \in [Pcs -> PeerConnection]
         /\ Dropped(Reset(r), Close(k, e.pc), lastPc)
         /\ e.pc # NoPc => Dropped(ClearPeerConnection(e), Close(k, e.pc), lastPc)
<1>1. e.pc \in Pcs \cup {NoPc} /\ lastPc \in Nat /\ Pcs \subseteq Nat
  BY DEF Record, P2PRecordAssumption, Pcs
<1>2. /\ Close(k, e.pc) \in [Pcs -> PeerConnection]
      /\ \A x \in Pcs : /\ x # e.pc => Close(k, e.pc)[x] = k[x]
                        /\ x = e.pc => Close(k, e.pc)[x].signaling = "closed"
  BY <1>1, CloseTypes
<1>3. \A p \in Pcs : /\ Close(k, e.pc)[p].signaling = "new" <=> p > lastPc
                     /\ Close(k, e.pc)[p].signaling = "closed" <=> p <= lastPc
  <2>1. e.pc <= lastPc
    BY <1>1 DEF PcOK, NoPc
  <2> QED BY <1>1, <1>2, <2>1 DEF PcOK
<1>4. /\ Reset(r).pc = NoPc /\ Sent(Reset(r)) = {}
      /\ e.pc # NoPc =>
           ClearPeerConnection(e).pc = NoPc /\ Sent(ClearPeerConnection(e)) = {}
  BY RecordFields
<1> QED BY <1>2, <1>3, <1>4 DEF Dropped

LEMMA KeptOK ==
  ASSUME P2PRecordAssumption, PcOK(rec, conn, lastPc), NEW r, NEW k, NEW S,
         Kept(r, k, lastPc, S) \/ Dropped(r, k, lastPc), rec.pc = NoPc => S = {}
  PROVE  PcOK(r, k, lastPc)
<1>1. lastPc \in Nat /\ Pcs \subseteq Nat /\ 0 \in 0..lastPc
  BY DEF PcOK, P2PRecordAssumption, Pcs
<1>2. CASE Kept(r, k, lastPc, S)
  BY <1>2 DEF Kept, PcOK, Like
<1>3. CASE Dropped(r, k, lastPc)
  <2>1. \A p \in Pcs : /\ p \in Nat
                       /\ k[p].signaling = "new" <=> p > lastPc
                       /\ k[p].signaling = "closed" <=> p <= lastPc
    BY <1>1, <1>3 DEF Dropped
  <2>2. \A p \in Pcs : k[p].signaling \in {"new", "closed"}
    BY <1>1, <2>1
  <2>3. r.pc = 0 /\ Sent(r) = {} /\ lastPc \in 0..MaxPc
    BY <1>3 DEF Dropped, PcOK, NoPc
  <2> QED BY <1>1, <2>1, <2>2, <2>3 DEF PcOK
<1> QED BY <1>2, <1>3

(* The step of a critical section that leaves what there was.              *)
LEMMA SameKept ==
  Kept(rec, conn, lastPc, Sent(rec))
  BY DEF Kept, Like

(* What the handler finds when it has looked at the pcid of a message.     *)
LEMMA ReboundStep ==
  ASSUME P2PRecordAssumption, TypeOK, PcInv, NEW m \in ServerMessage
  PROVE  LET r == Rebound(rec, m.pcid)
             k == ReboundConn(m.pcid)
         IN /\ Works(r, k, toClient) /\ r.source = rec.source
            /\ Kept(r, k, lastPc, Sent(rec)) \/ Dropped(r, k, lastPc)
            /\ PcOK(r, k, lastPc)
<1> DEFINE r == Rebound(rec, m.pcid)
           k == ReboundConn(m.pcid)
           b == [rec EXCEPT !.rpcid = m.pcid]
<1>t. /\ m.pcid \in 0..MaxRpc /\ rec \in Record /\ conn \in [Pcs -> PeerConnection]
      /\ toClient \in Seq(ClientMessage) /\ role \in Roles /\ lastPc \in 0..MaxPc
      /\ PcOK(rec, conn, lastPc)
  BY DEF ServerMessage, TypeOK, PcInv
<1>1. b \in Record /\ b.pc = rec.pc /\ b.source = rec.source /\ Sent(b) = Sent(rec)
  BY <1>t DEF Record, Sent
<1>2. /\ ClearPeerConnection(rec) \in Record
      /\ ClearPeerConnection(rec).source = rec.source
  <2>1. Emptied(rec) \in Record
    BY <1>t, RecordTypes
  <2>2. Emptied(rec).source = rec.source
    BY DEF Emptied, NewRecord
  <2>3. [Emptied(rec) EXCEPT !.senders = rec.senders].source = rec.source
    BY <2>1, <2>2 DEF Record
  <2> QED BY <1>t, <2>3, RecordTypes DEF ClearPeerConnection
<1>3. CASE rec.rpcid # NoId /\ m.pcid # rec.rpcid /\ rec.pc # NoPc
  <2>1. r = ClearPeerConnection(rec) /\ k = Close(conn, rec.pc)
    BY <1>3 DEF Rebound, ReboundConn
  <2>2. k \in [Pcs -> PeerConnection] /\ Dropped(r, k, lastPc)
    BY <1>t, <1>3, <2>1, CloseDrops
  <2>3. PcOK(r, k, lastPc)
    BY <1>t, <2>2, KeptOK DEF PcOK
  <2> QED BY <1>t, <1>2, <2>1, <2>2, <2>3 DEF Works
<1>4. CASE ~(rec.rpcid # NoId /\ m.pcid # rec.rpcid /\ rec.pc # NoPc)
  <2>1. r \in {rec, b} /\ k = conn
    BY <1>4 DEF Rebound, ReboundConn, ClearPeerConnection, Close
  <2>2. /\ r \in Record /\ r.pc = rec.pc /\ r.source = rec.source
        /\ Sent(r) = Sent(rec)
    BY <1>t, <1>1, <2>1
  <2>3. Kept(r, k, lastPc, Sent(rec))
    BY <2>1, <2>2 DEF Kept, Like
  <2>4. PcOK(r, k, lastPc)
    BY <1>t, <2>3, KeptOK DEF PcOK
  <2> QED BY <1>t, <2>1, <2>2, <2>3, <2>4 DEF Works
<1> QED BY <1>3, <1>4

LEMMA CreateStep ==
  ASSUME P2PRecordAssumption, TypeOK, NEW r \in Record, NEW k \in [Pcs -> PeerConnection],
         NEW i \in 0..MaxRpc, NEW j \in 0..MaxRpc, PcOK(r, k, lastPc), r.pc = NoPc, r.source = rec.source,
         CanCreate(r)
  PROVE  /\ CreatePeerConnection(r, i) \in Record
         /\ Created(k, r, j) \in [Pcs -> PeerConnection]
         /\ Made(CreatePeerConnection(r, i), Created(k, r, j), lastPc + 1)
<1> DEFINE p == lastPc + 1
           bound == [r EXCEPT !.pc = p, !.rpcid = i, !.isNegotiating = FALSE]
           given == [bound EXCEPT !.tracks = Given(r),
                                  !.senders = [x \in Tracks |-> IF x \in Given(r) THEN p
                                                                ELSE r.senders[x]]]
           asked == [bound EXCEPT !.pending = Given(r), !.requested = Given(r)]
           c == [NewPeerConnection EXCEPT !.changed = Initiator /\ Given(r) # {}, !.peer = j]
<1>1. /\ p \in Pcs /\ lastPc \in Nat /\ Pcs \subseteq Nat /\ role \in Roles
  BY DEF CanCreate, TypeOK, Pcs, P2PRecordAssumption
<1>2. Given(r) \subseteq Tracks /\ Given(r) = Given(rec) /\ Sent(r) = {}
  BY DEF Given, TypeOK, NoTrack, PcOK
<1>3. /\ bound \in Record /\ bound.pc = p /\ bound.source = r.source
      /\ bound.tracks = r.tracks /\ bound.pending = r.pending
      /\ bound.senders = r.senders
  BY <1>1 DEF Record
<1>4. [x \in Tracks |-> IF x \in Given(r) THEN p ELSE r.senders[x]]
        \in [Tracks -> Pcs \cup {NoPc}]
  BY <1>1 DEF Record
<1> HIDE DEF p, bound
<1>a. /\ given \in Record /\ given.pc = p /\ given.source = r.source
      /\ given.tracks = Given(r) /\ given.pending = r.pending
  <2> DEFINE senders == [x \in Tracks |-> IF x \in Given(r) THEN p ELSE r.senders[x]]
  <2>1. senders \in [Tracks -> Pcs \cup {NoPc}]
    BY <1>4
  <2> HIDE DEF senders
  <2>2. LET g == [bound EXCEPT !.tracks = Given(r), !.senders = senders]
        IN /\ g \in Record /\ g.pc = p /\ g.source = r.source
           /\ g.tracks = Given(r) /\ g.pending = r.pending
    BY <1>2, <1>3, <2>1 DEF Record
  <2> QED BY <2>2 DEF senders
<1>5. /\ given \in Record /\ given.pc = p /\ given.source = r.source
      /\ given.tracks = Given(r) /\ given.pending = r.pending
      /\ asked \in Record /\ asked.pc = p /\ asked.source = r.source
      /\ asked.pending = Given(r) /\ asked.tracks = r.tracks
  <2>1. /\ asked \in Record /\ asked.pc = p /\ asked.source = r.source
        /\ asked.pending = Given(r) /\ asked.tracks = r.tracks
    BY <1>2, <1>3 DEF Record
  <2> QED BY <1>a, <2>1
<1>6. Sent(given) = Given(r) /\ Sent(asked) = Given(r)
  BY <1>2, <1>5 DEF Sent
<1> HIDE DEF asked
<1>7. given = [bound EXCEPT !.tracks = Given(r),
                            !.senders = [x \in Tracks |-> IF x \in Given(r) THEN p ELSE @[x]]]
  BY <1>3
<1> HIDE DEF given
<1>8. NegotiationNeeded(given) \in Record /\ NegotiationNeeded(given).pc = p
      /\ NegotiationNeeded(given).source = r.source
      /\ Sent(NegotiationNeeded(given)) = Given(r)
  BY <1>1, <1>5, <1>6, RecordTypes, RecordFields
<1>9. CreatePeerConnection(r, i) \in {NegotiationNeeded(given), asked}
  BY <1>7 DEF CreatePeerConnection, p, bound, asked
<1>10. c \in PeerConnection /\ c.signaling = "stable"
  <2>1. Initiator \in BOOLEAN /\ (Initiator /\ Given(r) # {}) \in BOOLEAN
    BY <1>1 DEF Initiator, P2PRecordAssumption
  <2>2. NewPeerConnection \in PeerConnection /\ NewPeerConnection.signaling = "stable"
    BY DEF NewPeerConnection, PeerConnection, SignalingState, NoId, P2PRecordAssumption
  <2> QED BY <2>1, <2>2 DEF PeerConnection
<1>11. Created(k, r, j) = [k EXCEPT ![p] = c]
  BY DEF Created, p
<1> HIDE DEF c
<1>12. \A x \in Pcs : /\ Created(k, r, j)[x].signaling = "new" <=> x > p
                      /\ Created(k, r, j)[x].signaling = "closed" <=> x < p
  <2>1. \A x \in Pcs : Created(k, r, j)[x] = IF x = p THEN c ELSE k[x]
    BY <1>11
  <2>2. \A x \in Pcs : /\ k[x].signaling = "new" <=> x > lastPc
                       /\ k[x].signaling = "closed" <=> x <= lastPc
    BY <1>1 DEF PcOK, NoPc, Pcs
  <2>3. TAKE x \in Pcs
  <2>4. x \in Nat /\ p = lastPc + 1
    BY <1>1 DEF p
  <2>5. CASE x = p
    BY <1>1, <1>10, <2>1, <2>4, <2>5
  <2>6. CASE x # p
    <3>1. Created(k, r, j)[x] = k[x]
      BY <2>1, <2>6
    <3>2. (x > p <=> x > lastPc) /\ (x < p <=> x <= lastPc)
      BY <1>1, <2>4, <2>6
    <3> QED BY <2>2, <3>1, <3>2
  <2> QED BY <2>5, <2>6
<1>13. Created(k, r, j) \in [Pcs -> PeerConnection]
  BY <1>10, <1>11
<1> QED BY <1>1, <1>2, <1>5, <1>6, <1>8, <1>9, <1>12, <1>13 DEF Made, p

HandlerOK ==
  /\ handler \in [at : HandlerPoint, pc : Pcs \cup {NoPc}, msg : ServerMessage]
  /\ handler.at \in {"restart", "create"} => handler.pc = NoPc

LEMMA IdleOK ==
  ASSUME P2PRecordAssumption, handler' = Idle
  PROVE  HandlerOK'
<1>1. Idle \in [at : HandlerPoint, pc : Pcs \cup {NoPc}, msg : ServerMessage]
  BY DEF Idle, Message, HandlerPoint, ServerMessage, P2PRecordAssumption, NoId
<1>2. Idle.at = "idle"
  BY DEF Idle
<1> QED BY <1>1, <1>2 DEF HandlerOK

LEMMA GotoOK ==
  ASSUME HandlerOK, NEW at \in HandlerPoint, NEW p \in Pcs \cup {NoPc}, Goto(at, p),
         at \in {"restart", "create"} => p = NoPc
  PROVE  HandlerOK'
  BY DEF Goto, HandlerOK

(* A critical section of the handler that ends the way Return does.        *)
LEMMA ReturnStep ==
  ASSUME P2PRecordAssumption, role \in Roles, NEW r, NEW k, NEW q, Works(r, k, q), NEW p,
         Return(r, k, q, p), NEW S, Became(r, k, lastPc', S)
  PROVE  StepTo(S) /\ HandlerOK'
<1>1. Ends(r, k, q) /\ handler' = Idle
  BY DEF Ends, Return
<1> QED BY <1>1, EndStep, IdleOK

LEMMA LeaveStep ==
  ASSUME P2PRecordAssumption, role \in Roles, NEW r, NEW k, NEW q, Works(r, k, q),
         Leave(r, k, q), NEW S, Became(r, k, lastPc', S)
  PROVE  StepTo(S)
  BY EndStep DEF Ends

(* What is known before a step.                                            *)
LEMMA Before ==
  ASSUME P2PRecordAssumption, TypeOK, PcInv
  PROVE  /\ rec \in Record /\ rec.pc \in Pcs \cup {NoPc}
         /\ conn \in [Pcs -> PeerConnection] /\ role \in Roles
         /\ toClient \in Seq(ClientMessage) /\ toServer \in Seq(ServerMessage)
         /\ lastPc \in 0..MaxPc /\ HandlerOK /\ handler.pc \in Pcs \cup {NoPc}
         /\ PcOK(rec, conn, lastPc) /\ Works(rec, conn, toClient)
         /\ Became(rec, conn, lastPc, Sent(rec))
         /\ Close(conn, rec.pc) \in [Pcs -> PeerConnection]
         /\ Reset(rec) \in Record
         /\ Dropped(Reset(rec), Close(conn, rec.pc), lastPc)
<1>1. /\ rec \in Record /\ rec.pc \in Pcs \cup {NoPc}
      /\ conn \in [Pcs -> PeerConnection] /\ role \in Roles
      /\ toClient \in Seq(ClientMessage) /\ toServer \in Seq(ServerMessage)
      /\ lastPc \in 0..MaxPc /\ HandlerOK /\ handler.pc \in Pcs \cup {NoPc}
      /\ PcOK(rec, conn, lastPc)
  BY DEF TypeOK, Record, PcInv, HandlerOK
<1>2. Works(rec, conn, toClient) /\ Became(rec, conn, lastPc, Sent(rec))
  BY <1>1, SameKept DEF Works, Became
<1> QED BY <1>1, <1>2, RecordTypes, CloseDrops

LEMMA ResetReturnStep ==
  ASSUME P2PRecordAssumption, TypeOK, PcInv, ResetReturn
  PROVE  StepTo(Sent(rec)) /\ HandlerOK'
<1>1. Works(Reset(rec), Close(conn, rec.pc), toClient) /\ role \in Roles
  BY Before DEF Works
<1>2. Became(Reset(rec), Close(conn, rec.pc), lastPc', Sent(rec))
  BY Before DEF Became, ResetReturn
<1> QED BY <1>1, <1>2, ReturnStep DEF ResetReturn

LEMMA ReplacedStep ==
  ASSUME P2PRecordAssumption, TypeOK, PcInv, Replaced
  PROVE  StepTo(Sent(rec)) /\ HandlerOK'
  BY Before, IdleOK DEF Replaced, recordVars, StepTo

(* The handler takes the first message that there is.                      *)
LEMMA ReceiveHead ==
  ASSUME P2PRecordAssumption, TypeOK, Receive
  PROVE  /\ Head(toServer) \in ServerMessage /\ toServer # <<>>
         /\ toServer' = Tail(toServer) /\ toServer \in Seq(ServerMessage)
BY DEF Receive, TypeOK

(* The messages that the handler answers within one critical section.      *)
LEMMA ReceiveStep ==
  ASSUME P2PRecordAssumption, TypeOK, PcInv,
         HandleRenegotiate \/ HandleCandidate \/ HandleTransceiverRequest \/ HandleSDP
  PROVE  StepTo(Sent(rec)) /\ HandlerOK'
<1>t. /\ rec \in Record /\ rec.pc \in Pcs \cup {NoPc} /\ role \in Roles
      /\ lastPc \in 0..MaxPc /\ toClient \in Seq(ClientMessage) /\ HandlerOK
  BY Before
<1>r. ASSUME NEW m \in ServerMessage
      PROVE  LET r == Rebound(rec, m.pcid)
                 k == ReboundConn(m.pcid)
             IN /\ r \in Record /\ k \in [Pcs -> PeerConnection]
                /\ r.source = rec.source /\ PcOK(r, k, lastPc)
                /\ Kept(r, k, lastPc, Sent(rec)) \/ Dropped(r, k, lastPc)
                /\ m.pcid \in 0..MaxRpc
  BY ReboundStep DEF Works, ServerMessage
<1>1. CASE HandleRenegotiate
  <2>1. PICK m \in ServerMessage :
          LET r == Rebound(rec, m.pcid)
              k == ReboundConn(m.pcid)
          IN \/ Return(r, k, toClient, rec.pc) /\ UNCHANGED lastPc
             \/ Return(NegotiationNeeded(r), k, toClient, r.pc) /\ UNCHANGED lastPc
             \/ /\ r.pc = NoPc /\ CanCreate(r)
                /\ lastPc' = lastPc + 1
                /\ Return(CreatePeerConnection(r, m.pcid), Created(k, r, m.pcid), toClient, lastPc + 1)
             \/ Return(Reset(r), k, toClient, rec.pc) /\ UNCHANGED lastPc /\ r.pc = NoPc
    BY <1>1, ReceiveHead DEF HandleRenegotiate
  <2> DEFINE r == Rebound(rec, m.pcid)
             k == ReboundConn(m.pcid)
  <2>2. /\ r \in Record /\ k \in [Pcs -> PeerConnection]
        /\ r.source = rec.source /\ PcOK(r, k, lastPc)
        /\ Kept(r, k, lastPc, Sent(rec)) \/ Dropped(r, k, lastPc)
        /\ m.pcid \in 0..MaxRpc
    BY <1>r
  <2> HIDE DEF r, k
  <2>3. CASE Return(r, k, toClient, rec.pc) /\ UNCHANGED lastPc
    BY <1>t, <2>2, <2>3, ReturnStep DEF Works, Became
  <2>4. CASE Return(NegotiationNeeded(r), k, toClient, r.pc) /\ UNCHANGED lastPc
    <3>1. /\ NegotiationNeeded(r) \in Record /\ NegotiationNeeded(r).pc = r.pc
          /\ NegotiationNeeded(r).source = r.source
          /\ Sent(NegotiationNeeded(r)) = Sent(r)
      BY <1>t, <2>2, RecordTypes, RecordFields
    <3>2. Became(NegotiationNeeded(r), k, lastPc, Sent(rec))
      BY <2>2, <3>1 DEF Became, Kept, Dropped
    <3> QED BY <1>t, <2>2, <2>4, <3>1, <3>2, ReturnStep DEF Works
  <2>5. CASE /\ r.pc = NoPc /\ CanCreate(r)
             /\ lastPc' = lastPc + 1
             /\ Return(CreatePeerConnection(r, m.pcid), Created(k, r, m.pcid), toClient, lastPc + 1)
    <3>1. /\ CreatePeerConnection(r, m.pcid) \in Record
          /\ Created(k, r, m.pcid) \in [Pcs -> PeerConnection]
          /\ Made(CreatePeerConnection(r, m.pcid), Created(k, r, m.pcid), lastPc + 1)
      BY <2>2, <2>5, CreateStep
    <3> QED BY <1>t, <2>5, <3>1, ReturnStep DEF Works, Became
  <2>6. CASE Return(Reset(r), k, toClient, rec.pc) /\ UNCHANGED lastPc /\ r.pc = NoPc
    <3>1. Reset(r) \in Record /\ Close(k, r.pc) = k
      BY <1>t, <2>2, <2>6, RecordTypes DEF Close
    <3>2. Dropped(Reset(r), k, lastPc)
      BY <1>t, <2>2, <3>1, CloseDrops
    <3> QED BY <1>t, <2>2, <2>6, <3>1, <3>2, ReturnStep DEF Works, Became
  <2> QED BY <2>1, <2>3, <2>4, <2>5, <2>6 DEF r, k
<1>2. CASE HandleCandidate
  <2>1. PICK m \in ServerMessage :
          LET r == Rebound(rec, m.pcid)
              k == ReboundConn(m.pcid)
          IN /\ \/ Return(r, k, toClient, rec.pc)
                \/ Return(Reset(r), Close(k, r.pc), toClient, rec.pc)
                \/ Return([r EXCEPT !.pendingCandidates = TRUE], k, toClient, rec.pc)
             /\ UNCHANGED lastPc
    BY <1>2, ReceiveHead DEF HandleCandidate
  <2> DEFINE r == Rebound(rec, m.pcid)
             k == ReboundConn(m.pcid)
             c == [r EXCEPT !.pendingCandidates = TRUE]
  <2>2. /\ r \in Record /\ k \in [Pcs -> PeerConnection]
        /\ PcOK(r, k, lastPc)
        /\ Kept(r, k, lastPc, Sent(rec)) \/ Dropped(r, k, lastPc)
    BY <1>r
  <2> HIDE DEF r, k
  <2>3. CASE Return(r, k, toClient, rec.pc)
    BY <1>t, <2>1, <2>2, <2>3, ReturnStep DEF Works, Became
  <2>4. CASE Return(Reset(r), Close(k, r.pc), toClient, rec.pc)
    <3>1. /\ Reset(r) \in Record /\ Close(k, r.pc) \in [Pcs -> PeerConnection]
          /\ Dropped(Reset(r), Close(k, r.pc), lastPc)
      BY <1>t, <2>2, RecordTypes, CloseDrops
    <3> QED BY <1>t, <2>1, <2>4, <3>1, ReturnStep DEF Works, Became
  <2>5. CASE Return(c, k, toClient, rec.pc)
    <3>1. c \in Record /\ c.pc = r.pc /\ c.source = r.source /\ Sent(c) = Sent(r)
      BY <1>t, <2>2, RecordTypes, RecordFields
    <3>2. Became(c, k, lastPc, Sent(rec))
      BY <2>2, <3>1 DEF Became, Kept, Dropped
    <3> QED BY <1>t, <2>1, <2>2, <2>5, <3>1, <3>2, ReturnStep DEF Works
  <2> QED BY <2>1, <2>3, <2>4, <2>5 DEF r, k
<1>3. CASE HandleTransceiverRequest
  <2>1. PICK m \in ServerMessage :
          /\ Return(Rebound(rec, m.pcid), ReboundConn(m.pcid), toClient, rec.pc)
          /\ UNCHANGED lastPc
    BY <1>3, ReceiveHead DEF HandleTransceiverRequest
  <2>2. Works(Rebound(rec, m.pcid), ReboundConn(m.pcid), toClient)
    BY <1>t, <1>r DEF Works
  <2>3. Became(Rebound(rec, m.pcid), ReboundConn(m.pcid), lastPc', Sent(rec))
    BY <1>r, <2>1 DEF Became
  <2> QED BY <1>t, <2>1, <2>2, <2>3, ReturnStep
<1>4. CASE HandleSDP
  <2>1. PICK m \in ServerMessage :
          /\ Leave(Rebound(rec, m.pcid), ReboundConn(m.pcid), toClient)
          /\ \/ handler' = [at |-> "media", pc |-> rec.pc, msg |-> m]
             \/ /\ rec.pc = NoPc
                /\ handler' = [at |-> "restart", pc |-> rec.pc, msg |-> m]
             \/ handler' = [at |-> "remote", pc |-> rec.pc, msg |-> m]
          /\ UNCHANGED lastPc
    BY <1>4, ReceiveHead DEF HandleSDP
  <2>2. Works(Rebound(rec, m.pcid), ReboundConn(m.pcid), toClient)
    BY <1>t, <1>r DEF Works
  <2>3. Became(Rebound(rec, m.pcid), ReboundConn(m.pcid), lastPc', Sent(rec))
    BY <1>r, <2>1 DEF Became
  <2>4. HandlerOK'
    BY <1>t, <2>1 DEF HandlerOK, HandlerPoint
  <2> QED BY <1>t, <2>1, <2>2, <2>3, <2>4, LeaveStep
<1> QED BY <1>1, <1>2, <1>3, <1>4

(* A step of the handler that changes one field of the record, or none.    *)
LEMMA SameStep ==
  ASSUME P2PRecordAssumption, TypeOK, PcInv, NEW r \in Record,
         NEW k \in [Pcs -> PeerConnection], NEW q \in Seq(ClientMessage),
         r.pc = rec.pc, r.source = rec.source, Sent(r) = Sent(rec), Like(conn, k),
         Ends(r, k, q), UNCHANGED lastPc
  PROVE  StepTo(Sent(rec))
<1>1. Works(r, k, q) /\ role \in Roles
  BY Before DEF Works
<1>2. Became(r, k, lastPc', Sent(rec))
  BY DEF Became, Kept
<1> QED BY <1>1, <1>2, EndStep

(* What is added after an offer was waiting, and is sent all along.        *)
LEMMA PendingFields ==
  ASSUME P2PRecordAssumption, role \in Roles, NEW r \in Record
  PROVE  LET s == PendingAdded(r)
             missing == IF Initiator THEN {} ELSE s.tracks \ s.requested
             a == [s EXCEPT !.requested = s.requested \cup missing]
         IN /\ s \in Record /\ s.pc = r.pc /\ s.source = r.source /\ Sent(s) = Sent(r)
            /\ a \in Record /\ a.pc = r.pc /\ a.source = r.source /\ Sent(a) = Sent(r)
<1> DEFINE added == r.pending \ r.tracks
           senders == [x \in Tracks |-> IF x \in added THEN r.pc ELSE r.senders[x]]
           e == [r EXCEPT !.pending = {}, !.tracks = r.tracks \cup added, !.senders = senders]
           s == PendingAdded(r)
<1>1. senders \in [Tracks -> Pcs \cup {NoPc}] /\ added \subseteq Tracks
  BY DEF Record
<1> HIDE DEF senders
<1>2. /\ e \in Record /\ e.pc = r.pc /\ e.source = r.source
      /\ e.pending = {} /\ e.tracks = r.tracks \cup r.pending
  BY <1>1 DEF Record
<1>3. Sent(e) = Sent(r)
  BY <1>2 DEF Sent
<1>4. e = [r EXCEPT !.pending = {}, !.tracks = @ \cup added,
                    !.senders = [x \in Tracks |-> IF x \in added THEN r.pc ELSE @[x]]]
  BY DEF senders
<1> HIDE DEF e
<1>5. s \in {r, e, NegotiationNeeded(e)}
  BY <1>4 DEF PendingAdded
<1> HIDE DEF s
<1>6. s \in Record /\ s.pc = r.pc /\ s.source = r.source /\ Sent(s) = Sent(r)
  <2> DEFINE n == NegotiationNeeded(e)
  <2>1. n \in Record /\ n.pc = e.pc /\ n.source = e.source /\ Sent(n) = Sent(e)
    <3>1. e \in Record
      BY <1>2
    <3> QED BY <3>1, RecordTypes, RecordFields, Zenon
  <2> HIDE DEF n
  <2>2. s \in {r, e, n}
    BY <1>5 DEF n
  <2> QED BY <1>2, <1>3, <2>1, <2>2
<1> DEFINE missing == IF Initiator THEN {} ELSE s.tracks \ s.requested
           a == [s EXCEPT !.requested = s.requested \cup missing]
<1>7. /\ a \in Record /\ a.pc = s.pc /\ a.source = s.source
      /\ a.tracks = s.tracks /\ a.pending = s.pending
  BY <1>6 DEF Record
<1>8. Sent(a) = Sent(s)
  BY <1>7 DEF Sent
<1> QED BY <1>6, <1>7, <1>8 DEF s

LEMMA DescriptionStep ==
  ASSUME P2PRecordAssumption, TypeOK, PcInv, SetRemoteDescription
  PROVE  StepTo(Sent(rec)) /\ HandlerOK'
<1> DEFINE p == handler.pc
           c == [conn[p] EXCEPT !.signaling = "have-remote-offer", !.remote = TRUE]
           d == [conn[p] EXCEPT !.signaling = "stable", !.remote = TRUE,
                                !.stables = conn[p].stables + 1]
<1>t. /\ rec \in Record /\ conn \in [Pcs -> PeerConnection] /\ HandlerOK
      /\ toClient \in Seq(ClientMessage) /\ p \in Pcs \cup {NoPc}
      /\ "local" \in HandlerPoint
  BY Before DEF HandlerPoint
<1>1. CASE ResetReturn
  BY <1>1, ResetReturnStep
<1>2. CASE ~ResetReturn
  <2>1. /\ conn[p].signaling \in {"stable", "have-local-offer"}
        /\ \/ Leave(rec, [conn EXCEPT ![p] = c], toClient)
           \/ Leave(rec, [conn EXCEPT ![p] = d], toClient)
        /\ Goto("local", p)
        /\ UNCHANGED lastPc
    BY <1>2 DEF SetRemoteDescription
  <2>2. \E k \in [Pcs -> PeerConnection] : Leave(rec, k, toClient) /\ Like(conn, k)
    <3>1. CASE p \in Pcs
      <4>1. conn[p] \in PeerConnection /\ c \in PeerConnection /\ d \in PeerConnection
        <5>1. "have-remote-offer" \in SignalingState /\ "stable" \in SignalingState
          BY DEF SignalingState
        <5> QED BY <1>t, <3>1, <5>1, ConnTypes, Zenon
      <4>2. c.signaling = "have-remote-offer" /\ d.signaling = "stable"
        BY <4>1 DEF PeerConnection
      <4> HIDE DEF c, d
      <4>3. \A x \in {c, d} : /\ [conn EXCEPT ![p] = x] \in [Pcs -> PeerConnection]
                              /\ Like(conn, [conn EXCEPT ![p] = x])
        BY <1>t, <2>1, <3>1, <4>1, <4>2, OneConn
      <4>4. \E x \in {c, d} : Leave(rec, [conn EXCEPT ![p] = x], toClient)
        BY <2>1
      <4> QED BY <4>3, <4>4, Zenon
    <3>2. CASE p = NoPc
      <4>1. \A x : [conn EXCEPT ![p] = x] = conn
        BY <1>t, <3>2 DEF Pcs, NoPc
      <4> QED BY <1>t, <2>1, <4>1 DEF Like
    <3> QED BY <1>t, <3>1, <3>2
  <2>3. StepTo(Sent(rec))
    BY <1>t, <2>1, <2>2, SameStep DEF Ends
  <2> QED BY <1>t, <2>1, <2>3, GotoOK
<1> QED BY <1>1, <1>2

LEMMA ApplyStep ==
  ASSUME P2PRecordAssumption, TypeOK, PcInv, ApplyRemoteDescription
  PROVE  StepTo(Sent(rec)) /\ HandlerOK'
<1> DEFINE p == handler.pc
           f == Flushed(rec)
           s == PendingAdded(f)
<1>t. /\ rec \in Record /\ conn \in [Pcs -> PeerConnection] /\ HandlerOK
      /\ toClient \in Seq(ClientMessage) /\ p \in Pcs \cup {NoPc} /\ role \in Roles
      /\ "finish" \in HandlerPoint
  BY Before DEF HandlerPoint
<1>1. /\ f \in Record /\ f.pc = rec.pc /\ f.source = rec.source
      /\ Sent(f) = Sent(rec)
  BY <1>t, RecordTypes, RecordFields
<1> HIDE DEF f
<1>2. CASE Replaced
  BY <1>2, ReplacedStep
<1>3. CASE ResetReturn
  BY <1>3, ResetReturnStep
<1>4. CASE /\ Leave(f, conn, toClient)
           /\ Goto("finish", p)
           /\ UNCHANGED lastPc
  <2>1. Like(conn, conn)
    BY DEF Like
  <2> QED BY <1>t, <1>1, <1>4, <2>1, SameStep, GotoOK DEF Ends
<1>5. CASE /\ rec.pc = p
           /\ conn[p].signaling = "have-remote-offer"
           /\ CreateAnswer(s, conn, toClient)
           /\ Goto("finish", p)
           /\ UNCHANGED lastPc
  <2> DEFINE missing == IF Initiator THEN {} ELSE s.tracks \ s.requested
             a == [s EXCEPT !.requested = s.requested \cup missing]
             d(c) == [conn[p] EXCEPT !.signaling = "stable", !.changed = c,
                                     !.stables = conn[p].stables + 1]
             k(c) == [conn EXCEPT ![p] = d(c)]
             message == IF missing = {} THEN <<Say("answer")>>
                        ELSE <<Say("answer"), Ask(missing)>>
  <2>1. /\ s \in Record /\ s.pc = rec.pc /\ s.source = rec.source
        /\ Sent(s) = Sent(rec)
        /\ a \in Record /\ a.pc = rec.pc /\ a.source = rec.source
        /\ Sent(a) = Sent(rec)
    BY <1>t, <1>1, PendingFields
  <2>m. missing \subseteq Tracks
    BY <2>1 DEF Record
  <2> HIDE DEF s
  <2>2. ASSUME NEW c \in BOOLEAN
        PROVE  k(c) \in [Pcs -> PeerConnection] /\ Like(conn, k(c))
    <3>1. CASE p \in Pcs
      <4>1. conn[p] \in PeerConnection /\ d(c) \in PeerConnection
        BY <1>t, <3>1, AnsweredConn, Zenon
      <4>2. d(c).signaling = "stable"
        BY <4>1, AnsweredConn, Zenon
      <4> DEFINE e == d(c)
      <4>3. e \in PeerConnection /\ e.signaling = "stable" /\ k(c) = [conn EXCEPT ![p] = e]
        BY <4>1, <4>2
      <4> HIDE DEF d, e, k
      <4>4. /\ conn[p].signaling # "new" /\ conn[p].signaling # "closed"
            /\ e.signaling # "new" /\ e.signaling # "closed"
        BY <1>5, <4>3
      <4>5. /\ [conn EXCEPT ![p] = e] \in [Pcs -> PeerConnection]
            /\ Like(conn, [conn EXCEPT ![p] = e])
        BY <1>t, <3>1, <4>3, <4>4, OneConn
      <4> QED BY <4>3, <4>5
    <3>2. CASE p = NoPc
      <4>1. k(c) = conn
        BY <1>t, <3>2 DEF Pcs, NoPc
      <4> QED BY <1>t, <4>1 DEF Like
    <3> QED BY <1>t, <3>1, <3>2
  <2>3. toClient \o message \in Seq(ClientMessage)
    <3>1. Say("answer") \in ClientMessage /\ Ask(missing) \in ClientMessage
      BY <2>m, ClientMessages
    <3>2. message \in Seq(ClientMessage)
      BY <3>1
    <3> HIDE DEF message
    <3> QED BY <1>t, <3>2
  <2>4. PICK c \in BOOLEAN :
          Leave([s EXCEPT !.requested = @ \cup missing],
                [conn EXCEPT ![s.pc] = [@ EXCEPT !.signaling = "stable", !.changed = c,
                                                 !.stables = conn[s.pc].stables + 1]],
                IF CanSend(s) THEN toClient \o message ELSE toClient)
    BY <1>5, Zenon DEF CreateAnswer
  <2>5. Leave(a, k(c), toClient) \/ Leave(a, k(c), toClient \o message)
    BY <1>5, <2>1, <2>4
  <2>6. StepTo(Sent(rec))
    <3> HIDE DEF a, k, message
    <3>1. k(c) \in [Pcs -> PeerConnection] /\ Like(conn, k(c))
      BY <2>2
    <3>2. CASE Leave(a, k(c), toClient)
      BY <1>t, <1>5, <2>1, <3>1, <3>2, SameStep DEF Ends
    <3>3. CASE Leave(a, k(c), toClient \o message)
      BY <1>5, <2>1, <2>3, <3>1, <3>3, SameStep DEF Ends
    <3> QED BY <2>5, <3>2, <3>3
  <2> QED BY <1>t, <1>5, <2>6, GotoOK
<1> QED BY <1>2, <1>3, <1>4, <1>5 DEF ApplyRemoteDescription, f, s

LEMMA HandlerStep ==
  ASSUME P2PRecordAssumption, TypeOK, PcInv, Handler
  PROVE  StepTo(Sent(rec)) /\ HandlerOK'
<1>t. /\ rec \in Record /\ conn \in [Pcs -> PeerConnection] /\ HandlerOK
      /\ toClient \in Seq(ClientMessage) /\ handler.pc \in Pcs \cup {NoPc}
      /\ {"create", "remote", "finish"} \subseteq HandlerPoint /\ role \in Roles
      /\ PcOK(rec, conn, lastPc) /\ Like(conn, conn)
  BY Before DEF HandlerPoint, Like
<1>1. CASE HandleRenegotiate \/ HandleCandidate \/ HandleTransceiverRequest \/ HandleSDP
  BY <1>1, ReceiveStep
<1>2. CASE UpdateMedia
  <2> DEFINE v == IF handler.msg.lines = {} THEN "other" ELSE "codec"
             r == [rec EXCEPT !.media = v]
  <2>1. CASE ResetReturn \/ Replaced
    BY <2>1, ResetReturnStep, ReplacedStep
  <2>2. CASE ~(ResetReturn \/ Replaced)
    <3>1. /\ Leave(r, conn, toClient)
          /\ Goto(IF handler.pc = NoPc THEN "create" ELSE "remote", handler.pc)
          /\ UNCHANGED lastPc
      BY <1>2, <2>2 DEF UpdateMedia
    <3>v. v \in Media
      BY DEF Media
    <3> HIDE DEF v
    <3>2. r \in Record /\ r.pc = rec.pc /\ r.source = rec.source /\ Sent(r) = Sent(rec)
      BY <1>t, <3>v, MediaFields
    <3> HIDE DEF r
    <3>3. StepTo(Sent(rec))
      BY <1>t, <3>1, <3>2, SameStep DEF Ends
    <3>4. HandlerOK'
      BY <1>t, <3>1, GotoOK
    <3> QED BY <3>3, <3>4
  <2> QED BY <2>1, <2>2
<1>3. CASE RequestRestart
  <2> DEFINE r == NegotiationNeeded(rec)
  <2>1. r \in Record /\ r.pc = rec.pc /\ r.source = rec.source /\ Sent(r) = Sent(rec)
    BY <1>t, RecordTypes, RecordFields
  <2> HIDE DEF r
  <2>2. Leave(r, conn, toClient) /\ Goto("create", handler.pc) /\ UNCHANGED lastPc
    BY <1>3 DEF RequestRestart, r
  <2>3. StepTo(Sent(rec))
    BY <1>t, <2>1, <2>2, SameStep DEF Ends
  <2>4. handler.pc = NoPc
    BY <1>3, <1>t DEF RequestRestart, HandlerOK
  <2> QED BY <1>t, <2>2, <2>3, <2>4, GotoOK
<1>4. CASE CreateForSDP
  <2>1. CASE ResetReturn \/ Replaced
    BY <2>1, ResetReturnStep, ReplacedStep
  <2>2. CASE ~(ResetReturn \/ Replaced)
    <3> DEFINE r == CreatePeerConnection(rec, NoId)
               k == Created(conn, rec, handler.msg.pcid)
               q == Asked(rec, toClient)
    <3>1. /\ rec.pc = NoPc /\ CanCreate(rec) /\ lastPc' = lastPc + 1
          /\ Leave(r, k, q)
          /\ \E at \in {"finish", "remote"} : Goto(at, lastPc + 1)
      BY <1>4, <1>t, <2>2 DEF CreateForSDP, HandlerOK
    <3>2. NoId \in 0..MaxRpc /\ handler.msg.pcid \in 0..MaxRpc
      BY <1>t DEF P2PRecordAssumption, NoId, HandlerOK, ServerMessage
    <3>3. r \in Record /\ k \in [Pcs -> PeerConnection] /\ Made(r, k, lastPc + 1)
      BY <1>t, <3>1, <3>2, CreateStep
    <3>4. q \in Seq(ClientMessage)
      <4>1. Ask(Given(rec)) \in ClientMessage
        BY ClientMessages DEF Given, NoTrack, TypeOK
      <4> QED BY <1>t, <4>1 DEF Asked
    <3> HIDE DEF r, k, q
    <3>5. StepTo(Sent(rec))
      BY <1>t, <3>1, <3>3, <3>4, LeaveStep DEF Works, Became
    <3>6. lastPc + 1 \in Pcs
      BY <3>3 DEF Made
    <3> QED BY <1>t, <3>1, <3>5, <3>6, GotoOK
  <2> QED BY <2>1, <2>2
<1>5. CASE SetRemoteDescription \/ ApplyRemoteDescription
  BY <1>5, DescriptionStep, ApplyStep
<1>6. CASE Finish
  <2>1. Return(rec, conn, toClient, handler.pc) /\ UNCHANGED lastPc
    BY <1>6 DEF Finish
  <2> QED BY <1>t, <2>1, Before, ReturnStep
<1> QED BY <1>1, <1>2, <1>3, <1>4, <1>5, <1>6 DEF Handler

(* What the track worker does to the record.                               *)
LEMMA TrackFields ==
  ASSUME P2PRecordAssumption, NEW r \in Record, r.pc # NoPc, NEW x \in Tracks
  PROVE  /\ Added(r, x) \in Record /\ Added(r, x).pc = r.pc
         /\ Added(r, x).source = r.source /\ Sent(Added(r, x)) = Sent(r) \cup {x}
         /\ Removed(r, x) \in Record /\ Removed(r, x).pc = r.pc
         /\ Removed(r, x).source = r.source /\ Sent(Removed(r, x)) = Sent(r) \ {x}
         /\ Pended(r, x) \in Record /\ Pended(r, x).pc = r.pc
         /\ Pended(r, x).source = r.source /\ Sent(Pended(r, x)) = Sent(r) \cup {x}
<1>1. /\ [r.senders EXCEPT ![x] = NoPc] \in [Tracks -> Pcs \cup {NoPc}]
      /\ [r.senders EXCEPT ![x] = r.pc] \in [Tracks -> Pcs \cup {NoPc}]
  BY DEF Record
<1> DEFINE s == [r.senders EXCEPT ![x] = NoPc]
           t == [r.senders EXCEPT ![x] = r.pc]
<1> HIDE DEF s, t
<1>2. LET a == [r EXCEPT !.tracks = r.tracks \cup {x}, !.senders = t]
      IN /\ a \in Record /\ a.pc = r.pc /\ a.source = r.source
         /\ a.tracks = r.tracks \cup {x} /\ a.pending = r.pending
  BY <1>1 DEF Record, s, t
<1>3. LET a == [r EXCEPT !.pending = r.pending \ {x}, !.tracks = r.tracks \ {x},
                         !.senders = s]
      IN /\ a \in Record /\ a.pc = r.pc /\ a.source = r.source
         /\ a.tracks = r.tracks \ {x} /\ a.pending = r.pending \ {x}
  BY <1>1 DEF Record, s, t
<1>4. /\ Pended(r, x) \in Record /\ Pended(r, x).pc = r.pc
      /\ Pended(r, x).source = r.source
      /\ Pended(r, x).tracks = r.tracks /\ Pended(r, x).pending = r.pending \cup {x}
  BY DEF Pended, Record
<1>5. /\ Added(r, x) = [r EXCEPT !.tracks = r.tracks \cup {x}, !.senders = t]
      /\ Removed(r, x) = [r EXCEPT !.pending = r.pending \ {x}, !.tracks = r.tracks \ {x},
                                   !.senders = s]
  BY DEF Added, Removed, s, t
<1>6. /\ Sent(Added(r, x)) = Sent(r) \cup {x}
      /\ Sent(Removed(r, x)) = Sent(r) \ {x}
      /\ Sent(Pended(r, x)) = Sent(r) \cup {x}
  BY <1>2, <1>3, <1>4, <1>5 DEF Sent
<1> QED BY <1>2, <1>3, <1>4, <1>5, <1>6

LEMMA WorkerEnds ==
  ASSUME P2PRecordAssumption, TypeOK, PcInv, NEW r \in Record,
         NEW k \in [Pcs -> PeerConnection], NEW q \in Seq(ClientMessage),
         r.pc = rec.pc, r.source = rec.source, Like(conn, k),
         \/ MaybeNegotiateAndUnlock(r, k, q)
         \/ MaybeNegotiateAndUnlock(NegotiationNeeded(r), k, q),
         UNCHANGED lastPc
  PROVE  Stays(Sent(r))
<1>1. Works(r, k, q) /\ role \in Roles
  BY Before DEF Works
<1> DEFINE n == NegotiationNeeded(r)
<1>2. n \in Record /\ n.pc = r.pc /\ n.source = r.source /\ Sent(n) = Sent(r)
  BY <1>1, RecordTypes, RecordFields
<1> HIDE DEF n
<1>3. Works(n, k, q)
  BY <1>1, <1>2 DEF Works
<1>4. /\ Works(rec', conn', toClient') /\ Like(k, conn')
      /\ rec'.pc = r.pc /\ rec'.source = r.source /\ Sent(rec') = Sent(r)
  BY <1>1, <1>2, <1>3, NegotiateEnds DEF n
<1> QED BY <1>4, LikeTrans DEF Stays, Kept

LEMMA ChangedConn ==
  ASSUME P2PRecordAssumption, NEW k \in [Pcs -> PeerConnection], NEW p \in Pcs
  PROVE  Changed(k, p) \in [Pcs -> PeerConnection] /\ Like(k, Changed(k, p))
<1> DEFINE c == [k[p] EXCEPT !.changed = TRUE]
<1>1. c \in PeerConnection /\ k[p] \in PeerConnection
  BY ConnTypes, Zenon
<1>2. c.signaling = k[p].signaling
  BY <1>1 DEF PeerConnection
<1>3. Changed(k, p) = [k EXCEPT ![p] = c]
  BY DEF Changed
<1> HIDE DEF c
<1>4. /\ [k EXCEPT ![p] = c] \in [Pcs -> PeerConnection]
      /\ Like(k, [k EXCEPT ![p] = c])
  BY <1>1, <1>2, OneConn
<1> QED BY <1>3, <1>4

LEMMA AddTrackStep ==
  ASSUME P2PRecordAssumption, TypeOK, PcInv, NEW x \in Tracks, AddTrack(x), rec.pc # NoPc,
         UNCHANGED lastPc
  PROVE  \/ Stays(Sent(rec) \cup {x})
         \/ /\ Stays(Sent(rec))
            /\ conn[rec.pc].signaling = "closed" \/ (Initiator /\ ~Codec)
<1>t. /\ rec \in Record /\ rec.pc \in Pcs /\ conn \in [Pcs -> PeerConnection]
      /\ toClient \in Seq(ClientMessage) /\ Like(conn, conn) /\ role \in Roles
  BY Before DEF Like
<1>a. /\ Added(rec, x) \in Record /\ Added(rec, x).pc = rec.pc
      /\ Added(rec, x).source = rec.source /\ Sent(Added(rec, x)) = Sent(rec) \cup {x}
      /\ Pended(rec, x) \in Record /\ Pended(rec, x).pc = rec.pc
      /\ Pended(rec, x).source = rec.source /\ Sent(Pended(rec, x)) = Sent(rec) \cup {x}
      /\ Changed(conn, rec.pc) \in [Pcs -> PeerConnection]
      /\ Like(conn, Changed(conn, rec.pc))
  BY <1>t, TrackFields, ChangedConn
<1>s. x \in rec.tracks \/ x \in rec.pending => Sent(rec) \cup {x} = Sent(rec)
  BY DEF Sent
<1>1. CASE /\ \/ x \in rec.tracks \/ conn[rec.pc].signaling = "closed"
              \/ Initiator /\ ~Codec
           /\ MaybeNegotiateAndUnlock(rec, conn, toClient)
  <2>1. Stays(Sent(rec))
    BY <1>t, <1>1, WorkerEnds
  <2>2. CASE x \in rec.tracks
    <3>1. Sent(rec) \cup {x} = Sent(rec)
      BY <2>2, <1>s
    <3>2. Stays(Sent(rec) \cup {x})
      BY <2>1, <3>1, Zenon
    <3> QED BY <3>2
  <2>3. CASE conn[rec.pc].signaling = "closed" \/ (Initiator /\ ~Codec)
    BY <2>1, <2>3, Zenon
  <2> QED BY <2>2, <2>3, <1>1, Zenon
<1>2. CASE MaybeNegotiateAndUnlock(
             NegotiationNeeded(Added(rec, x)), Changed(conn, rec.pc), toClient)
  <2>1. Stays(Sent(Added(rec, x)))
    BY <1>t, <1>a, <1>2, WorkerEnds
  <2> QED BY <2>1, <1>a
<1>3. CASE /\ x \in rec.pending
           /\ MaybeNegotiateAndUnlock(NegotiationNeeded(rec), conn, toClient)
  BY <1>t, <1>s, <1>3, WorkerEnds
<1>4. CASE \/ MaybeNegotiateAndUnlock(
                NegotiationNeeded(Pended(rec, x)), conn, toClient \o TransceiverRequest(rec, x))
           \/ MaybeNegotiateAndUnlock(Pended(rec, x), conn, toClient)
  <2>1. toClient \o TransceiverRequest(rec, x) \in Seq(ClientMessage)
    <3>1. Ask({x}) \in ClientMessage
      BY ClientMessages
    <3>2. <<>> \in Seq(ClientMessage) /\ <<Ask({x})>> \in Seq(ClientMessage)
      BY <3>1
    <3>3. TransceiverRequest(rec, x) \in Seq(ClientMessage)
      BY <3>2 DEF TransceiverRequest
    <3> QED BY <1>t, <3>3
  <2> DEFINE q == toClient \o TransceiverRequest(rec, x)
  <2> HIDE DEF q
  <2>2. \/ MaybeNegotiateAndUnlock(NegotiationNeeded(Pended(rec, x)), conn, q)
        \/ MaybeNegotiateAndUnlock(Pended(rec, x), conn, toClient)
    BY <1>4 DEF q
  <2>3. Stays(Sent(Pended(rec, x)))
    <3>1. CASE MaybeNegotiateAndUnlock(NegotiationNeeded(Pended(rec, x)), conn, q)
      BY <1>t, <1>a, <2>1, <3>1, WorkerEnds DEF q
    <3>2. CASE MaybeNegotiateAndUnlock(Pended(rec, x), conn, toClient)
      BY <1>t, <1>a, <3>2, WorkerEnds
    <3> QED BY <2>2, <3>1, <3>2
  <2> QED BY <2>3, <1>a
<1>5. \/ /\ \/ x \in rec.tracks \/ conn[rec.pc].signaling = "closed"
            \/ Initiator /\ ~Codec
         /\ MaybeNegotiateAndUnlock(rec, conn, toClient)
      \/ MaybeNegotiateAndUnlock(
           NegotiationNeeded(Added(rec, x)), Changed(conn, rec.pc), toClient)
      \/ /\ x \in rec.pending
         /\ MaybeNegotiateAndUnlock(NegotiationNeeded(rec), conn, toClient)
      \/ MaybeNegotiateAndUnlock(
           NegotiationNeeded(Pended(rec, x)), conn, toClient \o TransceiverRequest(rec, x))
      \/ MaybeNegotiateAndUnlock(Pended(rec, x), conn, toClient)
  BY Zenon DEF AddTrack, HasCodec
<1> QED BY <1>1, <1>2, <1>3, <1>4, <1>5

LEMMA RemoveTrackStep ==
  ASSUME P2PRecordAssumption, TypeOK, PcInv, NEW x \in Tracks, RemoveTrack(x),
         rec.pc # NoPc, UNCHANGED lastPc
  PROVE  Stays(Sent(rec) \ {x})
<1> DEFINE r == Removed(rec, x)
           k == Changed(conn, rec.pc)
<1>t. /\ rec \in Record /\ rec.pc \in Pcs /\ conn \in [Pcs -> PeerConnection]
      /\ toClient \in Seq(ClientMessage) /\ Like(conn, conn)
  BY Before DEF Like
<1>1. /\ r \in Record /\ r.pc = rec.pc
      /\ r.source = rec.source /\ Sent(r) = Sent(rec) \ {x}
      /\ k \in [Pcs -> PeerConnection] /\ Like(conn, k)
  BY <1>t, TrackFields, ChangedConn
<1> HIDE DEF r, k
<1>2. \/ MaybeNegotiateAndUnlock(NegotiationNeeded(r), conn, toClient)
      \/ MaybeNegotiateAndUnlock(NegotiationNeeded(r), k, toClient)
      \/ MaybeNegotiateAndUnlock(r, conn, toClient)
  BY DEF RemoveTrack, r, k
<1>3. Stays(Sent(r))
  BY <1>t, <1>1, <1>2, WorkerEnds
<1> QED BY <1>1, <1>3

(* The worker's step, when it takes a change from its channel.             *)
LEMMA WorkerStep ==
  ASSUME P2PRecordAssumption, TypeOK, PcInv, TrackWorker
  PROVE  /\ \/ Stays(Sent(rec)) /\ (session # "up" \/ rec.pc = NoPc)
            \/ /\ Head(trackCh).remove
               /\ Stays(Sent(rec) \ {Head(trackCh).track})
            \/ /\ ~Head(trackCh).remove
               /\ Stays(Sent(rec) \cup {Head(trackCh).track})
            \/ /\ ~Head(trackCh).remove
               /\ Stays(Sent(rec))
               /\ conn[rec.pc].signaling = "closed" \/ (Initiator /\ ~Codec)
         /\ rec.pc # NoPc \/ Stays({})
<1> DEFINE c == Head(trackCh)
<1>t. /\ rec \in Record /\ conn \in [Pcs -> PeerConnection]
      /\ toClient \in Seq(ClientMessage) /\ Like(conn, conn)
      /\ PcOK(rec, conn, lastPc) /\ Works(rec, conn, toClient)
  BY Before DEF Like
<1>0. UNCHANGED lastPc
  BY DEF TrackWorker, recordEnv
<1>1. CASE session # "up" /\ UNCHANGED recordVars
  <2>1. Stays(Sent(rec))
    BY <1>t, <1>0, <1>1 DEF recordVars, Stays, Kept
  <2> QED BY <1>t, <1>1, <2>1 DEF PcOK
<1>2. CASE /\ Closed \/ rec.pc = NoPc
           /\ MaybeNegotiateAndUnlock(rec, conn, toClient)
  <2>1. Stays(Sent(rec))
    BY <1>t, <1>0, <1>2, WorkerEnds
  <2> QED BY <1>t, <1>2, <2>1 DEF PcOK, Closed
<1>3. CASE /\ rec.pc # NoPc
           /\ IF c.remove THEN RemoveTrack(c.track) ELSE AddTrack(c.track)
  <2>1. c.track \in Tracks
    <3>1. trackCh \in Seq(Change) /\ trackCh # <<>>
      BY DEF TypeOK, TrackWorker
    <3>2. c \in Change
      BY <3>1
    <3> QED BY <3>2 DEF Change
  <2> HIDE DEF c
  <2>2. CASE c.remove
    <3>1. Stays(Sent(rec) \ {c.track})
      BY <1>0, <1>3, <2>1, <2>2, RemoveTrackStep
    <3> QED BY <1>3, <2>2, <3>1 DEF c
  <2>3. CASE ~c.remove
    <3>1. \/ Stays(Sent(rec) \cup {c.track})
          \/ /\ Stays(Sent(rec))
             /\ conn[rec.pc].signaling = "closed" \/ (Initiator /\ ~Codec)
      BY <1>0, <1>3, <2>1, <2>3, AddTrackStep
    <3> QED BY <1>3, <2>3, <3>1 DEF c
  <2> QED BY <2>2, <2>3
<1> QED BY <1>1, <1>2, <1>3 DEF TrackWorker

(* Callbacks and failures.                                                 *)
LEMMA CallbackStep ==
  ASSUME P2PRecordAssumption, TypeOK, PcInv, NEW p \in Pcs,
         OnStable(p) \/ Destroy(p) \/ ConnectionFails(p) \/ WriteFails
  PROVE  StepTo(Sent(rec))
<1>t. /\ rec \in Record /\ conn \in [Pcs -> PeerConnection] /\ role \in Roles
      /\ toClient \in Seq(ClientMessage) /\ lastPc \in 0..MaxPc
      /\ PcOK(rec, conn, lastPc)
      /\ Close(conn, rec.pc) \in [Pcs -> PeerConnection]
      /\ Reset(rec) \in Record
      /\ Dropped(Reset(rec), Close(conn, rec.pc), lastPc)
      /\ conn[p] \in PeerConnection
  BY Before
<1>0. UNCHANGED lastPc
  BY DEF OnStable, Destroy, ConnectionFails, WriteFails, Fault, otherEnv
<1>1. CASE OnStable(p)
  <2> DEFINE c == [conn[p] EXCEPT !.stables = conn[p].stables - 1]
             run == [conn EXCEPT ![p] = c]
             queued == rec.needsNegotiation \/ rec.queuedNegotiation
             done == [rec EXCEPT !.isNegotiating = FALSE, !.queuedNegotiation = FALSE,
                                 !.needsNegotiation = queued]
  <2>1. c \in PeerConnection
    BY <1>t, <1>1, ConnTypes, Zenon DEF OnStable
  <2>2. c.signaling = conn[p].signaling
    BY <1>t DEF PeerConnection
  <2>3. run \in [Pcs -> PeerConnection] /\ Like(conn, run)
    <3> HIDE DEF c
    <3> QED BY <1>t, <2>1, <2>2, OneConn
  <2>4. queued \in BOOLEAN
    BY <1>t DEF Record
  <2>5. done = [rec EXCEPT !.isNegotiating = FALSE, !.queuedNegotiation = FALSE,
                           !.needsNegotiation = @ \/ rec.queuedNegotiation]
    OBVIOUS
  <2> HIDE DEF queued
  <2>6. /\ done \in Record /\ done.pc = rec.pc /\ done.source = rec.source
        /\ Sent(done) = Sent(rec)
    BY <1>t, <2>4 DEF Record, Sent
  <2> HIDE DEF done
  <2>7. \/ Leave(rec, run, toClient)
        \/ MaybeNegotiateAndUnlock(done, run, toClient)
        \/ MaybeNegotiateAndUnlock(rec, run, toClient)
    BY <1>1, <2>5 DEF OnStable
  <2> HIDE DEF run
  <2> QED BY <1>t, <1>0, <2>3, <2>6, <2>7, SameStep DEF Ends
<1>2. CASE Destroy(p)
  <2> DEFINE c == [conn[p] EXCEPT !.destroys = conn[p].destroys - 1]
             run == [conn EXCEPT ![p] = c]
  <2>1. c \in PeerConnection
    BY <1>t, <1>2, ConnTypes, Zenon DEF Destroy
  <2>2. c.signaling = conn[p].signaling
    BY <1>t DEF PeerConnection
  <2>3. run \in [Pcs -> PeerConnection] /\ Like(conn, run)
    <3> HIDE DEF c
    <3> QED BY <1>t, <2>1, <2>2, OneConn
  <2>4. Leave(rec, run, toClient) \/ Leave(Reset(rec), Close(run, rec.pc), toClient)
    BY <1>2 DEF Destroy
  <2> HIDE DEF run
  <2>5. PcOK(rec, run, lastPc)
    BY <1>t, <2>3 DEF PcOK, Like
  <2>6. CASE Leave(rec, run, toClient)
    BY <1>t, <1>0, <2>3, <2>6, SameStep DEF Ends
  <2>7. CASE Leave(Reset(rec), Close(run, rec.pc), toClient)
    <3>1. /\ Close(run, rec.pc) \in [Pcs -> PeerConnection]
          /\ Dropped(Reset(rec), Close(run, rec.pc), lastPc)
      BY <1>t, <2>3, <2>5, CloseDrops
    <3> QED BY <1>t, <1>0, <2>7, <3>1, LeaveStep DEF Works, Became
  <2> QED BY <2>4, <2>6, <2>7
<1>3. CASE ConnectionFails(p)
  <2> DEFINE c == [conn[p] EXCEPT !.destroys = conn[p].destroys + 1]
             k == [conn EXCEPT ![p] = c]
  <2>1. c \in PeerConnection
    BY <1>t, ConnTypes, Zenon
  <2>2. c.signaling = conn[p].signaling
    BY <1>t DEF PeerConnection
  <2>3. k \in [Pcs -> PeerConnection] /\ Like(conn, k)
    <3> HIDE DEF c
    <3> QED BY <1>t, <2>1, <2>2, OneConn
  <2>4. Leave(rec, k, toClient)
    BY <1>3 DEF ConnectionFails
  <2> HIDE DEF k
  <2> QED BY <1>t, <1>0, <2>3, <2>4, SameStep DEF Ends
<1>4. CASE WriteFails
  <2>1. Leave(Reset(rec), Close(conn, rec.pc), toClient)
    BY <1>4 DEF WriteFails
  <2> QED BY <1>t, <1>0, <2>1, LeaveStep DEF Works, Became
<1> QED BY <1>1, <1>2, <1>3, <1>4

(* A step that only the others take.                                       *)
LEMMA OtherStep ==
  ASSUME P2PRecordAssumption, TypeOK, PcInv, UNCHANGED <<rec, conn, lastPc>>,
         toClient' \in Seq(ClientMessage)
  PROVE  StepTo(Sent(rec))
  BY Before DEF Works, StepTo, Became, Kept

(* What a step does to the record.                                         *)
LEMMA NextStep ==
  ASSUME P2PRecordAssumption, TypeOK, PcInv, Next
  PROVE  \/ StepTo(Sent(rec))
         \/ TrackWorker
<1>t. /\ toClient \in Seq(ClientMessage) /\ <<>> \in Seq(ClientMessage)
      /\ toClient # <<>> => Tail(toClient) \in Seq(ClientMessage)
  BY Before
<1>1. CASE Handler
  BY <1>1, HandlerStep
<1>2. ASSUME NEW p \in Pcs, OnStable(p) \/ Destroy(p) \/ ConnectionFails(p)
      PROVE  StepTo(Sent(rec))
  BY <1>2, CallbackStep
<1>3. CASE WriteFails
  <2>1. lastPc \in 1..MaxPc
    BY <1>3 DEF WriteFails, TypeOK, P2PRecordAssumption
  <2> QED BY <1>3, <2>1, CallbackStep DEF Pcs
<1>4. CASE Remote \/ SessionEnds \/ ClientExtra \/ ClientRestart
  <2>1. UNCHANGED <<rec, conn, lastPc>> /\ toClient' \in Seq(ClientMessage)
    BY <1>t, <1>4 DEF Remote, SessionEnds, ClientExtra, ClientRestart, ClientReceive,
                      ClientOffer, clientEnv
  <2> QED BY <2>1, OtherStep
<1>5. CASE SourceReset \/ \E x \in Tracks : OnTrack(x) \/ PumpStep(x) \/ PumpEnds(x)
  <2>1. UNCHANGED <<rec, conn, lastPc, toClient>>
    BY <1>5 DEF SourceReset, OnTrack, PumpStep, PumpEnds, PumpAnnounces, PumpRemoves,
                recordVars, recordEnv
  <2> QED BY <1>t, <2>1, OtherStep
<1> QED BY <1>1, <1>2, <1>3, <1>4, <1>5 DEF Next

LEMMA StepPcOK ==
  ASSUME P2PRecordAssumption, PcOK(rec, conn, lastPc), NEW S, StepTo(S),
         rec.pc = NoPc => S = {}
  PROVE  PcOK(rec', conn', lastPc')
<1>1. lastPc \in Nat /\ Pcs \subseteq Nat
  BY DEF PcOK, P2PRecordAssumption, Pcs
<1>2. CASE Kept(rec', conn', lastPc', S) \/ Dropped(rec', conn', lastPc')
  <2>1. lastPc' = lastPc
    BY <1>2 DEF Kept, Dropped
  <2> QED BY <1>2, <2>1, KeptOK
<1>3. CASE Made(rec', conn', lastPc')
  <2>1. /\ lastPc' \in Pcs /\ rec'.pc = lastPc'
        /\ \A p \in Pcs : /\ p \in Nat
                          /\ conn'[p].signaling = "new" <=> p > lastPc'
                          /\ conn'[p].signaling = "closed" <=> p < lastPc'
    BY <1>1, <1>3 DEF Made
  <2>2. lastPc' \in 0..MaxPc /\ rec'.pc \in 0..lastPc' /\ rec'.pc # NoPc
    BY <1>1, <2>1 DEF Pcs, NoPc, P2PRecordAssumption
  <2>3. \A p \in Pcs : conn'[p].signaling \notin {"new", "closed"} => p = lastPc'
    BY <1>1, <2>1
  <2> QED BY <2>1, <2>2, <2>3 DEF PcOK
<1> QED BY <1>2, <1>3 DEF StepTo, Became

(* The variables besides the record's.                                     *)
RestOK ==
  /\ role \in Roles
  /\ session \in Session
  /\ toServer \in Seq(ServerMessage)
  /\ client \in [pcid : 1..MaxRpc, owes : BOOLEAN, awaits : BOOLEAN, extra : BOOLEAN,
                 lines : SUBSET Tracks]
  /\ source \in Tracks \cup {NoTrack}
  /\ pump \in [Tracks -> PumpPoint]
  /\ trackCh \in Seq(Change)
  /\ faults \in 0..MaxFaults

LEMMA MessageTypes ==
  ASSUME P2PRecordAssumption, NEW i \in 0..MaxRpc, NEW s \in Seq(ServerMessage),
         NEW t \in {"offer", "answer", "renegotiate", "noop", "candidate", "transceiver"}
  PROVE  Append(s, Message(t, i)) \in Seq(ServerMessage)
<1>1. Message(t, i) \in ServerMessage
  BY DEF Message, ServerMessage
<1> QED BY <1>1

LEMMA OfferTypes ==
  ASSUME P2PRecordAssumption, NEW i \in 0..MaxRpc, NEW s \in Seq(ServerMessage),
         NEW lines \in SUBSET Tracks
  PROVE  LET m == [Message("offer", i) EXCEPT !.lines = lines]
         IN /\ m = [type |-> "offer", pcid |-> i, lines |-> lines]
            /\ m \in ServerMessage /\ Append(s, m) \in Seq(ServerMessage)
<1>1. [Message("offer", i) EXCEPT !.lines = lines] = [type |-> "offer", pcid |-> i, lines |-> lines]
  BY DEF Message
<1>2. [type |-> "offer", pcid |-> i, lines |-> lines] \in ServerMessage
  BY DEF ServerMessage
<1> QED BY <1>1, <1>2

LEMMA RemoteRest ==
  ASSUME P2PRecordAssumption, RestOK, toClient \in Seq(ClientMessage),
         ClientReceive \/ ClientOffer \/ ClientExtra \/ ClientRestart,
         UNCHANGED role
  PROVE  RestOK'
<1>t. /\ toServer \in Seq(ServerMessage) /\ client.pcid \in 0..MaxRpc
      /\ client.pcid \in 1..MaxRpc
      /\ client.owes \in BOOLEAN /\ client.awaits \in BOOLEAN /\ client.extra \in BOOLEAN
      /\ client.lines \subseteq Tracks
      /\ Initiator \in BOOLEAN
  BY DEF RestOK, Initiator, P2PRecordAssumption
<1>m. \A t \in {"offer", "answer", "renegotiate", "noop", "candidate", "transceiver"} :
        Append(toServer, Message(t, client.pcid)) \in Seq(ServerMessage)
  BY <1>t, MessageTypes
<1>1. toServer' \in Seq(ServerMessage)
  <2>1. CASE ClientRestart
    <3>1. client.pcid + 1 \in 0..MaxRpc
      BY <1>t, <2>1 DEF ClientRestart, P2PRecordAssumption
    <3>2. \A t \in {"renegotiate", "noop"} :
            Append(toServer, Message(t, client.pcid + 1)) \in Seq(ServerMessage)
      BY <1>t, <3>1, MessageTypes
    <3> QED BY <1>t, <2>1, <3>2 DEF ClientRestart
  <2>2. CASE ClientReceive \/ ClientOffer \/ ClientExtra
    <3>1. Append(toServer, [Message("offer", client.pcid) EXCEPT !.lines = client.lines])
            \in Seq(ServerMessage)
      BY <1>t, OfferTypes
    <3> QED BY <1>t, <1>m, <2>2, <3>1 DEF ClientReceive, ClientOffer, ClientExtra
  <2> QED BY <2>1, <2>2
<1>2. client' \in [pcid : 1..MaxRpc, owes : BOOLEAN, awaits : BOOLEAN, extra : BOOLEAN,
             lines : SUBSET Tracks]
  <2>1. CASE ClientReceive
    <3> DEFINE m == Head(toClient)
               o == client.owes \/ m.type \in {"renegotiate", "transceiver"}
               w == client.awaits /\ m.type # "answer"
               l == IF Codec THEN client.lines \cup m.tracks ELSE client.lines
    <3>0. m \in ClientMessage
      BY <2>1 DEF ClientReceive
    <3> HIDE DEF m
    <3>1. o \in BOOLEAN /\ w \in BOOLEAN /\ l \in SUBSET Tracks
      BY <1>t, <3>0 DEF ClientMessage
    <3>2. client' = [client EXCEPT !.owes = o, !.awaits = w, !.lines = l]
      BY <2>1 DEF ClientReceive, m
    <3> HIDE DEF o, w, l
    <3> QED BY <3>1, <3>2 DEF RestOK
  <2>2. CASE ClientOffer \/ ClientExtra
    BY <2>2 DEF ClientOffer, ClientExtra, RestOK
  <2>3. CASE ClientRestart
    <3>1. client.pcid + 1 \in 1..MaxRpc
      BY <1>t, <2>3 DEF ClientRestart, P2PRecordAssumption
    <3>2. PICK lines \in OwnLines :
            client' = [pcid |-> client.pcid + 1, owes |-> ~Initiator, awaits |-> FALSE,
                       extra |-> FALSE, lines |-> lines]
      BY <2>3 DEF ClientRestart
    <3>3. lines \subseteq Tracks
      BY DEF OwnLines
    <3> QED BY <1>t, <3>1, <3>2, <3>3
  <2> QED BY <2>1, <2>2, <2>3
<1>3. UNCHANGED <<session, source, pump, trackCh, faults>>
  BY DEF ClientReceive, ClientOffer, ClientExtra, ClientRestart, clientEnv, sourceVars
<1> QED BY <1>1, <1>2, <1>3 DEF RestOK

LEMMA SourceRest ==
  ASSUME P2PRecordAssumption, RestOK, UNCHANGED role,
         \/ TrackWorker \/ SourceReset
         \/ \E x \in Tracks : OnTrack(x) \/ PumpStep(x) \/ PumpEnds(x)
  PROVE  RestOK'
<1>0. UNCHANGED <<session, toServer, client, faults>>
  BY DEF TrackWorker, SourceReset, OnTrack, PumpStep, PumpEnds, PumpAnnounces, PumpRemoves,
         recordEnv, clientVars
<1>1. CASE TrackWorker
  BY <1>0, <1>1 DEF TrackWorker, RestOK
<1>2. CASE SourceReset
  BY <1>0, <1>2 DEF SourceReset, RestOK
<1>3. ASSUME NEW x \in Tracks, OnTrack(x) \/ PumpStep(x) \/ PumpEnds(x)
      PROVE  RestOK'
  <2>1. /\ [track |-> x, remove |-> FALSE] \in Change
        /\ [track |-> x, remove |-> TRUE] \in Change
    BY DEF Change
  <2>2. trackCh' \in Seq(Change)
    <3>1. \/ UNCHANGED trackCh
          \/ trackCh' = Append(trackCh, [track |-> x, remove |-> FALSE])
          \/ trackCh' = Append(trackCh, [track |-> x, remove |-> TRUE])
      BY <1>3 DEF OnTrack, PumpStep, PumpEnds, PumpAnnounces, PumpRemoves
    <3>2. trackCh \in Seq(Change)
      BY DEF RestOK
    <3>3. \A c \in Change : Append(trackCh, c) \in Seq(Change)
      BY <3>2
    <3> QED BY <2>1, <3>1, <3>2, <3>3
  <2>3. pump' \in [Tracks -> PumpPoint]
    BY <1>3 DEF OnTrack, PumpStep, PumpEnds, PumpAnnounces, PumpRemoves, RestOK, PumpPoint
  <2>4. source' \in Tracks \cup {NoTrack}
    BY <1>3 DEF OnTrack, PumpStep, PumpEnds, PumpAnnounces, PumpRemoves, RestOK
  <2> QED BY <1>0, <2>2, <2>3, <2>4 DEF RestOK
<1> QED BY <1>1, <1>2, <1>3

LEMMA RestStep ==
  ASSUME P2PRecordAssumption, RestOK, toClient \in Seq(ClientMessage), Next
  PROVE  RestOK'
<1>1. CASE Handler
  <2>1. /\ UNCHANGED <<session, client, sourceVars, faults>>
        /\ toServer' \in Seq(ServerMessage)
    <3>1. CASE HandleRenegotiate \/ HandleCandidate \/ HandleTransceiverRequest \/ HandleSDP
      <4>1. Receive
        BY <3>1 DEF HandleRenegotiate, HandleCandidate, HandleTransceiverRequest, HandleSDP
      <4> QED BY <4>1 DEF Receive, RestOK
    <3>2. CASE UpdateMedia \/ RequestRestart \/ CreateForSDP \/ SetRemoteDescription
               \/ ApplyRemoteDescription \/ Finish
      <4>1. UNCHANGED handlerEnv
        BY <3>2 DEF UpdateMedia, RequestRestart, CreateForSDP, SetRemoteDescription,
                    ApplyRemoteDescription, Finish
      <4> QED BY <4>1 DEF handlerEnv, clientVars, RestOK
    <3> QED BY <1>1, <3>1, <3>2 DEF Handler
  <2> QED BY <2>1 DEF RestOK, Next, sourceVars
<1>2. CASE Remote \/ ClientExtra \/ ClientRestart
  BY <1>2, RemoteRest DEF Remote, Next
<1>3. CASE \/ TrackWorker \/ SourceReset
           \/ \E x \in Tracks : OnTrack(x) \/ PumpStep(x) \/ PumpEnds(x)
  BY <1>3, SourceRest DEF Next
<1>4. CASE WriteFails \/ \E p \in Pcs : OnStable(p) \/ Destroy(p) \/ ConnectionFails(p)
  <2>1. /\ UNCHANGED <<session, clientVars, sourceVars>>
        /\ faults' \in 0..MaxFaults
    <3>1. \/ UNCHANGED <<otherEnv, faults>>
          \/ Fault
      BY <1>4 DEF WriteFails, OnStable, Destroy, ConnectionFails
    <3>2. faults \in 0..MaxFaults /\ MaxFaults \in Nat
      BY DEF RestOK, P2PRecordAssumption
    <3>3. CASE UNCHANGED <<otherEnv, faults>>
      BY <3>2, <3>3 DEF otherEnv
    <3>4. CASE Fault
      BY <3>2, <3>4 DEF Fault, otherEnv
    <3> QED BY <3>1, <3>3, <3>4
  <2> QED BY <2>1 DEF RestOK, Next, sourceVars, clientVars
<1>5. CASE SessionEnds
  <2>1. session' \in Session
    BY <1>5 DEF SessionEnds, Later, Session, RestOK
  <2>2. UNCHANGED <<client, sourceVars, faults>> /\ toServer' = <<>>
    BY <1>5 DEF SessionEnds
  <2> QED BY <2>1, <2>2 DEF RestOK, Next, sourceVars
<1> QED BY <1>1, <1>2, <1>3, <1>4, <1>5 DEF Next

LEMMA HandlerNext ==
  ASSUME P2PRecordAssumption, TypeOK, PcInv, Next
  PROVE  HandlerOK'
<1>1. CASE Handler
  BY <1>1, HandlerStep
<1>2. CASE ~Handler
  <2>1. UNCHANGED handler
    BY <1>2 DEF Next, Remote, ClientReceive, ClientOffer, ClientExtra, ClientRestart, clientEnv,
       TrackWorker, SourceReset, OnTrack, PumpStep, PumpEnds, PumpAnnounces, PumpRemoves,
       recordEnv, WriteFails, OnStable, Destroy, ConnectionFails, Fault, otherEnv, SessionEnds
  <2> QED BY <2>1, Before DEF HandlerOK
<1> QED BY <1>1, <1>2

LEMMA TypesSplit ==
  TypeOK /\ PcInv <=> /\ RestOK /\ HandlerOK /\ Works(rec, conn, toClient)
                      /\ PcOK(rec, conn, lastPc)
  BY DEF TypeOK, PcInv, RestOK, HandlerOK, Works, PcOK

LEMMA TypesJoin ==
  ASSUME RestOK', HandlerOK', Works(rec', conn', toClient'), PcOK(rec', conn', lastPc')
  PROVE  TypeOK' /\ PcInv'
  BY DEF TypeOK, PcInv, RestOK, HandlerOK, Works, PcOK, Sent

LEMMA InitTypes ==
  ASSUME P2PRecordAssumption, Init
  PROVE  TypeOK /\ PcInv
<1>1. Initiator \in BOOLEAN /\ Incoming \in BOOLEAN /\ role \in Roles
  BY DEF Init, Initiator, Incoming, P2PRecordAssumption
<1>2. /\ rec \in Record /\ rec.pc = NoPc /\ Sent(rec) = {}
  <2>1. [x \in Tracks |-> NoPc] \in [Tracks -> Pcs \cup {NoPc}]
    OBVIOUS
  <2>2. /\ NewRecord \in Record /\ NewRecord.pc = NoPc
        /\ NewRecord.tracks = {} /\ NewRecord.pending = {}
    BY <1>1, <2>1 DEF NewRecord, Record, Media, P2PRecordAssumption, NoPc, NoId
  <2>3. /\ rec \in Record /\ rec.pc = NewRecord.pc /\ rec.tracks = NewRecord.tracks
        /\ rec.pending = NewRecord.pending
    BY <1>1, <2>2 DEF Init, Record
  <2> QED BY <2>2, <2>3 DEF Sent
<1>3. /\ conn \in [Pcs -> PeerConnection]
      /\ \A p \in Pcs : conn[p].signaling = "new"
  <2> DEFINE c == [NewPeerConnection EXCEPT !.signaling = "new"]
  <2>1. c \in PeerConnection /\ c.signaling = "new"
    <3>1. NewPeerConnection \in PeerConnection
      BY DEF NewPeerConnection, PeerConnection, SignalingState, NoId, P2PRecordAssumption
    <3> QED BY <3>1 DEF PeerConnection, SignalingState
  <2>2. conn = [p \in Pcs |-> c]
    BY DEF Init
  <2> HIDE DEF c
  <2> QED BY <2>1, <2>2
<1>4. toClient \in Seq(ClientMessage)
  <2>1. Say("renegotiate") \in ClientMessage
    BY ClientMessages
  <2>2. <<Say("renegotiate")>> \in Seq(ClientMessage) /\ <<>> \in Seq(ClientMessage)
    BY <2>1
  <2> QED BY <2>2 DEF Init
<1>5. toServer \in Seq(ServerMessage)
  <2>1. Message("renegotiate", 1) \in ServerMessage
    BY DEF Message, ServerMessage, P2PRecordAssumption
  <2>2. <<Message("renegotiate", 1)>> \in Seq(ServerMessage) /\ <<>> \in Seq(ServerMessage)
    BY <2>1
  <2> QED BY <2>2 DEF Init
<1>6. PcOK(rec, conn, lastPc)
  <2>1. lastPc = 0 /\ 0 \in 0..MaxPc /\ \A p \in Pcs : p > 0
    BY DEF Init, P2PRecordAssumption, Pcs
  <2> QED BY <1>2, <1>3, <2>1 DEF PcOK, NoPc
<1>7. HandlerOK
  <2>1. Idle \in [at : HandlerPoint, pc : Pcs \cup {NoPc}, msg : ServerMessage]
    BY DEF Idle, Message, HandlerPoint, ServerMessage, P2PRecordAssumption, NoId
  <2>2. handler = Idle /\ Idle.at = "idle"
    BY DEF Init, Idle
  <2> QED BY <2>1, <2>2 DEF HandlerOK
<1>8. RestOK
  <2>1. client \in [pcid : 1..MaxRpc, owes : BOOLEAN, awaits : BOOLEAN, extra : BOOLEAN,
             lines : SUBSET Tracks]
    BY <1>1 DEF Init, OwnLines, P2PRecordAssumption
  <2>2. <<>> \in Seq(Change)
    OBVIOUS
  <2> QED BY <1>1, <1>5, <2>1, <2>2
          DEF Init, RestOK, Session, PumpPoint, P2PRecordAssumption
<1> QED BY <1>2, <1>3, <1>4, <1>6, <1>7, <1>8, TypesSplit DEF Works

LEMMA NextTypes ==
  ASSUME P2PRecordAssumption, TypeOK, PcInv, [Next]_vars
  PROVE  TypeOK' /\ PcInv'
<1>1. CASE Next
  <2>1. \E S : StepTo(S) /\ (rec.pc = NoPc => S = {})
    <3>1. CASE StepTo(Sent(rec))
      BY <3>1, Before DEF PcOK
    <3>2. CASE TrackWorker
      BY <3>2, WorkerStep DEF Stays, StepTo, Became
    <3> QED BY <1>1, <3>1, <3>2, NextStep
  <2>2. PcOK(rec', conn', lastPc')
    BY <2>1, Before, StepPcOK
  <2>3. Works(rec', conn', toClient')
    BY <2>1 DEF StepTo
  <2>4. RestOK'
    BY <1>1, Before, RestStep, TypesSplit
  <2>5. HandlerOK'
    BY <1>1, HandlerNext
  <2> QED BY <2>2, <2>3, <2>4, <2>5, TypesJoin
<1>2. CASE UNCHANGED vars
  BY <1>2 DEF vars, recordVars, clientVars, sourceVars, TypeOK, PcInv, PcOK, Sent
<1> QED BY <1>1, <1>2

(* Whatever the order of messages, callbacks, resets and track changes,    *)
(* every variable keeps its type.                                          *)
THEOREM TypeCorrect == Spec => []TypeOK
<1> USE P2PRecordAssumption
<1>1. Init => TypeOK /\ PcInv
  BY InitTypes
<1>2. TypeOK /\ PcInv /\ [Next]_vars => (TypeOK /\ PcInv)'
  BY NextTypes
<1> QED BY <1>1, <1>2, PTL DEF Spec

-----------------------------------------------------------------------------
(* The refinement of PeerConnections. *)

LEMMA StepRefines ==
  ASSUME P2PRecordAssumption, PcOK(rec, conn, lastPc), NEW S, StepTo(S)
  PROVE  [PC!Next]_<<rec.pc, [p \in Pcs |-> Usage(conn[p])]>>
<1> DEFINE old == [p \in Pcs |-> Usage(conn[p])]
           new == [p \in Pcs |-> Usage(conn'[p])]
           closing == [p \in Pcs |-> IF p = rec.pc THEN "closed" ELSE old[p]]
<1>1. /\ rec.pc \in 0..lastPc /\ lastPc \in 0..MaxPc /\ lastPc \in Nat
      /\ Pcs \subseteq Nat /\ 0 \notin Pcs /\ MaxPc \in Nat
  BY DEF PcOK, P2PRecordAssumption, Pcs
<1>2. \A p \in Pcs : /\ old[p] = "unused" <=> p > lastPc
                     /\ old[p] # "unused" /\ p # rec.pc => old[p] = "closed"
                     /\ p = rec.pc => old[p] # "unused"
  <2>1. TAKE p \in Pcs
  <2>2. /\ conn[p].signaling = "new" <=> p > lastPc
        /\ conn[p].signaling \notin {"new", "closed"} => p = rec.pc
    BY DEF PcOK
  <2>3. p = rec.pc => ~(p > lastPc)
    BY <1>1
  <2> QED BY <2>2, <2>3 DEF Usage
<1>3. CASE Kept(rec', conn', lastPc', S)
  <2>1. \A p \in Pcs : Usage(conn'[p]) = Usage(conn[p])
    BY <1>3 DEF Kept, Like, Usage
  <2> QED BY <1>3, <2>1 DEF Kept
<1>4. CASE Dropped(rec', conn', lastPc')
  <2>1. lastPc' = lastPc /\ rec'.pc = NoPc
    BY <1>4 DEF Dropped
  <2>2. \A p \in Pcs : new[p] = IF p > lastPc THEN "unused" ELSE "closed"
    BY <1>1, <1>4, <2>1 DEF Dropped, Usage
  <2>3. \A p \in Pcs : new[p] = closing[p]
    BY <1>1, <1>2, <2>2
  <2>4. new = closing
    BY <2>3
  <2>5. CASE rec.pc = NoPc
    <3>1. \A p \in Pcs : new[p] = old[p]
      BY <1>1, <2>3, <2>5 DEF NoPc
    <3>2. new = old
      BY <3>1
    <3> QED BY <2>1, <2>5, <3>2
  <2>6. CASE rec.pc # NoPc
    BY <2>1, <2>4, <2>6 DEF PC!Next, PC!Drop, PC!Closing, PC!None, PC!Numbers, Pcs, NoPc
  <2> QED BY <2>5, <2>6
<1>5. CASE Made(rec', conn', lastPc')
  <2> DEFINE n == lastPc + 1
  <2>1. /\ n \in Pcs /\ lastPc' = n /\ rec'.pc = n
        /\ \A p \in Pcs : /\ conn'[p].signaling = "new" <=> p > n
                          /\ conn'[p].signaling = "closed" <=> p < n
    BY <1>5 DEF Made
  <2>2. \A p \in Pcs : new[p] = IF p = n THEN "open" ELSE IF p > n THEN "unused" ELSE "closed"
    BY <1>1, <2>1 DEF Usage
  <2>3. \A p \in Pcs : p # n => new[p] = closing[p]
    <3>1. TAKE p \in Pcs
    <3>2. p # n => (p > n <=> p > lastPc)
      BY <1>1
    <3>3. p = rec.pc => ~(p > lastPc)
      BY <1>1
    <3> HIDE DEF new, old, n
    <3> QED BY <1>1, <1>2, <2>2, <3>2, <3>3
  <2>4. old[n] = "unused" /\ \A i \in Pcs : i < n => old[i] # "unused"
    <3>1. n > lastPc /\ \A i \in Pcs : i < n => ~(i > lastPc)
      BY <1>1
    <3> HIDE DEF n
    <3> QED BY <1>2, <2>1, <3>1
  <2>5. CASE rec.pc = NoPc
    <3>1. \A p \in Pcs : closing[p] = old[p]
      BY <1>1, <2>5 DEF NoPc
    <3>2. \A p \in Pcs : new[p] = IF p = n THEN "open" ELSE old[p]
      BY <2>2, <2>3, <3>1
    <3>3. new = [old EXCEPT ![n] = "open"]
      BY <3>2
    <3> QED BY <2>1, <2>4, <2>5, <3>3
            DEF PC!Next, PC!Create, PC!IsNext, PC!None, PC!Numbers, Pcs, NoPc
  <2>6. CASE rec.pc # NoPc
    <3>1. new = [closing EXCEPT ![n] = "open"]
      BY <2>2, <2>3
    <3> QED BY <2>1, <2>4, <2>6, <3>1
            DEF PC!Next, PC!Replace, PC!IsNext, PC!Closing, PC!None, PC!Numbers, Pcs, NoPc
  <2> QED BY <2>5, <2>6
<1> QED BY <1>3, <1>4, <1>5 DEF StepTo, Became

(* A record implements PeerConnections whatever the messages, callbacks    *)
(* and resets without the lock do: it has one peer connection after the    *)
(* other, closes each before it makes the next, and brings none back.      *)
THEOREM Implements == Spec => ImplementsPeerConnections
<1> USE P2PRecordAssumption
<1>1. Init => PC!Init
  BY DEF Init, NewRecord, NewPeerConnection, Usage, PC!Init, PC!None, PC!Numbers, Pcs, NoPc
<1>2. Init => TypeOK /\ PcInv
  BY InitTypes
<1>3. TypeOK /\ PcInv /\ [Next]_vars => (TypeOK /\ PcInv)'
  BY NextTypes
<1>4. TypeOK /\ PcInv /\ [Next]_vars
        => [PC!Next]_<<rec.pc, [p \in Pcs |-> Usage(conn[p])]>>
  <2>1. TypeOK /\ PcInv /\ Next => \E S : StepTo(S)
    BY NextStep, WorkerStep DEF Stays, StepTo, Became
  <2>2. UNCHANGED vars => UNCHANGED <<rec.pc, [p \in Pcs |-> Usage(conn[p])]>>
    BY DEF vars, recordVars
  <2> QED BY <2>1, <2>2, StepRefines DEF PcInv
<1> QED BY <1>1, <1>2, <1>3, <1>4, PTL DEF Spec, ImplementsPeerConnections, PC!Spec

-----------------------------------------------------------------------------
(* The tracks. *)

AddOf(x) == [track |-> x, remove |-> FALSE]
RemovalOf(x) == [track |-> x, remove |-> TRUE]

(* The track worker still has to make the change c.                        *)
Awaits(c) == \E i \in 1..Len(trackCh) : trackCh[i] = c

(* The track that the source has did not end; a removal is the last that   *)
(* is heard of a track, and an addition comes before it.                   *)
PumpsInv ==
  /\ source # NoTrack => pump[source] \in {"announce", "reading"}
  /\ \A x \in Tracks : Awaits(RemovalOf(x)) => pump[x] = "done"
  /\ \A x \in Tracks, i \in 1..Len(trackCh) : trackCh[i] = AddOf(x) =>
       /\ pump[x] \in {"reading", "remove", "done"}
       /\ pump[x] = "done" => \E j \in (i + 1)..Len(trackCh) : trackCh[j] = RemovalOf(x)

Sendable == Initiator => Codec

(* What is sent has not ended, or its removal is on its way; and the track *)
(* that the source has is sent, or on its way.                             *)
FollowInv ==
  session = "up" =>
    /\ \A x \in Sent(rec) :
         pump[x] \in {"announce", "reading", "remove"} \/ Awaits(RemovalOf(x))
    /\ Sendable /\ Sends /\ source # NoTrack =>
         source \in Sent(rec) \/ pump[source] = "announce" \/ Awaits(AddOf(source))

(* What the worker awaits after a change came or was taken.                *)
LEMMA AwaitsAppend ==
  ASSUME trackCh \in Seq(Change), NEW d \in Change, trackCh' = Append(trackCh, d)
  PROVE  /\ \A c : Awaits(c)' <=> Awaits(c) \/ c = d
         /\ Len(trackCh') = Len(trackCh) + 1 /\ trackCh'[Len(trackCh) + 1] = d
         /\ \A i \in 1..Len(trackCh) : trackCh'[i] = trackCh[i]
<1>1. /\ Len(trackCh') = Len(trackCh) + 1 /\ trackCh'[Len(trackCh) + 1] = d
      /\ \A i \in 1..Len(trackCh) : trackCh'[i] = trackCh[i]
      /\ Len(trackCh) \in Nat
  OBVIOUS
<1>2. ASSUME NEW c PROVE Awaits(c)' <=> Awaits(c) \/ c = d
  BY <1>1 DEF Awaits
<1> QED BY <1>1, <1>2

LEMMA AwaitsTail ==
  ASSUME trackCh \in Seq(Change), trackCh # <<>>, trackCh' = Tail(trackCh)
  PROVE  /\ \A c : c # Head(trackCh) /\ Awaits(c) => Awaits(c)'
         /\ \A c : Awaits(c)' => Awaits(c)
         /\ Len(trackCh) \in Nat \ {0} /\ Len(trackCh') = Len(trackCh) - 1
         /\ \A i \in 1..Len(trackCh') : trackCh'[i] = trackCh[i + 1]
         /\ Head(trackCh) = trackCh[1] /\ Head(trackCh) \in Change
<1>1. /\ Len(trackCh) \in Nat \ {0} /\ Len(trackCh') = Len(trackCh) - 1
      /\ \A i \in 1..Len(trackCh') : trackCh'[i] = trackCh[i + 1]
      /\ Head(trackCh) = trackCh[1] /\ Head(trackCh) \in Change
  OBVIOUS
<1>2. ASSUME NEW c, c # Head(trackCh), Awaits(c) PROVE Awaits(c)'
  <2>1. PICK i \in 1..Len(trackCh) : trackCh[i] = c
    BY <1>2 DEF Awaits
  <2>2. i # 1
    BY <1>1, <1>2, <2>1
  <2>3. i - 1 \in 1..Len(trackCh') /\ trackCh'[i - 1] = c
    BY <1>1, <2>1, <2>2
  <2> QED BY <2>3 DEF Awaits
<1>3. ASSUME NEW c, Awaits(c)' PROVE Awaits(c)
  <2>1. PICK i \in 1..Len(trackCh') : trackCh'[i] = c
    BY <1>3 DEF Awaits
  <2>2. i + 1 \in 1..Len(trackCh) /\ trackCh[i + 1] = c
    BY <1>1, <2>1
  <2> QED BY <2>2 DEF Awaits
<1> QED BY <1>1, <1>2, <1>3

LEMMA ChangeFields ==
  ASSUME NEW x, NEW y
  PROVE  /\ AddOf(x) # RemovalOf(y)
         /\ AddOf(x) = AddOf(y) => x = y
         /\ RemovalOf(x) = RemovalOf(y) => x = y
         /\ x \in Tracks => AddOf(x) \in Change /\ RemovalOf(x) \in Change
<1>1. /\ AddOf(x).track = x /\ AddOf(y).track = y /\ RemovalOf(x).track = x
      /\ RemovalOf(y).track = y /\ ~AddOf(x).remove /\ RemovalOf(y).remove
  BY DEF AddOf, RemovalOf
<1>2. x \in Tracks => AddOf(x) \in Change /\ RemovalOf(x) \in Change
  BY DEF AddOf, RemovalOf, Change
<1> QED BY <1>1, <1>2

LEMMA PumpsStep ==
  ASSUME P2PRecordAssumption, RestOK, PumpsInv, NEW x \in Tracks,
         OnTrack(x) \/ PumpStep(x) \/ PumpEnds(x)
  PROVE  PumpsInv'
<1>t. /\ trackCh \in Seq(Change) /\ pump \in [Tracks -> PumpPoint]
      /\ source \in Tracks \cup {NoTrack} /\ NoTrack \notin Tracks /\ Len(trackCh) \in Nat
      /\ AddOf(x) \in Change /\ RemovalOf(x) \in Change
  <2>1. NoTrack \notin Tracks /\ AddOf(x) \in Change /\ RemovalOf(x) \in Change
    BY DEF AddOf, RemovalOf, Change, NoTrack, Tracks
  <2> QED BY <2>1 DEF RestOK
<1>1. CASE OnTrack(x)
  <2>1. /\ source' = x /\ UNCHANGED trackCh /\ pump[x] = "none"
        /\ pump' = [pump EXCEPT ![x] = "announce"]
    BY <1>1 DEF OnTrack
  <2>2. \A y \in Tracks : y # x => pump'[y] = pump[y]
    BY <1>t, <2>1
  <2>3. ~Awaits(RemovalOf(x)) /\ \A i \in 1..Len(trackCh) : trackCh[i] # AddOf(x)
    BY <2>1 DEF PumpsInv
  <2> QED BY <1>t, <2>1, <2>2, <2>3 DEF PumpsInv, Awaits
<1>2. CASE PumpEnds(x)
  <2>1. /\ source' = NoTrack /\ UNCHANGED trackCh /\ pump[x] = "reading"
        /\ pump' = [pump EXCEPT ![x] = "remove"]
    BY <1>2 DEF PumpEnds
  <2>2. pump'[x] = "remove" /\ \A y \in Tracks : y # x => pump'[y] = pump[y]
    BY <1>t, <2>1
  <2>3. ~Awaits(RemovalOf(x))
    BY <2>1 DEF PumpsInv
  <2> QED BY <1>t, <2>1, <2>2, <2>3 DEF PumpsInv, Awaits
<1>3. CASE PumpAnnounces(x)
  <2>1. /\ UNCHANGED source /\ trackCh' = Append(trackCh, AddOf(x)) /\ pump[x] = "announce"
        /\ pump' = [pump EXCEPT ![x] = "reading"]
    BY <1>3 DEF PumpAnnounces, AddOf
  <2>2. pump'[x] = "reading" /\ \A y \in Tracks : y # x => pump'[y] = pump[y]
    BY <1>t, <2>1
  <2>3. ~Awaits(RemovalOf(x))
    BY <2>1 DEF PumpsInv
  <2>4. /\ \A c : Awaits(c)' <=> Awaits(c) \/ c = AddOf(x)
        /\ Len(trackCh') = Len(trackCh) + 1 /\ trackCh'[Len(trackCh) + 1] = AddOf(x)
        /\ \A i \in 1..Len(trackCh) : trackCh'[i] = trackCh[i]
    BY <1>t, <2>1, AwaitsAppend
  <2>5. source' # NoTrack => pump'[source'] \in {"announce", "reading"}
    BY <2>1, <2>2, <1>t DEF PumpsInv
  <2>6. \A y \in Tracks : Awaits(RemovalOf(y))' => pump'[y] = "done"
    BY <2>2, <2>3, <2>4, ChangeFields DEF PumpsInv
  <2>7. ASSUME NEW y \in Tracks, NEW i \in 1..Len(trackCh'), trackCh'[i] = AddOf(y)
        PROVE  /\ pump'[y] \in {"reading", "remove", "done"}
               /\ pump'[y] = "done" =>
                    \E j \in (i + 1)..Len(trackCh') : trackCh'[j] = RemovalOf(y)
    <3>1. CASE y = x
      BY <2>2, <3>1
    <3>2. CASE y # x
      <4>1. i \in 1..Len(trackCh) /\ trackCh[i] = AddOf(y)
        BY <1>t, <2>4, <2>7, <3>2, ChangeFields
      <4>2. /\ pump[y] \in {"reading", "remove", "done"}
            /\ pump[y] = "done" => \E j \in (i + 1)..Len(trackCh) : trackCh[j] = RemovalOf(y)
        BY <4>1 DEF PumpsInv
      <4>3. \A j \in (i + 1)..Len(trackCh) :
              j \in (i + 1)..Len(trackCh') /\ trackCh'[j] = trackCh[j]
        BY <1>t, <2>4, <4>1
      <4> QED BY <2>2, <3>2, <4>2, <4>3
    <3> QED BY <3>1, <3>2
  <2> QED BY <2>5, <2>6, <2>7 DEF PumpsInv
<1>4. CASE PumpRemoves(x)
  <2>1. /\ UNCHANGED source /\ trackCh' = Append(trackCh, RemovalOf(x)) /\ pump[x] = "remove"
        /\ pump' = [pump EXCEPT ![x] = "done"]
    BY <1>4 DEF PumpRemoves, RemovalOf
  <2>2. pump'[x] = "done" /\ \A y \in Tracks : y # x => pump'[y] = pump[y]
    BY <1>t, <2>1
  <2>4. /\ \A c : Awaits(c)' <=> Awaits(c) \/ c = RemovalOf(x)
        /\ Len(trackCh') = Len(trackCh) + 1 /\ trackCh'[Len(trackCh) + 1] = RemovalOf(x)
        /\ \A i \in 1..Len(trackCh) : trackCh'[i] = trackCh[i]
    BY <1>t, <2>1, AwaitsAppend
  <2>5. source' # NoTrack => pump'[source'] \in {"announce", "reading"}
    BY <2>1, <2>2, <1>t DEF PumpsInv
  <2>6. \A y \in Tracks : Awaits(RemovalOf(y))' => pump'[y] = "done"
    BY <2>2, <2>4, ChangeFields DEF PumpsInv
  <2>7. ASSUME NEW y \in Tracks, NEW i \in 1..Len(trackCh'), trackCh'[i] = AddOf(y)
        PROVE  /\ pump'[y] \in {"reading", "remove", "done"}
               /\ pump'[y] = "done" =>
                    \E j \in (i + 1)..Len(trackCh') : trackCh'[j] = RemovalOf(y)
    <3>1. i \in 1..Len(trackCh) /\ trackCh[i] = AddOf(y)
      BY <1>t, <2>4, <2>7, ChangeFields
    <3>2. CASE y = x
      <4>1. Len(trackCh') \in (i + 1)..Len(trackCh') /\ trackCh'[Len(trackCh')] = RemovalOf(y)
        BY <1>t, <2>4, <3>1, <3>2
      <4> QED BY <2>2, <3>2, <4>1
    <3>3. CASE y # x
      <4>2. /\ pump[y] \in {"reading", "remove", "done"}
            /\ pump[y] = "done" => \E j \in (i + 1)..Len(trackCh) : trackCh[j] = RemovalOf(y)
        BY <3>1 DEF PumpsInv
      <4>3. \A j \in (i + 1)..Len(trackCh) :
              j \in (i + 1)..Len(trackCh') /\ trackCh'[j] = trackCh[j]
        BY <1>t, <2>4, <3>1
      <4> QED BY <2>2, <3>3, <4>2, <4>3
    <3> QED BY <3>2, <3>3
  <2> QED BY <2>5, <2>6, <2>7 DEF PumpsInv
<1> QED BY <1>1, <1>2, <1>3, <1>4 DEF PumpStep

LEMMA PumpsTaken ==
  ASSUME P2PRecordAssumption, RestOK, PumpsInv, TrackWorker
  PROVE  PumpsInv'
<1>1. /\ trackCh \in Seq(Change) /\ trackCh # <<>> /\ trackCh' = Tail(trackCh)
      /\ UNCHANGED <<source, pump>>
  BY DEF RestOK, TrackWorker
<1>2. /\ \A c : Awaits(c)' => Awaits(c)
      /\ Len(trackCh) \in Nat \ {0} /\ Len(trackCh') = Len(trackCh) - 1
      /\ \A i \in 1..Len(trackCh') : trackCh'[i] = trackCh[i + 1]
  BY <1>1, AwaitsTail
<1>3. ASSUME NEW y \in Tracks, NEW i \in 1..Len(trackCh'), trackCh'[i] = AddOf(y)
      PROVE  /\ pump'[y] \in {"reading", "remove", "done"}
             /\ pump'[y] = "done" =>
                  \E j \in (i + 1)..Len(trackCh') : trackCh'[j] = RemovalOf(y)
  <2>1. i + 1 \in 1..Len(trackCh) /\ trackCh[i + 1] = AddOf(y)
    BY <1>2, <1>3
  <2>2. /\ pump[y] \in {"reading", "remove", "done"}
        /\ pump[y] = "done" => \E j \in ((i + 1) + 1)..Len(trackCh) : trackCh[j] = RemovalOf(y)
    BY <2>1 DEF PumpsInv
  <2>3. \A j \in ((i + 1) + 1)..Len(trackCh) :
          j - 1 \in (i + 1)..Len(trackCh') /\ trackCh'[j - 1] = trackCh[j]
    BY <1>2
  <2> QED BY <1>1, <2>2, <2>3
<1> QED BY <1>1, <1>2, <1>3 DEF PumpsInv

(* The steps that change only the source and its tracks.                   *)
LEMMA FollowSource ==
  ASSUME P2PRecordAssumption, TypeOK, PcInv, PumpsInv, FollowInv, UNCHANGED role,
         \/ SourceReset
         \/ \E x \in Tracks : OnTrack(x) \/ PumpStep(x) \/ PumpEnds(x)
  PROVE  FollowInv'
<1>t. /\ trackCh \in Seq(Change) /\ pump \in [Tracks -> PumpPoint]
      /\ source \in Tracks \cup {NoTrack} /\ NoTrack \notin Tracks
      /\ Sent(rec) \subseteq Tracks
  BY DEF TypeOK, NoTrack, Tracks, Sent, Record
<1>1. /\ UNCHANGED <<rec, conn, session>> /\ (Sends' <=> Sends)
      /\ Sent(rec') = Sent(rec) /\ (Sendable' <=> Sendable)
  BY DEF SourceReset, OnTrack, PumpStep, PumpEnds, PumpAnnounces, PumpRemoves,
         recordVars, recordEnv, Sends, Sendable, Initiator, Codec
<1>2. CASE SourceReset
  <2>1. source' = NoTrack /\ UNCHANGED <<pump, trackCh>>
    BY <1>2 DEF SourceReset
  <2> QED BY <1>1, <2>1 DEF FollowInv, Awaits
<1>3. ASSUME NEW x \in Tracks, OnTrack(x)
      PROVE  FollowInv'
  <2>1. /\ source' = x /\ UNCHANGED trackCh
        /\ pump' = [pump EXCEPT ![x] = "announce"]
    BY <1>3 DEF OnTrack
  <2>2. pump'[x] = "announce" /\ \A y \in Tracks : y # x => pump'[y] = pump[y]
    BY <1>t, <2>1
  <2>3. \A c : Awaits(c)' <=> Awaits(c)
    BY <2>1 DEF Awaits
  <2> QED BY <1>t, <1>1, <2>1, <2>2, <2>3 DEF FollowInv
<1>4. ASSUME NEW x \in Tracks, PumpEnds(x)
      PROVE  FollowInv'
  <2>1. /\ source' = NoTrack /\ UNCHANGED trackCh
        /\ pump' = [pump EXCEPT ![x] = "remove"]
    BY <1>4 DEF PumpEnds
  <2>2. pump'[x] = "remove" /\ \A y \in Tracks : y # x => pump'[y] = pump[y]
    BY <1>t, <2>1
  <2>3. \A c : Awaits(c)' <=> Awaits(c)
    BY <2>1 DEF Awaits
  <2> QED BY <1>t, <1>1, <2>1, <2>2, <2>3 DEF FollowInv
<1>5. ASSUME NEW x \in Tracks, PumpAnnounces(x)
      PROVE  FollowInv'
  <2>1. /\ UNCHANGED source /\ trackCh' = Append(trackCh, AddOf(x)) /\ AddOf(x) \in Change
        /\ pump' = [pump EXCEPT ![x] = "reading"]
    BY <1>5 DEF PumpAnnounces, AddOf, Change
  <2>2. pump'[x] = "reading" /\ \A y \in Tracks : y # x => pump'[y] = pump[y]
    BY <1>t, <2>1
  <2>3. \A c : Awaits(c)' <=> Awaits(c) \/ c = AddOf(x)
    BY <1>t, <2>1, AwaitsAppend
  <2> QED BY <1>t, <1>1, <2>1, <2>2, <2>3 DEF FollowInv
<1>6. ASSUME NEW x \in Tracks, PumpRemoves(x)
      PROVE  FollowInv'
  <2>1. /\ UNCHANGED source /\ trackCh' = Append(trackCh, RemovalOf(x))
        /\ RemovalOf(x) \in Change
        /\ pump[x] = "remove" /\ pump' = [pump EXCEPT ![x] = "done"]
    BY <1>6 DEF PumpRemoves, RemovalOf, Change
  <2>2. pump'[x] = "done" /\ \A y \in Tracks : y # x => pump'[y] = pump[y]
    BY <1>t, <2>1
  <2>3. \A c : Awaits(c)' <=> Awaits(c) \/ c = RemovalOf(x)
    BY <1>t, <2>1, AwaitsAppend
  <2>4. source # x
    BY <1>t, <2>1 DEF PumpsInv
  <2> QED BY <1>t, <1>1, <2>1, <2>2, <2>3, <2>4 DEF FollowInv
<1> QED BY <1>2, <1>3, <1>4, <1>5, <1>6 DEF PumpStep

(* A record that has just dropped its peer connection, or made one, sends  *)
(* at most the track that the source has.                                  *)
LEMMA FollowNew ==
  ASSUME P2PRecordAssumption, TypeOK, PumpsInv, UNCHANGED <<source, pump>>,
         Dropped(rec', conn', lastPc') \/ Made(rec', conn', lastPc')
  PROVE  FollowInv'
<1>1. CASE Dropped(rec', conn', lastPc')
  BY <1>1 DEF Dropped, FollowInv, Sends
<1>2. CASE Made(rec', conn', lastPc')
  <2>1. /\ Sent(rec') = IF rec.source THEN {source} \ {NoTrack} ELSE {}
        /\ rec'.source = rec.source
    BY <1>2 DEF Made, Given
  <2>2. \A x \in Sent(rec') : pump[x] \in {"announce", "reading"}
    BY <2>1 DEF PumpsInv
  <2> QED BY <2>1, <2>2 DEF FollowInv, Sends
<1> QED BY <1>1, <1>2

LEMMA KeptSends ==
  ASSUME P2PRecordAssumption, TypeOK, NEW S, Kept(rec', conn', lastPc', S)
  PROVE  Sends' <=> Sends
<1>1. rec.pc \in Pcs \cup {NoPc}
  BY DEF TypeOK, Record
<1> QED BY <1>1 DEF Sends, Kept, Like

LEMMA FollowRecord ==
  ASSUME P2PRecordAssumption, TypeOK, PcInv, PumpsInv, FollowInv, StepTo(Sent(rec)),
         UNCHANGED role,
         UNCHANGED sourceVars, session' = "up" => session = "up"
  PROVE  FollowInv'
<1>1. CASE Dropped(rec', conn', lastPc') \/ Made(rec', conn', lastPc')
  BY <1>1, FollowNew DEF sourceVars
<1>2. CASE Kept(rec', conn', lastPc', Sent(rec))
  <2>1. Sent(rec') = Sent(rec) /\ (Sends' <=> Sends) /\ (Sendable' <=> Sendable)
    BY <1>2, KeptSends DEF Kept, Sendable, Initiator, Codec
  <2>2. \A c : Awaits(c)' <=> Awaits(c)
    BY DEF Awaits, sourceVars
  <2> QED BY <2>1, <2>2 DEF FollowInv, sourceVars
<1> QED BY <1>1, <1>2 DEF StepTo, Became

LEMMA FollowWorker ==
  ASSUME P2PRecordAssumption, TypeOK, PcInv, PumpsInv, FollowInv, UNCHANGED role, TrackWorker
  PROVE  FollowInv'
<1> DEFINE c == Head(trackCh)
<1>1. /\ trackCh \in Seq(Change) /\ trackCh # <<>> /\ trackCh' = Tail(trackCh)
      /\ UNCHANGED <<source, pump, session>>
  BY DEF TypeOK, TrackWorker, recordEnv
<1>2. /\ \A d : d # c /\ Awaits(d) => Awaits(d)'
      /\ Len(trackCh) \in Nat \ {0} /\ c = trackCh[1] /\ c \in Change
      /\ Awaits(c)
  BY <1>1, AwaitsTail DEF Awaits
<1>3. c.track \in Tracks /\ (c = AddOf(c.track) \/ c = RemovalOf(c.track))
  <2>1. c = [track |-> c.track, remove |-> c.remove] /\ c.remove \in BOOLEAN /\ c.track \in Tracks
    BY <1>2 DEF Change
  <2> QED BY <2>1 DEF AddOf, RemovalOf
<1>4. ~c.remove => c = AddOf(c.track)
  BY <1>3 DEF RemovalOf
<1>5. c.remove => c = RemovalOf(c.track)
  BY <1>3 DEF AddOf
<1> DEFINE x == c.track
<1>s. Sent(rec) \subseteq Tracks /\ source \in Tracks \cup {NoTrack}
  BY DEF TypeOK, Sent, Record
<1> HIDE DEF c
<1>6. \/ Kept(rec', conn', lastPc', Sent(rec)) /\ (session # "up" \/ rec.pc = NoPc)
      \/ c.remove /\ Kept(rec', conn', lastPc', Sent(rec) \ {x})
      \/ ~c.remove /\ Kept(rec', conn', lastPc', Sent(rec) \cup {x})
      \/ /\ ~c.remove /\ Kept(rec', conn', lastPc', Sent(rec))
         /\ conn[rec.pc].signaling = "closed" \/ ~Sendable
  BY WorkerStep DEF Stays, Sendable, c
<1>7. (Sends' <=> Sends) /\ (Sendable' <=> Sendable)
  BY <1>6, KeptSends DEF Sendable, Initiator, Codec
<1>8. CASE session # "up"
  BY <1>1, <1>8 DEF FollowInv
<1>9. CASE Kept(rec', conn', lastPc', Sent(rec)) /\ rec.pc = NoPc
  <2>1. Sent(rec') = {} /\ ~Sends
    BY <1>9 DEF Kept, PcInv, PcOK, Sends
  <2> QED BY <1>7, <2>1 DEF FollowInv
<1>10. CASE session = "up" /\ c.remove /\ Kept(rec', conn', lastPc', Sent(rec) \ {x})
  <2>1. c = RemovalOf(x) /\ pump[x] = "done" /\ Sent(rec') = Sent(rec) \ {x}
    BY <1>2, <1>3, <1>5, <1>10 DEF PumpsInv, Kept
  <2>2. source # x
    BY <1>3, <2>1 DEF PumpsInv, NoTrack, Tracks
  <2>3. \A y \in Sent(rec') : pump[y] \in {"announce", "reading", "remove"}
                               \/ Awaits(RemovalOf(y))'
    BY <1>2, <1>10, <2>1, ChangeFields DEF FollowInv
  <2>4. Awaits(AddOf(source)) => Awaits(AddOf(source))'
    BY <1>1, <1>2, <2>1, ChangeFields
  <2> QED BY <1>1, <1>7, <1>10, <2>1, <2>2, <2>3, <2>4 DEF FollowInv
<1>11. CASE session = "up" /\ ~c.remove /\ Kept(rec', conn', lastPc', Sent(rec) \cup {x})
  <2>1. c = AddOf(x) /\ Sent(rec') = Sent(rec) \cup {x}
    BY <1>4, <1>11 DEF Kept
  <2>2. \A y : Awaits(RemovalOf(y)) => Awaits(RemovalOf(y))'
    BY <1>2, <2>1, ChangeFields
  <2>3. pump[x] \in {"reading", "remove"} \/ Awaits(RemovalOf(x))
    <3>1. 1 \in 1..Len(trackCh) /\ trackCh[1] = AddOf(x)
      BY <1>2, <2>1
    <3>2. /\ pump[x] \in {"reading", "remove", "done"}
          /\ pump[x] = "done" => \E j \in (1 + 1)..Len(trackCh) : trackCh[j] = RemovalOf(x)
      BY <1>3, <3>1 DEF PumpsInv
    <3> QED BY <1>2, <3>2 DEF Awaits
  <2>4. source # x /\ Awaits(AddOf(source)) => Awaits(AddOf(source))'
    BY <1>1, <1>2, <2>1, ChangeFields
  <2> QED BY <1>1, <1>7, <1>11, <2>1, <2>2, <2>3, <2>4 DEF FollowInv
<1>12. CASE /\ session = "up" /\ ~c.remove /\ Kept(rec', conn', lastPc', Sent(rec))
            /\ conn[rec.pc].signaling = "closed" \/ ~Sendable
  <2>1. c = AddOf(x) /\ Sent(rec') = Sent(rec) /\ (~Sends \/ ~Sendable)
    BY <1>4, <1>12 DEF Kept, Sends
  <2>2. \A y : Awaits(RemovalOf(y)) => Awaits(RemovalOf(y))'
    BY <1>2, <2>1, ChangeFields
  <2> QED BY <1>1, <1>7, <1>12, <2>1, <2>2 DEF FollowInv
<1> QED BY <1>6, <1>8, <1>9, <1>10, <1>11, <1>12

FollowsInv == PumpsInv /\ FollowInv

LEMMA FollowsInit ==
  ASSUME P2PRecordAssumption, Init
  PROVE  FollowsInv
<1>1. /\ source = NoTrack /\ trackCh = <<>> /\ rec.pc = NoPc
      /\ rec.tracks = {} /\ rec.pending = {}
  BY DEF Init, NewRecord
<1>2. \A i \in 1..Len(trackCh) : FALSE
  BY <1>1
<1> QED BY <1>1, <1>2 DEF FollowsInv, PumpsInv, FollowInv, Awaits, Sent, Sends

LEMMA SessionStays ==
  ASSUME Next, ~SessionEnds
  PROVE  UNCHANGED session
<1>1. CASE Handler
  BY <1>1 DEF Handler, HandleRenegotiate, HandleCandidate, HandleTransceiverRequest,
       HandleSDP, UpdateMedia, RequestRestart, CreateForSDP, SetRemoteDescription,
       ApplyRemoteDescription, Finish, Receive, handlerEnv
<1>2. CASE Remote \/ ClientExtra \/ ClientRestart
  BY <1>2 DEF Remote, ClientReceive, ClientOffer, ClientExtra, ClientRestart, clientEnv
<1>3. CASE WriteFails \/ \E p \in Pcs : OnStable(p) \/ Destroy(p) \/ ConnectionFails(p)
  BY <1>3 DEF OnStable, Destroy, ConnectionFails, WriteFails, Fault, otherEnv
<1>4. CASE \/ TrackWorker \/ SourceReset
           \/ \E x \in Tracks : OnTrack(x) \/ PumpStep(x) \/ PumpEnds(x)
  BY <1>4 DEF TrackWorker, SourceReset, OnTrack, PumpStep, PumpEnds, PumpAnnounces,
       PumpRemoves, recordEnv
<1> QED BY <1>1, <1>2, <1>3, <1>4 DEF Next

(* Who changes what the source has.                                        *)
LEMMA SourceStays ==
  ASSUME Next
  PROVE  \/ \E x \in Tracks : OnTrack(x) \/ PumpStep(x) \/ PumpEnds(x)
         \/ SourceReset \/ TrackWorker
         \/ UNCHANGED sourceVars
<1>1. CASE Handler
  BY <1>1 DEF Handler, HandleRenegotiate, HandleCandidate, HandleTransceiverRequest,
       HandleSDP, UpdateMedia, RequestRestart, CreateForSDP, SetRemoteDescription,
       ApplyRemoteDescription, Finish, Receive, handlerEnv
<1>2. CASE Remote \/ ClientExtra \/ ClientRestart \/ SessionEnds
  BY <1>2 DEF Remote, ClientReceive, ClientOffer, ClientExtra, ClientRestart, SessionEnds,
       clientEnv
<1>3. CASE WriteFails \/ \E p \in Pcs : OnStable(p) \/ Destroy(p) \/ ConnectionFails(p)
  BY <1>3 DEF OnStable, Destroy, ConnectionFails, WriteFails, Fault, otherEnv
<1> QED BY <1>1, <1>2, <1>3 DEF Next

LEMMA FollowsNext ==
  ASSUME P2PRecordAssumption, TypeOK, PcInv, FollowsInv, [Next]_vars
  PROVE  FollowsInv'
<1>t. PumpsInv /\ FollowInv /\ RestOK
  BY TypesSplit DEF FollowsInv
<1>r. UNCHANGED role
  BY DEF Next, vars
<1>1. CASE \E x \in Tracks : OnTrack(x) \/ PumpStep(x) \/ PumpEnds(x)
  BY <1>t, <1>r, <1>1, PumpsStep, FollowSource DEF FollowsInv
<1>2. CASE SourceReset
  <2>1. PumpsInv'
    BY <1>t, <1>r, <1>2 DEF SourceReset, PumpsInv, Awaits
  <2> QED BY <1>t, <1>r, <1>2, <2>1, FollowSource DEF FollowsInv
<1>3. CASE TrackWorker
  BY <1>t, <1>r, <1>3, PumpsTaken, FollowWorker DEF FollowsInv
<1>4. CASE Next /\ UNCHANGED sourceVars /\ ~TrackWorker
  <2>1. PumpsInv'
    BY <1>t, <1>r, <1>4 DEF sourceVars, PumpsInv, Awaits
  <2>2. session' = "up" => session = "up"
    <3>1. CASE SessionEnds
      BY <1>t, <3>1 DEF SessionEnds, Later, RestOK, Session
    <3>2. CASE ~SessionEnds
      BY <1>4, <3>2, SessionStays
    <3> QED BY <3>1, <3>2
  <2>3. StepTo(Sent(rec))
    BY <1>4, NextStep
  <2> QED BY <1>t, <1>r, <1>4, <2>1, <2>2, <2>3, FollowRecord DEF FollowsInv
<1>5. CASE UNCHANGED vars
  BY <1>t, <1>5 DEF vars, recordVars, sourceVars, FollowsInv, PumpsInv, FollowInv, Awaits,
                    Sends, Sent, Sendable, Initiator, Codec
<1> QED BY <1>1, <1>2, <1>3, <1>4, <1>5, SourceStays

(* When the pumps and the track worker have done what there was to do, a   *)
(* record that can send has the track that its source has, and none that   *)
(* has ended: what a new peer connection is given and what the worker adds *)
(* and removes afterwards leave no gap.                                    *)
THEOREM SentTracksFollow == Spec => []TracksFollow
<1> USE P2PRecordAssumption
<1>1. Init => TypeOK /\ PcInv /\ FollowsInv
  BY InitTypes, FollowsInit
<1>2. TypeOK /\ PcInv /\ FollowsInv /\ [Next]_vars => (TypeOK /\ PcInv /\ FollowsInv)'
  BY NextTypes, FollowsNext
<1>3. TypeOK /\ FollowsInv => TracksFollow
  <2> SUFFICES ASSUME TypeOK, FollowsInv, Quiet, Sends, session = "up"
               PROVE  /\ source # NoTrack /\ Sendable => source \in Forwarded
                      /\ \A x \in Forwarded : pump[x] = "reading"
    BY DEF TracksFollow, Sendable
  <2>1. \A c : ~Awaits(c)
    BY DEF Quiet, Awaits
  <2>2. Forwarded = Sent(rec) /\ Forwarded \subseteq Tracks /\ source \in Tracks \cup {NoTrack}
    BY DEF Forwarded, Sent, TypeOK, Record
  <2> QED BY <2>1, <2>2 DEF FollowsInv, FollowInv, Quiet
<1> QED BY <1>1, <1>2, <1>3, PTL DEF Spec

-----------------------------------------------------------------------------
(* The refinement of Distribution: what a step makes of the tracks and of  *)
(* the only target, in the terms of P2PRecord. *)

Unmoved == \A x \in Tracks : TrackState(x)' = TrackState(x)
Has == IF Connected THEN Forwarded ELSE {}
Number == IF Connected THEN rec.pc ELSE NoPc
Keeps == Number' = Number /\ Has' = Has
Here(x) == TrackState(x) \in {"live", "leaving"}

LEMMA TargetKept ==
  ASSUME Keeps
  PROVE  /\ UNCHANGED [t \in {"target"} |-> IF Connected THEN rec.pc ELSE NoPc]
         /\ UNCHANGED [t \in {"target"} |-> IF Connected THEN Forwarded ELSE {}]
<1>1. [t \in {"target"} |-> IF Connected THEN rec.pc ELSE NoPc]'
        = [t \in {"target"} |-> IF Connected THEN rec.pc ELSE NoPc]
  BY DEF Keeps, Number
<1>2. [t \in {"target"} |-> IF Connected THEN Forwarded ELSE {}]'
        = [t \in {"target"} |-> IF Connected THEN Forwarded ELSE {}]
  BY DEF Keeps, Has
<1> QED BY <1>1, <1>2

LEMMA NothingMoves ==
  ASSUME Unmoved, Keeps
  PROVE  UNCHANGED D!vars
<1>1. UNCHANGED [x \in Tracks |-> TrackState(x)]
  BY DEF Unmoved
<1> QED BY <1>1, TargetKept DEF D!vars

LEMMA TrackComes ==
  ASSUME Keeps, NEW x \in Tracks, TrackState(x) = "new", TrackState(x)' = "live",
         \A y \in Tracks \ {x} : TrackState(y)' = TrackState(y)
  PROVE  D!Next
<1> DEFINE st == [y \in Tracks |-> TrackState(y)]
<1>1. st' = [st EXCEPT ![x] = "live"] /\ st[x] = "new"
  OBVIOUS
<1>2. D!Come(x)
  BY <1>1, TargetKept DEF D!Come
<1> QED BY <1>2 DEF D!Next, D!Tracks, Tracks

LEMMA TracksLost ==
  ASSUME Keeps,
         \A x \in Tracks : \/ TrackState(x)' = TrackState(x)
                           \/ TrackState(x) = "live" /\ TrackState(x)' = "leaving"
  PROVE  D!Next
<1> DEFINE st == [x \in Tracks |-> TrackState(x)]
           lost == {x \in Tracks : st[x] = "live" /\ st'[x] = "leaving"}
<1>1. st' = [x \in Tracks |-> IF x \in lost THEN "leaving" ELSE st[x]]
  OBVIOUS
<1>2. lost \in SUBSET {x \in Tracks : st[x] = "live"}
  OBVIOUS
<1>3. D!Lose
  <2> HIDE DEF lost
  <2> QED BY <1>1, <1>2, TargetKept DEF D!Lose, D!Live, D!Tracks, Tracks
<1> QED BY <1>3 DEF D!Next

LEMMA TrackVanishes ==
  ASSUME Keeps, NEW x \in Tracks, TrackState(x) = "leaving", TrackState(x)' = "gone",
         \A y \in Tracks \ {x} : TrackState(y)' = TrackState(y), ~Connected
  PROVE  D!Next
<1> DEFINE st == [y \in Tracks |-> TrackState(y)]
<1>1. st' = [st EXCEPT ![x] = "gone"] /\ st[x] = "leaving"
  OBVIOUS
<1>2. D!Vanish(x)
  BY <1>1, TargetKept DEF D!Vanish, D!Leaving, D!Tracks, Tracks
<1> QED BY <1>2 DEF D!Next, D!Tracks, Tracks

LEMMA TargetGets ==
  ASSUME Unmoved, NEW X \in SUBSET Tracks, \A x \in X : Here(x),
         \/ Number # NoPc /\ Number' = Number /\ Has' = Has \cup X
         \/ Number < Number' /\ Number' \in Pcs /\ Has' = X
         \/ ~Connected'
  PROVE  D!Next
<1> DEFINE st == [y \in Tracks |-> TrackState(y)]
           num == [t \in {"target"} |-> IF Connected THEN rec.pc ELSE NoPc]
           fwd == [t \in {"target"} |-> IF Connected THEN Forwarded ELSE {}]
<1>1. UNCHANGED st
  BY DEF Unmoved
<1>2. X \in SUBSET (D!Live \cup D!Leaving)
  BY DEF D!Live, D!Leaving, D!Tracks, Tracks, Here
<1>3. /\ fwd["target"] = Has /\ fwd' = [fwd EXCEPT !["target"] = Has']
      /\ num["target"] = Number /\ num' = [num EXCEPT !["target"] = Number']
  BY DEF Has, Number
<1>4. CASE Number # NoPc /\ Number' = Number /\ Has' = Has \cup X
  <2>1. num' = num /\ num["target"] # 0 /\ fwd' = [fwd EXCEPT !["target"] = @ \cup X]
    BY <1>3, <1>4 DEF NoPc
  <2>2. D!Give("target")
    <3> HIDE DEF st, num, fwd
    <3> QED BY <1>1, <1>2, <2>1 DEF D!Give, D!NoConnection, st, num, fwd
  <2> QED BY <2>2 DEF D!Next
<1>5. CASE Number < Number' /\ Number' \in Pcs /\ Has' = X
  <2>1. fwd' = [fwd EXCEPT !["target"] = X]
    BY <1>3, <1>5
  <2>2. Number' \in D!Connections /\ num["target"] < Number'
    BY <1>3, <1>5 DEF D!Connections, Pcs
  <2>3. D!Connect("target")
    <3> HIDE DEF st, num, fwd, Number
    <3> QED BY <1>1, <1>2, <1>3, <2>1, <2>2 DEF D!Connect, st, num, fwd
  <2> QED BY <2>3 DEF D!Next
<1>6. CASE ~Connected'
  <2>1. num' = [num EXCEPT !["target"] = 0] /\ fwd' = [fwd EXCEPT !["target"] = {}]
    BY <1>3, <1>6 DEF Has, Number, NoPc
  <2>2. D!Disconnect("target")
    <3> HIDE DEF st, num, fwd
    <3> QED BY <1>1, <2>1 DEF D!Disconnect, D!NoConnection, st, num, fwd
  <2> QED BY <2>2 DEF D!Next
<1> QED BY <1>4, <1>5, <1>6

LEMMA TargetLoses ==
  ASSUME NEW x \in Tracks, TrackState(x) = "leaving", Number' = Number,
         Has' = Has \ {x},
         \A y \in Tracks \ {x} : TrackState(y)' = TrackState(y),
         TrackState(x)' \in {"leaving", "gone"}
  PROVE  D!Next
<1> DEFINE st == [y \in Tracks |-> TrackState(y)]
           num == [t \in {"target"} |-> IF Connected THEN rec.pc ELSE NoPc]
           fwd == [t \in {"target"} |-> IF Connected THEN Forwarded ELSE {}]
<1>1. UNCHANGED num
  BY DEF Number
<1>2. fwd["target"] = Has /\ fwd' = [fwd EXCEPT !["target"] = @ \ {x}]
  BY DEF Has
<1>3. st[x] = "leaving" /\ (UNCHANGED st \/ st' = [st EXCEPT ![x] = "gone"])
  <2>1. CASE TrackState(x)' = "leaving"
    <3>1. \A y \in Tracks : st'[y] = st[y]
      BY <2>1
    <3> QED BY <3>1
  <2>2. CASE TrackState(x)' = "gone"
    BY <2>2
  <2> QED BY <2>1, <2>2
<1>4. D!Take("target", x)
  <2> HIDE DEF st, num, fwd
  <2>1. x \in D!Leaving
    BY <1>3 DEF D!Leaving, D!Tracks, Tracks, st
  <2> QED BY <1>1, <1>2, <1>3, <2>1 DEF D!Take, st, num, fwd
<1> QED BY <1>4 DEF D!Next, D!Tracks, Tracks

(* A change of the track waits for the worker.                             *)
Late(x) == \E i \in 1..Len(trackCh) : trackCh[i].track = x

(* Which state a track is in: the cases exclude each other, as the source  *)
(* has no track that has not come or has ended.                            *)
StateSays(x) ==
  /\ TrackState(x) \in {"new", "live", "leaving", "gone"}
  /\ TrackState(x) = "new" <=> pump[x] = "none"
  /\ TrackState(x) = "gone" <=> pump[x] = "done" /\ ~Late(x)
  /\ TrackState(x) = "live" <=> x = source

LEMMA StateIs ==
  ASSUME PumpsInv, PumpsInv', NEW x \in Tracks
  PROVE  StateSays(x) /\ StateSays(x)'
<1>1. x # NoTrack
  BY DEF Tracks, NoTrack
<1>2. x = source => pump[x] \in {"announce", "reading"}
  BY <1>1 DEF PumpsInv
<1>3. (x = source => pump[x] \in {"announce", "reading"})'
  BY <1>1 DEF PumpsInv
<1>4. StateSays(x)
  BY <1>2 DEF StateSays, TrackState, Late
<1>5. StateSays(x)'
  BY <1>3 DEF StateSays, TrackState, Late
<1> QED BY <1>4, <1>5

(* The record's steps but the worker's.                                    *)
LEMMA RecordRefines ==
  ASSUME P2PRecordAssumption, TypeOK, PcInv, PumpsInv, PumpsInv', StepTo(Sent(rec)),
         UNCHANGED sourceVars, session' = session \/ session' # "up"
  PROVE  [D!Next]_D!vars
<1>1. Unmoved
  BY DEF sourceVars, Unmoved, TrackState
<1>2. CASE ~Connected'
  <2>1. PICK X \in SUBSET Tracks : \A x \in X : Here(x)
    <3>1. {} \in SUBSET Tracks /\ \A x \in {} : Here(x)
      OBVIOUS
    <3> QED BY <3>1
  <2>2. D!Next
    BY <1>1, <1>2, <2>1, TargetGets
  <2> QED BY <2>2
<1>3. CASE Connected'
  <2>1. session = "up" /\ ~Dropped(rec', conn', lastPc')
    BY <1>3 DEF Connected, Dropped
  <2>2. CASE Kept(rec', conn', lastPc', Sent(rec))
    <3>1. Keeps
      BY <1>3, <2>1, <2>2 DEF Keeps, Has, Number, Connected, Forwarded, Kept, Sent
    <3> QED BY <1>1, <3>1, NothingMoves
  <2>3. CASE Made(rec', conn', lastPc')
    <3>1. Has' = Given(rec)
      BY <1>3, <2>3 DEF Made, Has, Forwarded, Sent
    <3>2. Given(rec) \in SUBSET Tracks /\ \A x \in Given(rec) : x = source
      BY DEF Given, TypeOK
    <3>3. \A x \in Given(rec) : Here(x)
      BY <3>2, StateIs DEF StateSays, Here
    <3>4. Number < Number' /\ Number' \in Pcs
      <4>1. /\ Number' = lastPc + 1 /\ lastPc + 1 \in Pcs
        BY <1>3, <2>3 DEF Made, Number
      <4>2. lastPc \in Nat /\ rec.pc \in 0..lastPc
        BY DEF PcInv, PcOK, P2PRecordAssumption
      <4> QED BY <4>1, <4>2 DEF Number, NoPc
    <3>5. D!Next
      BY <1>1, <3>1, <3>2, <3>3, <3>4, TargetGets
    <3> QED BY <3>5
  <2> QED BY <2>1, <2>2, <2>3 DEF StepTo, Became
<1> QED BY <1>2, <1>3

(* The source's steps.                                                     *)
LEMMA SourceRefines ==
  ASSUME P2PRecordAssumption, TypeOK, PumpsInv, PumpsInv',
         \/ SourceReset
         \/ \E x \in Tracks : OnTrack(x) \/ PumpStep(x) \/ PumpEnds(x)
  PROVE  [D!Next]_D!vars
<1>t. /\ trackCh \in Seq(Change) /\ pump \in [Tracks -> PumpPoint]
      /\ source \in Tracks \cup {NoTrack} /\ NoTrack \notin Tracks
  BY DEF TypeOK, NoTrack, Tracks
<1>1. Keeps
  BY DEF SourceReset, OnTrack, PumpStep, PumpEnds, PumpAnnounces, PumpRemoves,
         recordVars, recordEnv, Keeps, Has, Number, Connected, Forwarded
<1>2. CASE SourceReset \/ \E x \in Tracks : PumpEnds(x)
  <2>1. source' = NoTrack /\ UNCHANGED trackCh
    BY <1>2 DEF SourceReset, PumpEnds
  <2>2. \A y \in Tracks : pump'[y] = pump[y] \/ (pump[y] = "reading" /\ pump'[y] = "remove")
    BY <1>t, <1>2 DEF SourceReset, PumpEnds
  <2>3. ASSUME NEW y \in Tracks
        PROVE  \/ TrackState(y)' = TrackState(y)
               \/ TrackState(y) = "live" /\ TrackState(y)' = "leaving"
    <3>1. Late(y)' <=> Late(y)
      BY <2>1 DEF Late
    <3>2. y # source'
      BY <1>t, <2>1
    <3>3. /\ pump'[y] = "none" <=> pump[y] = "none"
          /\ pump'[y] = "done" <=> pump[y] = "done"
      BY <2>2
    <3> QED BY <3>1, <3>2, <3>3, StateIs DEF StateSays
  <2>4. D!Next
    BY <1>1, <2>3, TracksLost
  <2> QED BY <2>4
<1>3. ASSUME NEW x \in Tracks, OnTrack(x)
      PROVE  [D!Next]_D!vars
  <2>1. /\ source = NoTrack /\ source' = x /\ UNCHANGED trackCh /\ pump[x] = "none"
        /\ pump' = [pump EXCEPT ![x] = "announce"]
    BY <1>3 DEF OnTrack
  <2>2. \A y \in Tracks : y # x => pump'[y] = pump[y]
    BY <1>t, <2>1
  <2>3. TrackState(x) = "new" /\ TrackState(x)' = "live"
    BY <2>1, StateIs DEF StateSays
  <2>4. ASSUME NEW y \in Tracks \ {x}
        PROVE  TrackState(y)' = TrackState(y)
    <3>1. (Late(y)' <=> Late(y)) /\ y # source' /\ y # source
      BY <1>t, <2>1 DEF Late
    <3> QED BY <2>2, <3>1, StateIs DEF StateSays
  <2>5. D!Next
    BY <1>1, <2>3, <2>4, TrackComes
  <2> QED BY <2>5
<1>4. ASSUME NEW x \in Tracks, PumpStep(x)
      PROVE  [D!Next]_D!vars
  <2>1. PICK d \in Change : trackCh' = Append(trackCh, d) /\ d.track = x
    <3>1. /\ AddOf(x) \in Change /\ AddOf(x).track = x
          /\ RemovalOf(x) \in Change /\ RemovalOf(x).track = x
      BY ChangeFields DEF AddOf, RemovalOf
    <3>2. trackCh' = Append(trackCh, AddOf(x)) \/ trackCh' = Append(trackCh, RemovalOf(x))
      BY <1>4 DEF PumpStep, PumpAnnounces, PumpRemoves, AddOf, RemovalOf
    <3> QED BY <3>1, <3>2
  <2>2. ASSUME NEW y \in Tracks
        PROVE  Late(y)' <=> Late(y) \/ y = x
    <3>1. /\ Len(trackCh') = Len(trackCh) + 1 /\ trackCh'[Len(trackCh) + 1] = d
          /\ \A i \in 1..Len(trackCh) : trackCh'[i] = trackCh[i]
          /\ Len(trackCh) \in Nat
      BY <1>t, <2>1, AwaitsAppend
    <3>2. (\E i \in 1..Len(trackCh') : trackCh'[i].track = y)
            <=> (\E i \in 1..Len(trackCh) : trackCh[i].track = y) \/ y = x
      BY <2>1, <3>1
    <3> QED BY <3>2 DEF Late
  <2>3. UNCHANGED source
    BY <1>4 DEF PumpStep, PumpAnnounces, PumpRemoves
  <2>4. /\ pump[x] \in {"announce", "remove"} /\ pump'[x] \in {"reading", "done"}
        /\ \A y \in Tracks : y # x => pump'[y] = pump[y]
    BY <1>t, <1>4 DEF PumpStep, PumpAnnounces, PumpRemoves
  <2>5. ASSUME NEW y \in Tracks
        PROVE  TrackState(y)' = TrackState(y)
    <3>1. Late(y)' <=> Late(y) \/ y = x
      BY <2>2
    <3>2. CASE y = x
      <4>1. /\ TrackState(y) = "live" <=> y = source
            /\ TrackState(y)' = "live" <=> y = source
            /\ TrackState(y) \in {"live", "leaving"} /\ TrackState(y)' \in {"live", "leaving"}
        BY <2>3, <2>4, <3>1, <3>2, StateIs DEF StateSays
      <4> QED BY <4>1
    <3>3. CASE y # x
      BY <2>3, <2>4, <3>1, <3>3, StateIs DEF StateSays
    <3> QED BY <3>2, <3>3
  <2>6. Unmoved
    BY <2>5 DEF Unmoved
  <2> QED BY <1>1, <2>6, NothingMoves
<1> QED BY <1>2, <1>3, <1>4

(* The worker's.  It takes back only what has ended, and the last change   *)
(* of a track is a removal.                                                *)
LEMMA WorkerRefines ==
  ASSUME P2PRecordAssumption, TypeOK, PcInv, PumpsInv, PumpsInv', TrackWorker
  PROVE  [D!Next]_D!vars
<1>1. /\ trackCh \in Seq(Change) /\ trackCh # <<>> /\ trackCh' = Tail(trackCh)
      /\ UNCHANGED <<source, pump, session>>
  BY DEF TypeOK, TrackWorker, recordEnv
<1>2. /\ Len(trackCh) \in Nat \ {0} /\ Len(trackCh') = Len(trackCh) - 1
      /\ \A i \in 1..Len(trackCh') : trackCh'[i] = trackCh[i + 1]
      /\ Head(trackCh) = trackCh[1] /\ Head(trackCh) \in Change
      /\ \A d : d # Head(trackCh) /\ Awaits(d) => Awaits(d)'
  BY <1>1, AwaitsTail
<1>3. PICK c \in Change : c = Head(trackCh)
  BY <1>2
<1>4. PICK x \in Tracks : /\ c.track = x
                          /\ c.remove => c = RemovalOf(x)
                          /\ ~c.remove => c = AddOf(x)
  BY DEF Change, AddOf, RemovalOf
<1>5. \/ Stays(Sent(rec)) /\ (session # "up" \/ rec.pc = NoPc)
      \/ c.remove /\ Stays(Sent(rec) \ {x})
      \/ ~c.remove /\ Stays(Sent(rec) \cup {x})
      \/ ~c.remove /\ Stays(Sent(rec))
  BY <1>3, <1>4, WorkerStep
<1>6. /\ Late(x)
      /\ \A y \in Tracks : y # x => (Late(y)' <=> Late(y))
  <2>1. Late(x)
    BY <1>2, <1>3, <1>4 DEF Late
  <2>2. ASSUME NEW y \in Tracks, y # x, Late(y)
        PROVE  Late(y)'
    <3>1. PICK i \in 1..Len(trackCh) : trackCh[i].track = y
      BY <2>2 DEF Late
    <3>2. i - 1 \in 1..Len(trackCh') /\ trackCh'[i - 1] = trackCh[i]
      BY <1>2, <1>3, <1>4, <2>2, <3>1
    <3> QED BY <3>1, <3>2 DEF Late
  <2>3. ASSUME NEW y \in Tracks, Late(y)'
        PROVE  Late(y)
    <3>1. PICK i \in 1..Len(trackCh') : trackCh'[i].track = y
      BY <2>3 DEF Late
    <3>2. i + 1 \in 1..Len(trackCh) /\ trackCh'[i] = trackCh[i + 1]
      BY <1>2, <3>1
    <3> QED BY <3>1, <3>2 DEF Late
  <2> QED BY <2>1, <2>2, <2>3
<1>7. ASSUME NEW y \in Tracks, y # x \/ Late(x)' \/ pump[x] # "done"
      PROVE  TrackState(y)' = TrackState(y)
  <2>1. pump'[y] = "done" /\ ~Late(y)' <=> pump[y] = "done" /\ ~Late(y)
    BY <1>1, <1>6, <1>7
  <2> QED BY <1>1, <2>1, StateIs DEF StateSays
<1>8. ASSUME pump[x] = "done"
      PROVE  TrackState(x) = "leaving" /\ TrackState(x)' \in {"leaving", "gone"}
  <2>1. x # NoTrack
    BY DEF Tracks, NoTrack
  <2>2. x # source
    BY <1>8, <2>1 DEF PumpsInv
  <2>3. pump'[x] = "done" /\ x # source'
    BY <1>1, <1>8, <2>2
  <2>4. StateSays(x) /\ StateSays(x)'
    BY StateIs
  <2>5. TrackState(x) \notin {"new", "gone", "live"}
    BY <1>6, <1>8, <2>2, <2>4 DEF StateSays
  <2>6. TrackState(x)' \notin {"new", "live"}
    BY <2>3, <2>4 DEF StateSays
  <2> QED BY <2>4, <2>5, <2>6 DEF StateSays
<1>9. (Connected' <=> Connected) /\ Number' = Number
  BY <1>1, <1>5 DEF Stays, Kept, Connected, Number
<1>10. CASE ~Connected
  <2>1. Keeps
    BY <1>9, <1>10 DEF Keeps, Has
  <2>2. CASE TrackState(x)' = TrackState(x)
    <3>1. Unmoved
      BY <1>7, <2>2 DEF Unmoved
    <3> QED BY <2>1, <3>1, NothingMoves
  <2>3. CASE TrackState(x)' # TrackState(x)
    <3>1. TrackState(x) = "leaving" /\ TrackState(x)' = "gone"
      BY <1>7, <1>8, <2>3
    <3>2. \A y \in Tracks \ {x} : TrackState(y)' = TrackState(y)
      BY <1>7
    <3>3. D!Next
      BY <1>10, <2>1, <3>1, <3>2, TrackVanishes
    <3> QED BY <3>3
  <2> QED BY <2>2, <2>3
<1>11. CASE Connected /\ c.remove
  <2>1. Has' = Has \ {x}
    BY <1>5, <1>9, <1>11 DEF Stays, Kept, Has, Connected, Forwarded, Sent
  <2>2. pump[x] = "done"
    <3>1. Awaits(RemovalOf(x))
      BY <1>2, <1>3, <1>4, <1>11 DEF Awaits
    <3> QED BY <3>1 DEF PumpsInv
  <2>3. \A y \in Tracks \ {x} : TrackState(y)' = TrackState(y)
    BY <1>7
  <2>4. D!Next
    BY <1>8, <1>9, <2>1, <2>2, <2>3, TargetLoses
  <2> QED BY <2>4
<1>12. CASE Connected /\ ~c.remove
  <2>1. Has' = Has \/ Has' = Has \cup {x}
    BY <1>5, <1>9, <1>12 DEF Stays, Kept, Has, Connected, Forwarded, Sent
  <2>2. pump[x] \in {"reading", "remove"} \/ (pump[x] = "done" /\ Late(x)')
    <3>1. 1 \in 1..Len(trackCh) /\ trackCh[1] = AddOf(x)
      BY <1>2, <1>3, <1>4, <1>12
    <3>2. /\ pump[x] \in {"reading", "remove", "done"}
          /\ pump[x] = "done" => \E j \in (1 + 1)..Len(trackCh) : trackCh[j] = RemovalOf(x)
      BY <3>1 DEF PumpsInv
    <3>3. ASSUME NEW j \in (1 + 1)..Len(trackCh), trackCh[j] = RemovalOf(x)
          PROVE  Late(x)'
      <4>1. j - 1 \in 1..Len(trackCh') /\ trackCh'[j - 1] = RemovalOf(x)
        BY <1>2, <3>3
      <4>2. RemovalOf(x).track = x
        BY DEF RemovalOf
      <4> QED BY <4>1, <4>2 DEF Late
    <3> QED BY <3>2, <3>3
  <2>3. Unmoved
    BY <1>7, <2>2 DEF Unmoved
  <2>4. Here(x)
    BY <1>6, <2>2, StateIs DEF StateSays, Here
  <2>5. CASE Has' = Has
    <3>1. Keeps
      BY <1>9, <2>5 DEF Keeps
    <3> QED BY <2>3, <3>1, NothingMoves
  <2>6. CASE Has' = Has \cup {x}
    <3>1. PICK X \in SUBSET Tracks : X = {x}
      OBVIOUS
    <3>2. (\A y \in X : Here(y)) /\ Has' = Has \cup X
      BY <2>4, <2>6, <3>1
    <3>3. Number # NoPc
      BY <1>12 DEF Number, Connected
    <3>4. D!Next
      BY <1>9, <2>3, <3>2, <3>3, TargetGets
    <3> QED BY <3>4
  <2> QED BY <2>1, <2>5, <2>6
<1> QED BY <1>10, <1>11, <1>12

LEMMA NextRefines ==
  ASSUME P2PRecordAssumption, TypeOK, PcInv, PumpsInv, PumpsInv', [Next]_vars
  PROVE  [D!Next]_D!vars
<1>1. CASE SourceReset \/ \E x \in Tracks : OnTrack(x) \/ PumpStep(x) \/ PumpEnds(x)
  BY <1>1, SourceRefines
<1>2. CASE TrackWorker
  BY <1>2, WorkerRefines
<1>3. CASE Next /\ UNCHANGED sourceVars /\ ~TrackWorker
  <2>1. session' = session \/ session' # "up"
    <3>1. CASE SessionEnds
      <4>1. session \in Session /\ session' \in Later[session]
        BY <3>1 DEF SessionEnds, TypeOK
      <4>2. Later[session] \subseteq {"down", "done", "closed"}
        BY <4>1 DEF Session, Later
      <4> QED BY <4>1, <4>2
    <3>2. CASE ~SessionEnds
      BY <1>3, <3>2, SessionStays
    <3> QED BY <3>1, <3>2
  <2> QED BY <1>3, <2>1, NextStep, RecordRefines
<1>4. CASE UNCHANGED vars
  <2>1. Unmoved
    BY <1>4 DEF vars, sourceVars, Unmoved, TrackState
  <2>2. Keeps
    BY <1>4 DEF vars, recordVars, Keeps, Has, Number, Connected, Forwarded
  <2> QED BY <2>1, <2>2, NothingMoves
<1> QED BY <1>1, <1>2, <1>3, <1>4, SourceStays

(* The record implements Distribution: whatever the order in which a new   *)
(* peer connection takes the source's track, the pumps announce and the    *)
(* worker adds and removes, a track that the source has is not taken from  *)
(* the record, and one that has ended does not come back.                  *)
THEOREM Distributes == Spec => ImplementsDistribution
<1> USE P2PRecordAssumption
<1>1. Init => D!Init
  <2> SUFFICES ASSUME Init
               PROVE  D!Init
    OBVIOUS
  <2>1. ~Connected /\ \A x \in Tracks : TrackState(x) = "new"
    BY DEF Init, NewRecord, Connected, TrackState, Tracks, NoTrack
  <2> QED BY <2>1 DEF D!Init, D!NoConnection, D!Tracks, Tracks, NoPc
<1>2. Init => TypeOK /\ PcInv /\ FollowsInv
  BY InitTypes, FollowsInit
<1>3. TypeOK /\ PcInv /\ FollowsInv /\ [Next]_vars => (TypeOK /\ PcInv /\ FollowsInv)'
  BY NextTypes, FollowsNext
<1>4. /\ TypeOK /\ PcInv /\ FollowsInv
      /\ (TypeOK /\ PcInv /\ FollowsInv)'
      /\ [Next]_vars
      => [D!Next]_D!vars
  BY NextRefines DEF FollowsInv
<1> QED BY <1>1, <1>2, <1>3, <1>4, PTL DEF Spec, ImplementsDistribution, D!Spec

-----------------------------------------------------------------------------
(* What the remote has to hear of: changes of the tracks, and transceivers *)
(* and codecs that it has to bring. *)

Requests(q) == \E i \in 1..Len(q) : q[i].type \in {"renegotiate", "transceiver"}
Asks(q, x) == \E i \in 1..Len(q) : q[i].type = "transceiver" /\ x \in q[i].tracks
Offers(s, x) == \E i \in 1..Len(s) : s[i].type = "offer" /\ x \in s[i].lines
OfferIn(s) == \E i \in 1..Len(s) : s[i].type = "offer"
Handles(h) == h.at \in {"media", "create", "remote", "local"} /\ h.msg.type = "offer"

(* What is to be expected from the remote c, with the messages s from it   *)
(* and the handler h: an offer, lines for tracks in one, the lines that it *)
(* knows of, and its pcid.                                                 *)
AheadOf(c, s, h) ==
  [offer |-> c.owes \/ OfferIn(s) \/ Handles(h),
   lines |-> {x \in Tracks : \/ c.owes /\ x \in c.lines
                             \/ Offers(s, x)
                             \/ Handles(h) /\ x \in h.msg.lines},
   known |-> c.lines,
   pcid |-> c.pcid]
Ahead == AheadOf(client, toServer, handler)

(* The handler h takes up a request of a record with the peer connection p. *)
Taker(h, p) ==
  \/ h.at = "create" /\ Initiator
  \/ h.at = "finish" /\ h.pc = p

(* An offer with lines has brought the codec.                              *)
MediaOK(h, r) ==
  ~Initiator /\ h.at \in {"create", "remote", "local"} /\ h.msg.type = "offer"
    /\ h.msg.lines # {} /\ r.pc = h.pc => r.media = "codec"

(* The worker has seen the last of a track.                                *)
Gone(x) == pump[x] = "done" /\ ~Awaits(AddOf(x))

(* What a record that can send owes its remote has somebody to bring it,   *)
(* where a is what lies ahead, and the lines that it waits for do so too:  *)
(* they were asked for, and are known or the question is under way.        *)
Heard(r, k, q, a) ==
  r.source /\ r.pc # NoPc /\ k[r.pc].signaling # "closed" /\ ~k[r.pc].failed
    /\ (Initiator \/ k[r.pc].peer = a.pcid) =>
    /\ k[r.pc].changed => \/ r.needsNegotiation \/ r.queuedNegotiation
                          \/ ~Initiator /\ (Requests(q) \/ a.offer)
    /\ Codec /\ ~Initiator =>
         /\ \A x \in r.pending \ r.tracks : Asks(q, x) \/ x \in a.lines
         /\ \A x \in r.requested : Asks(q, x) \/ x \in a.known

(* A transceiver was requested for tracks that are sent, or have ended: so *)
(* a track that the worker adds is asked for, if it has to be.             *)
Good(r, k, q, a) ==
  /\ r.source => r.dataChannel
  /\ r.pc # NoPc => k[r.pc].peer \leq a.pcid
  /\ Initiator \/ Codec \/ r.tracks = {}
  /\ \A x \in r.requested : x \in Sent(r) \/ Gone(x)
  /\ session = "up" => Heard(r, k, q, a)

(* While the handler is at work nobody else gives the record a peer        *)
(* connection, and a request is left behind only for the handler.          *)
ServedInv ==
  /\ handler.at # "idle" => rec.pc \in {NoPc, handler.pc}
  /\ handler.at = "restart" => Initiator
  /\ session = "up" /\ rec.needsNegotiation => Taker(handler, rec.pc)
  /\ MediaOK(handler, rec)
  /\ Good(rec, conn, toClient, Ahead)

(* The last offer of the remote has all lines that it knows of, unless it  *)
(* owes another one; and what comes is not from incarnations to be.        *)
RemoteInv ==
  /\ handler.msg.pcid \leq client.pcid
  /\ \A i \in 1..Len(toServer) : toServer[i].pcid \leq client.pcid
  /\ session = "up" /\ ~Initiator =>
       /\ Handles(handler) => \/ client.owes \/ client.lines \subseteq handler.msg.lines
                              \/ OfferIn(toServer)
       /\ \A i \in 1..Len(toServer) : toServer[i].type = "offer" =>
            \/ client.owes \/ client.lines \subseteq toServer[i].lines
            \/ \E j \in (i + 1)..Len(toServer) : toServer[j].type = "offer"

-----------------------------------------------------------------------------
LEMMA RequestsKept ==
  ASSUME NEW q \in Seq(ClientMessage), NEW s \in Seq(ClientMessage)
  PROVE  /\ Requests(q) \/ Requests(s) => Requests(q \o s)
         /\ \A x : Asks(q, x) \/ Asks(s, x) => Asks(q \o s, x)
         /\ \A x : Asks(q, x) => Requests(q)
<1>1. /\ Len(q) \in Nat /\ Len(s) \in Nat /\ Len(q \o s) = Len(q) + Len(s)
      /\ \A i \in 1..Len(q) : (q \o s)[i] = q[i]
      /\ \A i \in 1..Len(s) : (q \o s)[Len(q) + i] = s[i]
  OBVIOUS
<1>2. /\ \A i \in 1..Len(q) : i \in 1..Len(q \o s)
      /\ \A i \in 1..Len(s) : Len(q) + i \in 1..Len(q \o s)
  BY <1>1
<1>3. Requests(q) \/ Requests(s) => Requests(q \o s)
  BY <1>1, <1>2 DEF Requests
<1>4. \A x : Asks(q, x) \/ Asks(s, x) => Asks(q \o s, x)
  BY <1>1, <1>2 DEF Asks
<1>5. \A x : Asks(q, x) => Requests(q)
  BY DEF Asks, Requests
<1> QED BY <1>3, <1>4, <1>5

LEMMA RequestsAppend ==
  ASSUME NEW q \in Seq(ClientMessage), NEW m \in ClientMessage
  PROVE  /\ Append(q, m) \in Seq(ClientMessage)
         /\ Requests(q) => Requests(Append(q, m))
         /\ \A x : Asks(q, x) => Asks(Append(q, m), x)
         /\ m.type \in {"renegotiate", "transceiver"} => Requests(Append(q, m))
         /\ m.type = "transceiver" => \A x \in m.tracks : Asks(Append(q, m), x)
<1>1. /\ Len(q) \in Nat /\ Len(Append(q, m)) = Len(q) + 1
      /\ \A i \in 1..Len(q) : Append(q, m)[i] = q[i]
      /\ Append(q, m)[Len(q) + 1] = m
  OBVIOUS
<1>2. /\ \A i \in 1..Len(q) : i \in 1..Len(Append(q, m))
      /\ Len(q) + 1 \in 1..Len(Append(q, m))
  BY <1>1
<1>3. Requests(q) => Requests(Append(q, m))
  BY <1>1, <1>2 DEF Requests
<1>4. \A x : Asks(q, x) => Asks(Append(q, m), x)
  BY <1>1, <1>2 DEF Asks
<1>5. m.type \in {"renegotiate", "transceiver"} => Requests(Append(q, m))
  BY <1>1, <1>2 DEF Requests
<1>6. m.type = "transceiver" => \A x \in m.tracks : Asks(Append(q, m), x)
  BY <1>1, <1>2 DEF Asks
<1> QED BY <1>3, <1>4, <1>5, <1>6

LEMMA RequestsTaken ==
  ASSUME NEW q \in Seq(ClientMessage), q # <<>>
  PROVE  /\ Head(q) \in ClientMessage
         /\ Requests(q) => \/ Head(q).type \in {"renegotiate", "transceiver"}
                           \/ Requests(Tail(q))
         /\ \A x : Asks(q, x) => \/ Head(q).type = "transceiver" /\ x \in Head(q).tracks
                                 \/ Asks(Tail(q), x)
<1>1. /\ Len(q) \in Nat /\ Head(q) = q[1] /\ Head(q) \in ClientMessage
      /\ \A i \in 1..Len(q) : i # 1 => /\ i - 1 \in 1..Len(Tail(q))
                                       /\ Tail(q)[i - 1] = q[i]
  OBVIOUS
<1>2. Requests(q) => \/ Head(q).type \in {"renegotiate", "transceiver"}
                     \/ Requests(Tail(q))
  BY <1>1 DEF Requests
<1>3. ASSUME NEW x, Asks(q, x)
      PROVE  \/ Head(q).type = "transceiver" /\ x \in Head(q).tracks
             \/ Asks(Tail(q), x)
  BY <1>1, <1>3 DEF Asks
<1> QED BY <1>1, <1>2, <1>3

LEMMA OffersAppend ==
  ASSUME NEW s \in Seq(ServerMessage), NEW m \in ServerMessage
  PROVE  /\ Append(s, m) \in Seq(ServerMessage)
         /\ OfferIn(s) \/ m.type = "offer" => OfferIn(Append(s, m))
         /\ \A x : Offers(s, x) => Offers(Append(s, m), x)
         /\ m.type = "offer" => \A x \in m.lines : Offers(Append(s, m), x)
<1>1. /\ Len(s) \in Nat /\ Len(Append(s, m)) = Len(s) + 1
      /\ \A i \in 1..Len(s) : Append(s, m)[i] = s[i]
      /\ Append(s, m)[Len(s) + 1] = m
  OBVIOUS
<1>2. /\ \A i \in 1..Len(s) : i \in 1..Len(Append(s, m))
      /\ Len(s) + 1 \in 1..Len(Append(s, m))
  BY <1>1
<1>3. OfferIn(s) \/ m.type = "offer" => OfferIn(Append(s, m))
  BY <1>1, <1>2 DEF OfferIn
<1>4. \A x : Offers(s, x) => Offers(Append(s, m), x)
  BY <1>1, <1>2 DEF Offers
<1>5. m.type = "offer" => \A x \in m.lines : Offers(Append(s, m), x)
  BY <1>1, <1>2 DEF Offers
<1> QED BY <1>3, <1>4, <1>5

LEMMA OffersTaken ==
  ASSUME NEW s \in Seq(ServerMessage), s # <<>>
  PROVE  /\ Len(s) \in Nat /\ Len(Tail(s)) = Len(s) - 1
         /\ Head(s) \in ServerMessage /\ Head(s) = s[1] /\ 1 \in 1..Len(s)
         /\ \A i \in 1..Len(Tail(s)) : i + 1 \in 1..Len(s) /\ Tail(s)[i] = s[i + 1]
         /\ OfferIn(s) => Head(s).type = "offer" \/ OfferIn(Tail(s))
         /\ \A x : Offers(s, x) => \/ Head(s).type = "offer" /\ x \in Head(s).lines
                                   \/ Offers(Tail(s), x)
<1>1. /\ Len(s) \in Nat /\ Head(s) = s[1] /\ Head(s) \in ServerMessage
      /\ Len(Tail(s)) = Len(s) - 1 /\ 1 \in 1..Len(s)
      /\ \A i \in 1..Len(Tail(s)) : i + 1 \in 1..Len(s) /\ Tail(s)[i] = s[i + 1]
  OBVIOUS
<1>2. \A i \in 1..Len(s) : i # 1 => i - 1 \in 1..Len(Tail(s)) /\ Tail(s)[i - 1] = s[i]
  OBVIOUS
<1>3. OfferIn(s) => Head(s).type = "offer" \/ OfferIn(Tail(s))
  BY <1>1, <1>2 DEF OfferIn
<1>4. ASSUME NEW x, Offers(s, x)
      PROVE  \/ Head(s).type = "offer" /\ x \in Head(s).lines
             \/ Offers(Tail(s), x)
  BY <1>1, <1>2, <1>4 DEF Offers
<1> QED BY <1>1, <1>3, <1>4

(* What the worker has seen the last of does not come back.                *)
LEMMA GoneStays ==
  ASSUME P2PRecordAssumption, RestOK, Next, NEW x \in Tracks, Gone(x)
  PROVE  Gone(x)'
<1>t. /\ trackCh \in Seq(Change) /\ pump \in [Tracks -> PumpPoint]
      /\ pump[x] = "done" /\ ~Awaits(AddOf(x))
  BY DEF RestOK, Gone
<1>1. ASSUME NEW y \in Tracks, OnTrack(y) \/ PumpEnds(y)
      PROVE  Gone(x)'
  <2>1. /\ y # x /\ UNCHANGED trackCh
        /\ pump' = [pump EXCEPT ![y] = "announce"] \/ pump' = [pump EXCEPT ![y] = "remove"]
    BY <1>t, <1>1 DEF OnTrack, PumpEnds
  <2> QED BY <1>t, <2>1 DEF Gone, Awaits
<1>2. ASSUME NEW y \in Tracks, PumpStep(y)
      PROVE  Gone(x)'
  <2>1. /\ y # x
        /\ pump' = [pump EXCEPT ![y] = "reading"] \/ pump' = [pump EXCEPT ![y] = "done"]
        /\ trackCh' = Append(trackCh, AddOf(y)) \/ trackCh' = Append(trackCh, RemovalOf(y))
    BY <1>t, <1>2 DEF PumpStep, PumpAnnounces, PumpRemoves, AddOf, RemovalOf
  <2>2. AddOf(y) # AddOf(x) /\ RemovalOf(y) # AddOf(x)
        /\ AddOf(y) \in Change /\ RemovalOf(y) \in Change
    BY <2>1, ChangeFields
  <2>3. ~Awaits(AddOf(x))'
    BY <1>t, <2>1, <2>2, AwaitsAppend
  <2>4. pump'[x] = "done"
    BY <1>t, <2>1
  <2> QED BY <2>3, <2>4 DEF Gone
<1>3. CASE TrackWorker
  <2>1. trackCh # <<>> /\ trackCh' = Tail(trackCh) /\ UNCHANGED pump
    BY <1>3 DEF TrackWorker
  <2>2. ~Awaits(AddOf(x))'
    BY <1>t, <2>1, AwaitsTail
  <2> QED BY <1>t, <2>1, <2>2 DEF Gone
<1>4. CASE SourceReset \/ UNCHANGED sourceVars
  BY <1>t, <1>4 DEF SourceReset, sourceVars, Gone, Awaits
<1> QED BY <1>1, <1>2, <1>3, <1>4, SourceStays

-----------------------------------------------------------------------------
(* Good depends on little of the record and of its peer connection.        *)
LEMMA GoodSame ==
  ASSUME NEW r, NEW s, NEW k, NEW j, NEW q, NEW a,
         s.pc = r.pc, s.source = r.source, s.dataChannel = r.dataChannel,
         s.tracks = r.tracks, s.pending = r.pending, s.requested = r.requested,
         r.needsNegotiation \/ r.queuedNegotiation =>
           s.needsNegotiation \/ s.queuedNegotiation,
         r.pc # NoPc => /\ j[r.pc].signaling = "closed" <=> k[r.pc].signaling = "closed"
                        /\ j[r.pc].changed = k[r.pc].changed
                        /\ j[r.pc].failed = k[r.pc].failed
                        /\ j[r.pc].peer = k[r.pc].peer,
         Good(r, k, q, a)
  PROVE  Good(s, j, q, a)
<1>1. Sent(s) = Sent(r)
  BY DEF Sent
<1>2. session = "up" => Heard(s, j, q, a)
  BY DEF Good, Heard
<1> QED BY <1>1, <1>2 DEF Good

(* More is to be expected with the messages z and b ahead than with q and a. *)
More(q, a, z, b) ==
  /\ b.pcid = a.pcid
  /\ ~Initiator /\ (Requests(q) \/ a.offer) => Requests(z) \/ b.offer
  /\ Codec /\ ~Initiator => \A x \in Tracks :
       /\ Asks(q, x) \/ x \in a.lines => Asks(z, x) \/ x \in b.lines
       /\ Asks(q, x) \/ x \in a.known => Asks(z, x) \/ x \in b.known

LEMMA GoodMore ==
  ASSUME NEW r \in Record, NEW k, NEW q, NEW a, NEW z, NEW b, Good(r, k, q, a),
         More(q, a, z, b)
  PROVE  Good(r, k, z, b)
<1>1. r.pending \subseteq Tracks /\ r.requested \subseteq Tracks
  BY DEF Record
<1>2. session = "up" => Heard(r, k, z, b)
  BY <1>1 DEF Good, Heard, More
<1> QED BY <1>2 DEF Good, More

(* Without peer connection a record owes nothing.                          *)
LEMMA GoodNone ==
  ASSUME NEW r, r.pc = NoPc, r.source => r.dataChannel, r.tracks = {},
         \A x \in r.requested : x \in Sent(r) \/ Gone(x), NEW k, NEW q, NEW a
  PROVE  Good(r, k, q, a)
  BY DEF Good, Heard

LEMMA EmptiedFields ==
  ASSUME P2PRecordAssumption, role \in Roles, NEW r \in Record
  PROVE  /\ Reset(r).pc = NoPc /\ ~Reset(r).source /\ Reset(r).requested = {}
         /\ ~Reset(r).needsNegotiation /\ Reset(r).tracks = {}
         /\ r.pc = NoPc => Reset(r).media = r.media
         /\ r.pc # NoPc =>
              /\ ClearPeerConnection(r).pc = NoPc
              /\ ClearPeerConnection(r).source = r.source
              /\ ClearPeerConnection(r).dataChannel = r.dataChannel
              /\ ClearPeerConnection(r).requested = {}
              /\ ClearPeerConnection(r).tracks = {}
              /\ ~ClearPeerConnection(r).needsNegotiation
<1> DEFINE e == Emptied(r)
<1>1. /\ e.pc = NoPc /\ e.requested = {} /\ ~e.needsNegotiation /\ e.tracks = {}
      /\ e.source = r.source /\ e.dataChannel = r.dataChannel
      /\ r.pc = NoPc => e.media = r.media
  BY DEF Emptied, NewRecord
<1>2. e \in Record
  BY RecordTypes
<1> HIDE DEF e
<1>3. LET x == [e EXCEPT !.dataChannel = FALSE, !.source = FALSE,
                         !.pendingCandidates = r.pendingCandidates]
      IN /\ x.pc = NoPc /\ ~x.source /\ x.requested = {} /\ ~x.needsNegotiation
         /\ x.tracks = {} /\ x.media = e.media
  BY <1>1, <1>2 DEF Record
<1>4. LET x == [e EXCEPT !.senders = r.senders]
      IN /\ x.pc = NoPc /\ x.requested = {} /\ ~x.needsNegotiation /\ x.tracks = {}
         /\ x.source = r.source /\ x.dataChannel = r.dataChannel
  BY <1>1, <1>2 DEF Record
<1> QED BY <1>1, <1>3, <1>4 DEF Reset, ClearPeerConnection, e

LEMMA GoodReset ==
  ASSUME P2PRecordAssumption, role \in Roles, NEW r \in Record, NEW k, NEW q, NEW a
  PROVE  Good(Reset(r), k, q, a)
<1>1. /\ Reset(r).pc = NoPc /\ ~Reset(r).source /\ Reset(r).requested = {}
      /\ Reset(r).tracks = {}
  BY EmptiedFields
<1> QED BY <1>1, GoodNone

(* A request that is taken up is not left behind, and what it was for is   *)
(* described, or queued, or the remote is asked.                           *)
LEMMA NegotiateGood ==
  ASSUME P2PRecordAssumption, role \in Roles, NEW r, NEW k, NEW q, Works(r, k, q),
         NEW a, Good(r, k, q, a), MaybeNegotiateAndUnlock(r, k, q)
  PROVE  /\ Good(rec', conn', toClient', a) /\ rec'.media = r.media
         /\ session = "up" => ~rec'.needsNegotiation
<1>t. r \in Record /\ k \in [Pcs -> PeerConnection] /\ q \in Seq(ClientMessage)
  BY DEF Works
<1>1. CASE (r.needsNegotiation => CtxDone) /\ Leave(r, k, q)
  BY <1>1 DEF Leave, CtxDone
<1>2. CASE r.needsNegotiation /\ Negotiate([r EXCEPT !.needsNegotiation = FALSE], k, q)
  <2> DEFINE s == [r EXCEPT !.needsNegotiation = FALSE]
             t == Negotiating(s)
             u == Queued(s)
  <2>1. /\ \A e \in {s, t, u} :
             /\ e.pc = r.pc /\ e.source = r.source /\ e.dataChannel = r.dataChannel
             /\ e.tracks = r.tracks /\ e.pending = r.pending /\ e.media = r.media
             /\ e.requested = r.requested /\ ~e.needsNegotiation
        /\ u.queuedNegotiation
        /\ r.pc \in Pcs \cup {NoPc}
    BY <1>t DEF Record, Negotiating, Queued
  <2> HIDE DEF s, t, u
  <2>g. ASSUME NEW e \in {s, t, u}, NEW j, NEW z, More(q, a, z, a),
               r.pc # NoPc => j[r.pc].peer = k[r.pc].peer,
               session = "up" /\ r.pc # NoPc /\ r.source =>
                 \/ j[r.pc].failed
                 \/ /\ j[r.pc].signaling # "closed" => k[r.pc].signaling # "closed"
                    /\ ~k[r.pc].failed \/ j[r.pc].failed
                    /\ j[r.pc].changed => \/ e.queuedNegotiation
                                          \/ ~Initiator /\ Requests(z)
        PROVE  Good(e, j, z, a)
    <3>1. /\ e.pc = r.pc /\ e.source = r.source /\ e.dataChannel = r.dataChannel
          /\ e.tracks = r.tracks /\ e.pending = r.pending /\ e.requested = r.requested
      BY <2>1, <2>g
    <3>2. Good(r, k, z, a)
      BY <1>t, <2>g, GoodMore
    <3>3. Sent(e) = Sent(r)
      BY <3>1 DEF Sent
    <3>4. session = "up" => Heard(e, j, z, a)
      BY <2>g, <3>1, <3>2 DEF Good, Heard
    <3> QED BY <2>g, <3>1, <3>2, <3>3, <3>4 DEF Good
  <2>m. More(q, a, q, a)
    BY DEF More
  <2>2. CASE Initiator /\ s.pc = NoPc /\ Leave(t, k, q)
    BY <2>1, <2>2, <2>g, <2>m DEF Leave
  <2>3. CASE Leave(u, k, q)
    BY <2>1, <2>3, <2>g, <2>m DEF Leave
  <2>4. CASE ~Initiator /\ Leave(t, k, Append(q, Say("renegotiate")))
    <3>1. Requests(Append(q, Say("renegotiate"))) /\ More(q, a, Append(q, Say("renegotiate")), a)
      <4>1. Say("renegotiate") \in ClientMessage /\ Say("renegotiate").type = "renegotiate"
        BY DEF ClientMessage, Say
      <4> QED BY <1>t, <4>1, RequestsAppend DEF More
    <3>2. Good(t, k, Append(q, Say("renegotiate")), a)
      BY <2>4, <2>g, <3>1
    <3> QED BY <2>1, <2>4, <3>2 DEF Leave
  <2>5. CASE ~Initiator /\ ~CanSend(s) /\ Leave(s, k, q)
    <3>1. session = "up" => ~r.source
      BY <2>1, <2>5 DEF CanSend, Good
    <3>2. Good(s, k, q, a)
      BY <2>g, <2>m, <3>1
    <3> QED BY <2>1, <2>5, <3>2 DEF Leave
  <2>6. CASE Initiator /\ s.pc # NoPc /\ CreateOffer(s, k, q)
    <3> DEFINE offered == [k EXCEPT ![s.pc] = [@ EXCEPT !.signaling = "have-local-offer",
                                                        !.changed = FALSE]]
               failing == [k EXCEPT ![s.pc] = [@ EXCEPT !.failed = TRUE]]
    <3>1. /\ ~offered[s.pc].changed /\ offered[s.pc].failed = k[s.pc].failed
          /\ offered[s.pc].peer = k[s.pc].peer
          /\ failing[s.pc].failed /\ failing[s.pc].peer = k[s.pc].peer
      BY <1>t, <2>1, <2>6 DEF PeerConnection
    <3> HIDE DEF offered, failing
    <3>2. \/ k[s.pc].signaling = "stable" /\ Leave(t, offered, Append(q, Say("offer")))
          \/ k[s.pc].signaling = "stable" /\ Leave(s, offered, q)
          \/ Leave(s, failing, q)
      BY <2>6 DEF CreateOffer, offered, failing, t
    <3>3. More(q, a, Append(q, Say("offer")), a)
      BY <2>6 DEF More
    <3>4. CASE k[s.pc].signaling = "stable" /\ Leave(t, offered, Append(q, Say("offer")))
      <4>1. Good(t, offered, Append(q, Say("offer")), a)
        BY <2>1, <2>g, <3>1, <3>3, <3>4
      <4> QED BY <2>1, <3>4, <4>1 DEF Leave
    <3>5. CASE k[s.pc].signaling = "stable" /\ Leave(s, offered, q)
      <4>1. Good(s, offered, q, a)
        BY <2>1, <2>g, <2>m, <3>1, <3>5
      <4> QED BY <2>1, <3>5, <4>1 DEF Leave
    <3>6. CASE Leave(s, failing, q)
      <4>1. Good(s, failing, q, a)
        BY <2>1, <2>g, <2>m, <3>1, <3>6
      <4> QED BY <2>1, <3>6, <4>1 DEF Leave
    <3> QED BY <3>2, <3>4, <3>5, <3>6
  <2>7. Negotiate(s, k, q)
    BY <1>2 DEF s
  <2> QED BY <2>1, <2>2, <2>3, <2>4, <2>5, <2>6, <2>7 DEF Negotiate, t, u
<1> QED BY <1>1, <1>2 DEF MaybeNegotiateAndUnlock

(* How a critical section ends that leaves a request only for the handler. *)
Leaves(r, k, q) ==
  \/ MaybeNegotiateAndUnlock(r, k, q)
  \/ Leave(r, k, q) /\ (session = "up" /\ r.needsNegotiation => Taker(handler', r.pc))

GoneKept == \A x \in Tracks : Gone(x) => Gone(x)'

(* What a critical section that ends with r, k and q has to see to.        *)
LEMMA EndServed ==
  ASSUME P2PRecordAssumption, role \in Roles, NEW r, NEW k, NEW q, Works(r, k, q),
         Leaves(r, k, q), UNCHANGED role, session' = "up" => session = "up", GoneKept,
         handler'.at # "idle" => r.pc \in {NoPc, handler'.pc},
         handler'.at = "restart" => Initiator, MediaOK(handler', r),
         Good(r, k, q, Ahead')
  PROVE  ServedInv'
<1> DEFINE a == Ahead'
<1>0. Good(r, k, q, a)
  OBVIOUS
<1> HIDE DEF a
<1>1. /\ Good(rec', conn', toClient', a)
      /\ session = "up" /\ rec'.needsNegotiation => Taker(handler', r.pc)
      /\ rec'.pc = r.pc /\ rec'.media = r.media /\ rec' \in Record
  <2>1. CASE MaybeNegotiateAndUnlock(r, k, q)
    BY <1>0, <2>1, NegotiateGood, NegotiateEnds DEF Works
  <2>2. CASE Leave(r, k, q) /\ (session = "up" /\ r.needsNegotiation => Taker(handler', r.pc))
    BY <1>0, <2>2 DEF Leave, Works
  <2> QED BY <2>1, <2>2 DEF Leaves
<1>2. Initiator' = Initiator /\ Codec' = Codec
  BY DEF Initiator, Codec
<1>3. rec'.requested \subseteq Tracks
  BY <1>1 DEF Record
<1>4. Good(rec, conn, toClient, Ahead)'
  <2>1. Good(rec', conn', toClient', a)
    BY <1>1
  <2>2. (session = "up" => Heard(rec, conn, toClient, Ahead))'
    BY <1>2, <2>1 DEF Good, Heard, Requests, Asks, a
  <2>3. (\A x \in rec.requested : x \in Sent(rec) \/ Gone(x))'
    BY <1>3, <2>1 DEF Good, Sent, GoneKept
  <2> QED BY <1>2, <2>1, <2>2, <2>3 DEF Good, a
<1>5. (session = "up" /\ rec.needsNegotiation => Taker(handler, rec.pc))'
  BY <1>1, <1>2 DEF Taker
<1>6. MediaOK(handler, rec)'
  BY <1>1, <1>2 DEF MediaOK
<1> QED BY <1>1, <1>2, <1>4, <1>5, <1>6 DEF ServedInv

LEMMA ReturnLeaves ==
  ASSUME NEW r, NEW k, NEW q, NEW p, Return(r, k, q, p),
         session = "up" /\ r.needsNegotiation => r.pc = p
  PROVE  Leaves(r, k, q) /\ handler'.at = "idle"
  BY DEF Return, Leaves, Idle

(* What lies ahead when the remote and its messages stay.                  *)
LEMMA AheadKept ==
  ASSUME UNCHANGED clientVars, Handles(handler) => Handles(handler'),
         handler'.msg = handler.msg, NEW q
  PROVE  More(q, Ahead, q, Ahead')
<1>1. client' = client /\ toServer' = toServer
  BY DEF clientVars
<1>2. /\ Ahead.offer => Ahead'.offer
      /\ \A x : x \in Ahead.lines => x \in Ahead'.lines
      /\ Ahead'.known = Ahead.known /\ Ahead'.pcid = Ahead.pcid
  BY <1>1 DEF Ahead, AheadOf
<1> QED BY <1>2 DEF More

LEMMA ReceiveKeeps ==
  ASSUME TypeOK, Receive, NEW q,
         Head(toServer).type = "offer" =>
           Initiator \/ (Handles(handler') /\ handler'.msg = Head(toServer))
  PROVE  More(q, Ahead, q, Ahead')
<1>1. /\ toServer \in Seq(ServerMessage) /\ toServer # <<>>
      /\ toServer' = Tail(toServer) /\ client' = client /\ ~Handles(handler)
  BY DEF Receive, TypeOK, Handles
<1>2. /\ OfferIn(toServer) => Head(toServer).type = "offer" \/ OfferIn(toServer')
      /\ \A x : Offers(toServer, x) => \/ Head(toServer).type = "offer"
                                            /\ x \in Head(toServer).lines
                                       \/ Offers(toServer', x)
  BY <1>1, OffersTaken
<1>3. /\ Ahead'.known = Ahead.known /\ Ahead'.pcid = Ahead.pcid
      /\ ~Initiator /\ Ahead.offer => Ahead'.offer
      /\ ~Initiator => \A x : x \in Ahead.lines => x \in Ahead'.lines
  BY <1>1, <1>2 DEF Ahead, AheadOf
<1> QED BY <1>3 DEF More

LEMMA ReboundGood ==
  ASSUME P2PRecordAssumption, TypeOK, NEW i, NEW q, NEW a, Good(rec, conn, q, a)
  PROVE  /\ Good(Rebound(rec, i), ReboundConn(i), q, a)
         /\ Rebound(rec, i).pc \in {rec.pc, NoPc}
         /\ Rebound(rec, i).needsNegotiation =>
              rec.needsNegotiation /\ Rebound(rec, i).pc = rec.pc
<1>t. rec \in Record /\ role \in Roles
  BY DEF TypeOK
<1>1. CASE rec.rpcid # NoId /\ i # rec.rpcid /\ rec.pc # NoPc
  <2>1. Rebound(rec, i) = ClearPeerConnection(rec)
    BY <1>1 DEF Rebound
  <2>2. rec.source => rec.dataChannel
    BY DEF Good
  <2>3. /\ ClearPeerConnection(rec).pc = NoPc
        /\ ClearPeerConnection(rec).source = rec.source
        /\ ClearPeerConnection(rec).dataChannel = rec.dataChannel
        /\ ClearPeerConnection(rec).requested = {}
        /\ ClearPeerConnection(rec).tracks = {}
        /\ ~ClearPeerConnection(rec).needsNegotiation
    BY <1>t, <1>1, EmptiedFields
  <2>4. Good(ClearPeerConnection(rec), ReboundConn(i), q, a)
    BY <2>2, <2>3, GoodNone
  <2> QED BY <2>1, <2>3, <2>4
<1>2. CASE ~(rec.rpcid # NoId /\ i # rec.rpcid /\ rec.pc # NoPc)
  <2> DEFINE b == [rec EXCEPT !.rpcid = i]
  <2>1. Rebound(rec, i) \in {rec, b} /\ ReboundConn(i) = conn
    BY <1>2 DEF Rebound, ReboundConn, ClearPeerConnection, Close
  <2>2. \A s \in {rec, b} :
          /\ s.pc = rec.pc /\ s.source = rec.source /\ s.dataChannel = rec.dataChannel
          /\ s.tracks = rec.tracks /\ s.pending = rec.pending
          /\ s.requested = rec.requested
          /\ s.needsNegotiation = rec.needsNegotiation
          /\ s.queuedNegotiation = rec.queuedNegotiation
    BY <1>t DEF Record
  <2> HIDE DEF b
  <2>3. \A s \in {rec, b} : Good(s, conn, q, a)
    BY <2>2, GoodSame
  <2> QED BY <2>1, <2>2, <2>3
<1> QED BY <1>1, <1>2

(* An initiator takes up what a new peer connection was given, an answerer *)
(* has asked for the transceivers.                                         *)
LEMMA CreateGood ==
  ASSUME P2PRecordAssumption, TypeOK, NEW r \in Record, NEW k \in [Pcs -> PeerConnection],
         NEW i \in 0..MaxRpc, NEW j \in 0..MaxRpc, NEW q \in Seq(ClientMessage),
         NEW a, NEW b, Good(r, k, q, a), j \leq b.pcid,
         PcOK(r, k, lastPc), r.pc = NoPc, CanCreate(r)
  PROVE  /\ Good(CreatePeerConnection(r, i), Created(k, r, j), Asked(r, q), b)
         /\ CreatePeerConnection(r, i).pc = lastPc + 1
         /\ CreatePeerConnection(r, i).media = r.media
         /\ CreatePeerConnection(r, i).needsNegotiation => Initiator \/ r.needsNegotiation
<1> DEFINE p == lastPc + 1
           bound == [r EXCEPT !.pc = p, !.rpcid = i, !.isNegotiating = FALSE]
           given == [bound EXCEPT !.tracks = Given(r),
                                  !.senders = [x \in Tracks |-> IF x \in Given(r) THEN p
                                                                ELSE @[x]]]
           needed == NegotiationNeeded(given)
           asked == [bound EXCEPT !.pending = Given(r), !.requested = Given(r)]
           c == [NewPeerConnection EXCEPT !.changed = Initiator /\ Given(r) # {}, !.peer = j]
<1>1. p \in Pcs
  BY DEF CanCreate, TypeOK, Pcs, P2PRecordAssumption
<1>2. /\ r.source => r.dataChannel
      /\ \A x \in r.requested : Gone(x)
      /\ r.tracks = {} /\ r.pending = {}
  BY DEF Good, PcOK, Sent
<1>3. /\ bound.pc = p /\ bound.source = r.source /\ bound.dataChannel = r.dataChannel
      /\ bound.tracks = {} /\ bound.pending = {} /\ bound.requested = r.requested
      /\ bound.needsNegotiation = r.needsNegotiation /\ bound.media = r.media
      /\ asked.pc = p /\ asked.source = r.source /\ asked.dataChannel = r.dataChannel
      /\ asked.tracks = {} /\ asked.pending = Given(r) /\ asked.requested = Given(r)
      /\ asked.needsNegotiation = r.needsNegotiation /\ asked.media = r.media
  BY <1>1, <1>2 DEF Record
<1>4. /\ needed.pc = p /\ needed.source = r.source /\ needed.dataChannel = r.dataChannel
      /\ needed.requested = r.requested /\ needed.needsNegotiation
      /\ needed.media = r.media
  <2> DEFINE senders == [x \in Tracks |-> IF x \in Given(r) THEN p ELSE r.senders[x]]
             e == [bound EXCEPT !.tracks = Given(r), !.senders = senders]
  <2>1. bound \in Record
    BY <1>1 DEF Record
  <2>2. bound.senders = r.senders
    BY DEF Record
  <2>3. given = e
    BY <2>2
  <2> HIDE DEF bound, senders, given
  <2>4. LET n == NegotiationNeeded(e)
        IN /\ n.pc = bound.pc /\ n.source = bound.source
           /\ n.dataChannel = bound.dataChannel /\ n.media = bound.media
           /\ n.requested = bound.requested /\ n.needsNegotiation
    BY <2>1 DEF Record, NegotiationNeeded
  <2> QED BY <1>3, <2>3, <2>4
<1>5. c.changed = (Initiator /\ Given(r) # {}) /\ c.peer = j
  BY DEF NewPeerConnection
<1>6. Created(k, r, j)[p] = c
  BY <1>1 DEF Created
<1>7. ~Initiator => \A x \in Given(r) : Asks(Asked(r, q), x)
  <2>1. Given(r) \subseteq Tracks
    BY DEF Given, TypeOK, NoTrack
  <2>2. /\ Ask(Given(r)) \in ClientMessage /\ Ask(Given(r)).type = "transceiver"
        /\ Ask(Given(r)).tracks = Given(r)
    BY <2>1, ClientMessages
  <2> QED BY <2>2, RequestsAppend DEF Asked
<1>8. CASE Initiator
  <2>1. CreatePeerConnection(r, i) = needed
    BY <1>8 DEF CreatePeerConnection
  <2> HIDE DEF p, needed, c
  <2>2. Good(needed, Created(k, r, j), Asked(r, q), b)
    BY <1>2, <1>4, <1>5, <1>6, <1>8 DEF Good, Heard
  <2> QED BY <1>4, <1>8, <2>1, <2>2 DEF p
<1>9. CASE ~Initiator
  <2>1. CreatePeerConnection(r, i) = asked
    BY <1>9 DEF CreatePeerConnection
  <2> HIDE DEF p, asked, c
  <2>2. Good(asked, Created(k, r, j), Asked(r, q), b)
    BY <1>2, <1>3, <1>5, <1>6, <1>7, <1>9 DEF Good, Heard, Sent
  <2> QED BY <1>3, <2>1, <2>2 DEF p
<1> QED BY <1>8, <1>9

(* The fields that the operations leave alone.                             *)
LEMMA FieldsGood ==
  ASSUME NEW r \in Record, NEW k, NEW q, NEW a, Good(r, k, q, a)
  PROVE  /\ \A v : Good([r EXCEPT !.media = v], k, q, a)
         /\ \A v : /\ [r EXCEPT !.media = v].pc = r.pc
                   /\ [r EXCEPT !.media = v].needsNegotiation = r.needsNegotiation
         /\ \A s \in {Flushed(r), [r EXCEPT !.pendingCandidates = TRUE]} :
              /\ Good(s, k, q, a) /\ s.media = r.media
              /\ s.pc = r.pc /\ s.needsNegotiation = r.needsNegotiation
         /\ Good(NegotiationNeeded(r), k, q, a) /\ NegotiationNeeded(r).media = r.media
         /\ NegotiationNeeded(r).pc = r.pc /\ NegotiationNeeded(r).needsNegotiation
<1>1. /\ \A s \in {Flushed(r), [r EXCEPT !.pendingCandidates = TRUE],
                   NegotiationNeeded(r)} :
           /\ s.pc = r.pc /\ s.source = r.source /\ s.dataChannel = r.dataChannel
           /\ s.tracks = r.tracks /\ s.pending = r.pending /\ s.requested = r.requested
           /\ s.queuedNegotiation = r.queuedNegotiation /\ s.media = r.media
           /\ r.needsNegotiation => s.needsNegotiation
      /\ \A s \in {Flushed(r), [r EXCEPT !.pendingCandidates = TRUE]} :
           s.needsNegotiation = r.needsNegotiation
      /\ NegotiationNeeded(r).needsNegotiation
  BY DEF Record, Flushed, NegotiationNeeded
<1>2. ASSUME NEW s \in {Flushed(r), [r EXCEPT !.pendingCandidates = TRUE],
                        NegotiationNeeded(r)}
      PROVE  Good(s, k, q, a)
  BY <1>1, GoodSame
<1>3. ASSUME NEW v
      PROVE  LET s == [r EXCEPT !.media = v]
             IN Good(s, k, q, a) /\ s.pc = r.pc /\ s.needsNegotiation = r.needsNegotiation
  <2> DEFINE s == [r EXCEPT !.media = v]
  <2>1. /\ s.pc = r.pc /\ s.source = r.source /\ s.dataChannel = r.dataChannel
        /\ s.tracks = r.tracks /\ s.pending = r.pending /\ s.requested = r.requested
        /\ s.queuedNegotiation = r.queuedNegotiation
        /\ s.needsNegotiation = r.needsNegotiation
    BY DEF Record
  <2> HIDE DEF s
  <2>2. Good(s, k, q, a)
    BY <2>1, GoodSame
  <2> QED BY <2>1, <2>2 DEF s
<1> QED BY <1>1, <1>2, <1>3

(* A message that is handled at once.                                      *)
LEMMA ReturnServed ==
  ASSUME P2PRecordAssumption, TypeOK, GoneKept, UNCHANGED role, NEW r, NEW k,
         Works(r, k, toClient), NEW p, Receive, Head(toServer).type # "offer",
         Return(r, k, toClient, p), session = "up" /\ r.needsNegotiation => r.pc = p,
         \A a : More(toClient, Ahead, toClient, a) => Good(r, k, toClient, a)
  PROVE  ServedInv'
<1>1. More(toClient, Ahead, toClient, Ahead')
  BY ReceiveKeeps
<1>2. Good(r, k, toClient, Ahead')
  BY <1>1
<1>3. Leaves(r, k, toClient) /\ handler'.at = "idle"
  BY ReturnLeaves
<1>4. role \in Roles /\ session' = session
  BY DEF TypeOK, Receive
<1>5. MediaOK(handler', r)
  BY <1>3 DEF MediaOK
<1> QED BY <1>2, <1>3, <1>4, <1>5, EndServed

(* A reset, by whomever.                                                   *)
LEMMA ResetServed ==
  ASSUME P2PRecordAssumption, TypeOK, ServedInv, GoneKept, UNCHANGED <<role, session>>,
         NEW k \in [Pcs -> PeerConnection], NEW p,
         \/ Return(Reset(rec), k, toClient, p)
         \/ Leave(Reset(rec), k, toClient) /\ UNCHANGED handler
  PROVE  ServedInv'
<1>1. role \in Roles /\ rec \in Record /\ toClient \in Seq(ClientMessage)
  BY DEF TypeOK
<1>2. /\ Reset(rec) \in Record /\ Reset(rec).pc = NoPc /\ ~Reset(rec).needsNegotiation
      /\ Good(Reset(rec), k, toClient, Ahead')
  BY <1>1, RecordTypes, EmptiedFields, GoodReset
<1>3. Leaves(Reset(rec), k, toClient)
  BY <1>2, ReturnLeaves DEF Leaves
<1>4. handler'.at = "restart" => Initiator
  BY DEF ServedInv, Return, Idle
<1>5. MediaOK(handler', Reset(rec))
  <2>1. CASE handler'.at = "idle"
    BY <2>1 DEF MediaOK
  <2>2. CASE handler' = handler
    <3>1. rec.pc = NoPc => Reset(rec).media = rec.media
      BY <1>1, EmptiedFields
    <3> QED BY <1>2, <2>2, <3>1 DEF MediaOK, ServedInv
  <2> QED BY <2>1, <2>2 DEF Return, Idle
<1> QED BY <1>1, <1>2, <1>3, <1>4, <1>5, EndServed DEF Works

LEMMA ServedMessages ==
  ASSUME P2PRecordAssumption, TypeOK, PcInv, ServedInv, RemoteInv, GoneKept, UNCHANGED role,
         HandleRenegotiate \/ HandleCandidate \/ HandleTransceiverRequest \/ HandleSDP
  PROVE  ServedInv'
<1> DEFINE m == Head(toServer)
           r == Rebound(rec, m.pcid)
           k == ReboundConn(m.pcid)
<1>t. /\ rec \in Record /\ rec.pc \in Pcs \cup {NoPc} /\ role \in Roles
      /\ lastPc \in 0..MaxPc /\ toClient \in Seq(ClientMessage)
  BY Before
<1>0. Receive
  BY DEF HandleRenegotiate, HandleCandidate, HandleTransceiverRequest, HandleSDP
<1>m. /\ m \in ServerMessage /\ m.pcid \in 0..MaxRpc /\ m.pcid \leq client.pcid
      /\ ~(session = "up" /\ rec.needsNegotiation)
  <2>1. m \in ServerMessage /\ toServer \in Seq(ServerMessage) /\ toServer # <<>>
    BY <1>0, ReceiveHead
  <2>2. m = toServer[1] /\ 1 \in 1..Len(toServer)
    BY <2>1, OffersTaken
  <2>3. handler.at = "idle"
    BY <1>0 DEF Receive
  <2> QED BY <2>1, <2>2, <2>3 DEF RemoteInv, ServerMessage, ServedInv, Taker
<1> HIDE DEF m
<1>r. /\ r \in Record /\ k \in [Pcs -> PeerConnection] /\ Works(r, k, toClient)
      /\ PcOK(r, k, lastPc) /\ r.pc \in {rec.pc, NoPc} /\ r.source = rec.source
      /\ \A a : More(toClient, Ahead, toClient, a) => Good(r, k, toClient, a)
      /\ ~(session = "up" /\ r.needsNegotiation)
  <2>1. ASSUME NEW a, More(toClient, Ahead, toClient, a)
        PROVE  Good(r, k, toClient, a)
    <3>1. Good(rec, conn, toClient, a)
      BY <1>t, <2>1, GoodMore DEF ServedInv
    <3> QED BY <3>1, ReboundGood
  <2>2. r.pc \in {rec.pc, NoPc} /\ (r.needsNegotiation => rec.needsNegotiation)
    <3>1. Good(rec, conn, toClient, Ahead)
      BY DEF ServedInv
    <3> QED BY <3>1, ReboundGood
  <2> QED BY <1>m, <2>1, <2>2, ReboundStep DEF Works
<1> HIDE DEF r, k
<1>1. CASE HandleRenegotiate
  <2>1. /\ m.type # "offer"
        /\ \/ Return(r, k, toClient, rec.pc)
           \/ Return(NegotiationNeeded(r), k, toClient, r.pc)
           \/ /\ Initiator /\ r.pc = NoPc /\ CanCreate(r)
              /\ Return(CreatePeerConnection(r, m.pcid), Created(k, r, m.pcid),
                        toClient, lastPc + 1)
           \/ Return(Reset(r), k, toClient, rec.pc)
    BY <1>1 DEF HandleRenegotiate, m, r, k
  <2>3. CASE Return(r, k, toClient, rec.pc)
    BY <1>0, <1>r, <2>1, <2>3, ReturnServed DEF m
  <2>4. CASE Return(NegotiationNeeded(r), k, toClient, r.pc)
    <3>1. NegotiationNeeded(r) \in Record /\ NegotiationNeeded(r).pc = r.pc
      BY <1>t, <1>r, RecordTypes, RecordFields
    <3>2. ASSUME NEW a, More(toClient, Ahead, toClient, a)
          PROVE  Good(NegotiationNeeded(r), k, toClient, a)
      BY <1>r, <3>2, FieldsGood
    <3>3. Works(NegotiationNeeded(r), k, toClient)
      BY <1>r, <3>1 DEF Works
    <3> QED BY <1>0, <2>1, <2>4, <3>1, <3>2, <3>3, ReturnServed DEF m
  <2>5. CASE /\ Initiator /\ r.pc = NoPc /\ CanCreate(r)
             /\ Return(CreatePeerConnection(r, m.pcid), Created(k, r, m.pcid),
                       toClient, lastPc + 1)
    <3> DEFINE e == CreatePeerConnection(r, m.pcid)
               j == Created(k, r, m.pcid)
    <3>1. Works(e, j, toClient)
      BY <1>t, <1>m, <1>r, <2>5, CreateStep DEF Works
    <3>2. More(toClient, Ahead, toClient, Ahead)
      BY DEF More
    <3>3. Good(r, k, toClient, Ahead) /\ Asked(r, toClient) = toClient
      BY <1>r, <2>5, <3>2 DEF Asked
    <3>4. ASSUME NEW a, More(toClient, Ahead, toClient, a)
          PROVE  Good(e, j, toClient, a) /\ e.pc = lastPc + 1
      <4>1. m.pcid \leq a.pcid
        BY <1>m, <3>4 DEF More, Ahead, AheadOf
      <4>2. /\ Good(e, j, Asked(r, toClient), a)
            /\ e.pc = lastPc + 1
        BY <1>t, <1>m, <1>r, <2>5, <3>3, <4>1, CreateGood
      <4> QED BY <3>3, <4>2
    <3>5. e.pc = lastPc + 1
      BY <3>2, <3>4
    <3> HIDE DEF e, j
    <3>6. Return(e, j, toClient, lastPc + 1)
      BY <2>5 DEF e, j
    <3> QED BY <1>0, <2>1, <3>1, <3>4, <3>5, <3>6, ReturnServed DEF m
  <2>6. CASE Return(Reset(r), k, toClient, rec.pc)
    <3>1. Reset(r) \in Record /\ ~Reset(r).needsNegotiation
      BY <1>t, <1>r, RecordTypes, EmptiedFields
    <3>2. \A a : Good(Reset(r), k, toClient, a)
      BY <1>t, <1>r, GoodReset
    <3>3. Works(Reset(r), k, toClient)
      BY <1>r, <3>1 DEF Works
    <3> QED BY <1>0, <2>1, <2>6, <3>1, <3>2, <3>3, ReturnServed DEF m
  <2> QED BY <2>1, <2>3, <2>4, <2>5, <2>6
<1>2. CASE HandleCandidate
  <2> DEFINE w == [r EXCEPT !.pendingCandidates = TRUE]
  <2>1. /\ m.type # "offer"
        /\ \/ Return(r, k, toClient, rec.pc)
           \/ Return(Reset(r), Close(k, r.pc), toClient, rec.pc)
           \/ Return(w, k, toClient, rec.pc)
    BY <1>2 DEF HandleCandidate, m, r, k
  <2>3. CASE Return(r, k, toClient, rec.pc)
    BY <1>0, <1>r, <2>1, <2>3, ReturnServed DEF m
  <2>4. CASE Return(Reset(r), Close(k, r.pc), toClient, rec.pc)
    <3>1. Reset(r) \in Record /\ ~Reset(r).needsNegotiation
      BY <1>t, <1>r, RecordTypes, EmptiedFields
    <3>2. \A a : Good(Reset(r), Close(k, r.pc), toClient, a)
      BY <1>t, <1>r, GoodReset
    <3>3. Works(Reset(r), Close(k, r.pc), toClient)
      BY <1>t, <1>r, <3>1, CloseDrops DEF Works
    <3> QED BY <1>0, <2>1, <2>4, <3>1, <3>2, <3>3, ReturnServed DEF m
  <2>5. CASE Return(w, k, toClient, rec.pc)
    <3>1. w \in Record /\ w.needsNegotiation = r.needsNegotiation
      BY <1>r DEF Record
    <3>2. ASSUME NEW a, More(toClient, Ahead, toClient, a)
          PROVE  Good(w, k, toClient, a)
      BY <1>r, <3>2, FieldsGood
    <3>3. Works(w, k, toClient)
      BY <1>r, <3>1 DEF Works
    <3> HIDE DEF w
    <3> QED BY <1>0, <1>r, <2>1, <2>5, <3>1, <3>2, <3>3, ReturnServed DEF m
  <2> QED BY <2>1, <2>3, <2>4, <2>5
<1>3. CASE HandleTransceiverRequest
  <2>1. m.type # "offer" /\ Return(r, k, toClient, rec.pc)
    BY <1>3 DEF HandleTransceiverRequest, m, r, k
  <2> QED BY <1>0, <1>r, <2>1, ReturnServed DEF m
<1>4. CASE HandleSDP
  <2>1. /\ Leave(r, k, toClient)
        /\ handler' = [at |-> IF ~Initiator THEN "media"
                              ELSE IF rec.pc = NoPc THEN "restart" ELSE "remote",
                       pc |-> rec.pc, msg |-> m]
    BY <1>4 DEF HandleSDP, m, r, k
  <2>2. /\ handler'.pc = rec.pc /\ handler'.at \in {"media", "restart", "remote"}
        /\ handler'.at = "restart" => Initiator
        /\ handler'.at = "media" \/ Initiator
        /\ handler'.msg = m /\ session' = session
    BY <1>0, <2>1 DEF Receive
  <2>3. m.type = "offer" => Initiator \/ (Handles(handler') /\ handler'.msg = m)
    BY <2>2 DEF Handles
  <2>4. Good(r, k, toClient, Ahead')
    <3>1. More(toClient, Ahead, toClient, Ahead')
      BY <1>0, <2>3, ReceiveKeeps DEF m
    <3> QED BY <1>r, <3>1
  <2>5. Leaves(r, k, toClient) /\ MediaOK(handler', r)
    BY <1>r, <2>1, <2>2 DEF Leaves, MediaOK
  <2> QED BY <1>t, <1>r, <2>2, <2>4, <2>5, EndServed
<1> QED BY <1>1, <1>2, <1>3, <1>4

(* With an answer the tracks that waited are added, or go on waiting.      *)
LEMMA AnswerFields ==
  ASSUME NEW r \in Record
  PROVE  LET s == PendingAdded(r)
         IN /\ s.dataChannel = r.dataChannel /\ s.requested = r.requested
            /\ s = r \/ (HasCodec(r) /\ s.pending = {})
<1> DEFINE added == r.pending \ r.tracks
           senders == [x \in Tracks |-> IF x \in added THEN r.pc ELSE r.senders[x]]
           e == [r EXCEPT !.pending = {}, !.tracks = r.tracks \cup added, !.senders = senders]
           n == NegotiationNeeded(e)
           s == PendingAdded(r)
<1>1. senders \in [Tracks -> Pcs \cup {NoPc}] /\ added \subseteq Tracks
  BY DEF Record
<1>e. e = [r EXCEPT !.pending = {}, !.tracks = @ \cup added,
                    !.senders = [x \in Tracks |-> IF x \in added THEN r.pc ELSE @[x]]]
  OBVIOUS
<1> HIDE DEF senders, e
<1>2. s = r \/ (HasCodec(r) /\ s \in {e, n})
  BY <1>e DEF PendingAdded
<1> HIDE DEF s
<1>3. /\ e \in Record /\ e.dataChannel = r.dataChannel /\ e.requested = r.requested
      /\ e.pending = {}
  BY <1>1 DEF Record, e
<1>4. n.dataChannel = r.dataChannel /\ n.requested = r.requested /\ n.pending = {}
  BY <1>3 DEF Record, NegotiationNeeded
<1> HIDE DEF n
<1>5. /\ s.dataChannel = r.dataChannel /\ s.requested = r.requested
      /\ s = r \/ (HasCodec(r) /\ s.pending = {})
  BY <1>2, <1>3, <1>4
<1> QED BY <1>5 DEF s

(* The requests for transceivers that go with an answer.                   *)
LEMMA AnswerAsks ==
  ASSUME P2PRecordAssumption, NEW q \in Seq(ClientMessage), NEW S \in SUBSET Tracks
  PROVE  LET z == q \o (IF S = {} THEN <<Say("answer")>> ELSE <<Say("answer"), Ask(S)>>)
         IN /\ z \in Seq(ClientMessage)
            /\ Requests(q) => Requests(z)
            /\ \A x : Asks(q, x) => Asks(z, x)
            /\ \A x \in S : Asks(z, x)
            /\ S # {} => Requests(z)
<1> DEFINE m == IF S = {} THEN <<Say("answer")>> ELSE <<Say("answer"), Ask(S)>>
<1>1. /\ Ask(S) \in ClientMessage /\ Ask(S).type = "transceiver" /\ Ask(S).tracks = S
      /\ Say("answer") \in ClientMessage
  BY ClientMessages
<1>2. m \in Seq(ClientMessage)
  BY <1>1
<1>3. S # {} => Len(m) = 2 /\ m[2] = Ask(S)
  OBVIOUS
<1>4. \A x \in S : Asks(m, x)
  <2> HIDE DEF m
  <2> QED BY <1>1, <1>3 DEF Asks
<1> HIDE DEF m
<1>5. /\ q \o m \in Seq(ClientMessage)
      /\ Requests(q) => Requests(q \o m)
      /\ \A x : Asks(q, x) \/ Asks(m, x) => Asks(q \o m, x)
      /\ S # {} => Requests(q \o m)
  BY <1>2, <1>4, RequestsKept
<1> QED BY <1>4, <1>5 DEF m

LEMMA ServedApply ==
  ASSUME P2PRecordAssumption, TypeOK, PcInv, ServedInv, RemoteInv, GoneKept, UNCHANGED role,
         ApplyRemoteDescription, rec.pc = handler.pc, ~ResetReturn
  PROVE  ServedInv'
<1> DEFINE f == Flushed(rec)
<1>t. /\ rec \in Record /\ conn \in [Pcs -> PeerConnection] /\ role \in Roles
      /\ toClient \in Seq(ClientMessage) /\ rec.pc \in Pcs \cup {NoPc}
      /\ handler \in [at : HandlerPoint, pc : Pcs \cup {NoPc}, msg : ServerMessage]
  BY Before DEF TypeOK
<1>1. /\ f \in Record /\ f.pc = rec.pc /\ f.source = rec.source /\ Sent(f) = Sent(rec)
      /\ f.dataChannel = rec.dataChannel /\ f.requested = rec.requested
      /\ f.tracks = rec.tracks /\ f.pending = rec.pending /\ f.media = rec.media
  <2>1. f \in Record /\ f.pc = rec.pc /\ f.source = rec.source /\ Sent(f) = Sent(rec)
    BY <1>t, RecordTypes, RecordFields
  <2>2. /\ f.dataChannel = rec.dataChannel /\ f.requested = rec.requested
        /\ f.tracks = rec.tracks /\ f.pending = rec.pending /\ f.media = rec.media
    BY <1>t DEF Flushed, Record
  <2> QED BY <2>1, <2>2
<1>2. Good(rec, conn, toClient, Ahead)
  BY DEF ServedInv
<1>3. /\ handler'.at = "finish" /\ handler'.pc = rec.pc /\ handler'.msg = handler.msg
      /\ handler.at = "local" /\ UNCHANGED <<session, client, toServer>>
  <2>1. Goto("finish", handler.pc) /\ handler.at = "local" /\ UNCHANGED <<session, clientVars>>
    BY DEF ApplyRemoteDescription, Replaced, handlerEnv
  <2> QED BY <1>t, <2>1 DEF Goto, clientVars
<1>o. \A r : MediaOK(handler', r)
  BY <1>3 DEF MediaOK
<1>4. CASE handler.msg.type = "answer" /\ Leave(f, conn, toClient)
  <2>1. More(toClient, Ahead, toClient, Ahead')
    BY <1>3, <1>4, AheadKept DEF Handles, clientVars
  <2>2. Good(rec, conn, toClient, Ahead')
    BY <1>t, <1>2, <2>1, GoodMore
  <2>3. Good(f, conn, toClient, Ahead')
    BY <1>t, <2>2, FieldsGood
  <2> HIDE DEF f
  <2>4. Leaves(f, conn, toClient) /\ Works(f, conn, toClient)
    BY <1>t, <1>1, <1>3, <1>4 DEF Leaves, Taker, Works
  <2> QED BY <1>t, <1>o, <1>1, <1>3, <2>3, <2>4, EndServed
<1>5. CASE /\ handler.msg.type = "offer" /\ conn[rec.pc].signaling = "have-remote-offer"
           /\ CreateAnswer(PendingAdded(f), conn, toClient)
  <2> DEFINE s == PendingAdded(f)
             missing == IF Initiator THEN {} ELSE s.tracks \ s.requested
             a == [s EXCEPT !.requested = s.requested \cup missing]
             message == IF missing = {} THEN <<Say("answer")>>
                        ELSE <<Say("answer"), Ask(missing)>>
             z == toClient \o message
             q == IF CanSend(s) THEN z ELSE toClient
             d(c) == [conn[rec.pc] EXCEPT !.signaling = "stable", !.changed = c,
                                          !.stables = conn[rec.pc].stables + 1]
             k(c) == [conn EXCEPT ![rec.pc] = d(c)]
  <2> HIDE DEF f
  <2>1. /\ s \in Record /\ s.pc = rec.pc /\ s.source = rec.source /\ Sent(s) = Sent(rec)
        /\ a \in Record /\ a.pc = rec.pc /\ a.source = rec.source /\ Sent(a) = Sent(rec)
        /\ s.dataChannel = rec.dataChannel /\ s.requested = rec.requested
    <3>1. /\ s \in Record /\ s.pc = f.pc /\ s.source = f.source /\ Sent(s) = Sent(f)
          /\ a \in Record /\ a.pc = f.pc /\ a.source = f.source /\ Sent(a) = Sent(f)
      BY <1>t, <1>1, PendingFields
    <3>2. s.dataChannel = f.dataChannel /\ s.requested = f.requested
      BY <1>1, AnswerFields
    <3> HIDE DEF s, a
    <3> QED BY <1>1, <3>1, <3>2
  <2>2. /\ HasCodec(f) = (Codec /\ (Initiator \/ rec.media = "codec"))
        /\ \/ s.tracks = rec.tracks /\ s.pending = rec.pending
           \/ Codec /\ s.pending = {}
        /\ ~Initiator /\ handler.msg.lines # {} /\ Codec =>
             rec.media = "codec" /\ s.pending \subseteq s.tracks
    <3>1. HasCodec(f) = (Codec /\ (Initiator \/ rec.media = "codec"))
      BY <1>1 DEF HasCodec
    <3>2. s = f \/ (HasCodec(f) /\ s.pending = {})
      BY <1>1, AnswerFields
    <3>3. ~Initiator /\ handler.msg.lines # {} => rec.media = "codec"
      BY <1>3, <1>5 DEF ServedInv, MediaOK
    <3>4. HasCodec(f) => s.pending = {}
      BY <1>1 DEF PendingAdded, NegotiationNeeded, Record
    <3> HIDE DEF s
    <3> QED BY <1>1, <3>1, <3>2, <3>3, <3>4
  <2> HIDE DEF s
  <2>3. missing \subseteq Tracks /\ missing \subseteq Sent(s)
    BY <2>1 DEF Record, Sent
  <2>4. /\ a.tracks = s.tracks /\ a.pending = s.pending
        /\ a.dataChannel = s.dataChannel /\ a.requested = s.requested \cup missing
    BY <2>1 DEF Record
  <2>5. PICK c \in BOOLEAN :
          /\ c => ~Initiator /\ ~(s.tracks \subseteq handler.msg.lines)
          /\ Leave([s EXCEPT !.requested = @ \cup missing],
                   [conn EXCEPT ![s.pc] = [@ EXCEPT !.signaling = "stable", !.changed = c,
                                                    !.stables = conn[s.pc].stables + 1]],
                   IF CanSend(s) THEN toClient \o message ELSE toClient)
    BY <1>5, Zenon DEF CreateAnswer, s
  <2>6. Leave(a, k(c), q)
    BY <2>1, <2>5
  <2>7. /\ z \in Seq(ClientMessage)
        /\ Requests(toClient) => Requests(z)
        /\ \A x : Asks(toClient, x) => Asks(z, x)
        /\ \A x \in missing : Asks(z, x)
        /\ missing # {} => Requests(z)
    <3> HIDE DEF missing
    <3> QED BY <1>t, <2>3, AnswerAsks
  <2> HIDE DEF a, missing, message, z
  <2>8. /\ k(c) \in [Pcs -> PeerConnection]
        /\ rec.pc # NoPc => /\ k(c)[rec.pc].changed = c
                            /\ k(c)[rec.pc].failed = conn[rec.pc].failed
                            /\ k(c)[rec.pc].peer = conn[rec.pc].peer
    <3>1. CASE rec.pc \in Pcs
      <4>1. conn[rec.pc] \in PeerConnection /\ d(c) \in PeerConnection
        BY <1>t, <3>1, AnsweredConn, Zenon
      <4>2. /\ d(c).changed = c /\ d(c).failed = conn[rec.pc].failed
            /\ d(c).peer = conn[rec.pc].peer
        BY <4>1 DEF PeerConnection
      <4> DEFINE e == d(c)
      <4>3. /\ e \in PeerConnection /\ k(c) = [conn EXCEPT ![rec.pc] = e]
            /\ e.changed = c /\ e.failed = conn[rec.pc].failed
            /\ e.peer = conn[rec.pc].peer
        BY <4>1, <4>2
      <4> HIDE DEF d, e, k
      <4> QED BY <1>t, <3>1, <4>3
    <3>2. CASE rec.pc = NoPc
      <4>1. k(c) = conn
        BY <1>t, <3>2 DEF Pcs, NoPc
      <4> HIDE DEF k
      <4> QED BY <1>t, <3>2, <4>1
    <3> QED BY <1>t, <3>1, <3>2
  <2> DEFINE j == k(c)
  <2> HIDE DEF d, k, j
  <2>9. /\ \A x : x \in Ahead.lines => x \in Ahead'.lines \/ x \in handler.msg.lines
        /\ client.owes \/ OfferIn(toServer) => Ahead'.offer
        /\ Ahead'.known = client.lines /\ Ahead.known = client.lines
        /\ Ahead'.pcid = Ahead.pcid
    BY <1>3 DEF Ahead, AheadOf
  <2>10. session = "up" => Heard(a, j, q, Ahead')
    <3> SUFFICES ASSUME session = "up", rec.source, rec.pc # NoPc, ~conn[rec.pc].failed,
                        Initiator \/ conn[rec.pc].peer = Ahead.pcid
                 PROVE  /\ c => ~Initiator /\ (Requests(q) \/ Ahead'.offer)
                        /\ Codec /\ ~Initiator =>
                             /\ \A x \in s.pending \ s.tracks : Asks(q, x) \/ x \in Ahead'.lines
                             /\ \A x \in s.requested \cup missing :
                                  Asks(q, x) \/ x \in Ahead'.known
      BY <2>1, <2>4, <2>8, <2>9 DEF Heard, j
    <3>1. q = z
      BY <1>2, <2>1 DEF CanSend, Good
    <3>2. Codec /\ ~Initiator =>
            /\ \A x \in rec.pending \ rec.tracks : Asks(toClient, x) \/ x \in Ahead.lines
            /\ \A x \in rec.requested : Asks(toClient, x) \/ x \in client.lines
      BY <1>2, <1>5, <2>9 DEF Good, Heard
    <3>3. ASSUME Codec, ~Initiator, NEW x \in s.pending \ s.tracks
          PROVE  Asks(q, x) \/ x \in Ahead'.lines
      <4>1. handler.msg.lines = {} /\ x \in rec.pending \ rec.tracks
        BY <2>2, <3>3
      <4> QED BY <2>7, <2>9, <3>1, <3>2, <3>3, <4>1
    <3>4. ASSUME Codec, ~Initiator, NEW x \in s.requested \cup missing
          PROVE  Asks(q, x) \/ x \in Ahead'.known
      BY <2>1, <2>7, <2>9, <3>1, <3>2, <3>4
    <3>5. ASSUME c
          PROVE  ~Initiator /\ (Requests(q) \/ Ahead'.offer)
      <4>1. ~Initiator /\ ~(s.tracks \subseteq handler.msg.lines)
        BY <2>5, <3>5
      <4>2. Codec
        BY <1>2, <2>2, <4>1 DEF Good
      <4>3. PICK x \in s.tracks : x \notin handler.msg.lines
        BY <4>1
      <4>4. CASE x \in missing
        BY <2>7, <3>1, <4>1, <4>4
      <4>5. CASE x \notin missing
        <5>1. x \in rec.requested
          BY <2>1, <4>1, <4>5 DEF missing
        <5>2. CASE Asks(toClient, x)
          BY <1>t, <2>7, <3>1, <4>1, <5>2, RequestsKept
        <5>3. CASE x \in client.lines
          <6>1. client.owes \/ client.lines \subseteq handler.msg.lines \/ OfferIn(toServer)
            BY <1>3, <1>5, <4>1 DEF RemoteInv, Handles
          <6> QED BY <2>9, <4>1, <4>3, <5>3, <6>1
        <5> QED BY <3>2, <4>1, <4>2, <5>1, <5>2, <5>3
      <4> QED BY <4>4, <4>5
    <3> QED BY <3>3, <3>4, <3>5
  <2>11. Good(a, j, q, Ahead')
    <3>1. a.source => a.dataChannel
      BY <1>2, <2>1, <2>4 DEF Good
    <3>2. a.pc # NoPc => j[a.pc].peer \leq Ahead'.pcid
      BY <1>2, <2>1, <2>8, <2>9 DEF Good, j
    <3>3. Initiator \/ Codec \/ a.tracks = {}
      BY <1>2, <2>2, <2>4 DEF Good
    <3>4. \A x \in a.requested : x \in Sent(a) \/ Gone(x)
      BY <1>2, <2>1, <2>3, <2>4 DEF Good
    <3> QED BY <2>10, <3>1, <3>2, <3>3, <3>4 DEF Good
  <2>12. Leaves(a, j, q) /\ Works(a, j, q) /\ a.pc = rec.pc
    BY <1>t, <1>3, <2>1, <2>6, <2>7, <2>8 DEF Leaves, Taker, Works, j
  <2> HIDE DEF q
  <2> QED BY <1>t, <1>o, <1>3, <2>11, <2>12, EndServed
<1>6. \/ handler.msg.type = "answer" /\ Leave(f, conn, toClient)
      \/ /\ handler.msg.type = "offer" /\ conn[rec.pc].signaling = "have-remote-offer"
         /\ CreateAnswer(PendingAdded(f), conn, toClient)
  BY DEF ApplyRemoteDescription, Replaced
<1> QED BY <1>4, <1>5, <1>6

(* The remote's description does not change what the peer connection has.  *)
OfferSet(c) == [c EXCEPT !.signaling = "have-remote-offer", !.remote = TRUE]
AnswerSet(c) == [c EXCEPT !.signaling = "stable", !.remote = TRUE, !.stables = c.stables + 1]

LEMMA DescribedConn ==
  ASSUME P2PRecordAssumption, NEW k \in [Pcs -> PeerConnection], NEW p \in Pcs
  PROVE  \A x \in {OfferSet(k[p]), AnswerSet(k[p])} :
           /\ x \in PeerConnection /\ x.signaling # "closed"
           /\ x.changed = k[p].changed /\ x.failed = k[p].failed
           /\ x.peer = k[p].peer
<1> DEFINE e == k[p]
<1>1. e \in PeerConnection /\ OfferSet(e) \in PeerConnection /\ AnswerSet(e) \in PeerConnection
  <2>1. "have-remote-offer" \in SignalingState /\ "stable" \in SignalingState
    BY DEF SignalingState
  <2>2. /\ [k[p] EXCEPT !.signaling = "have-remote-offer", !.remote = TRUE] \in PeerConnection
        /\ [k[p] EXCEPT !.signaling = "stable", !.remote = TRUE,
                        !.stables = k[p].stables + 1] \in PeerConnection
    BY <2>1, ConnTypes, Zenon
  <2> QED BY <2>2, Zenon DEF OfferSet, AnswerSet
<1> HIDE DEF e
<1>2. \A x \in {OfferSet(e), AnswerSet(e)} :
        /\ x.signaling # "closed"
        /\ x.changed = e.changed /\ x.failed = e.failed /\ x.peer = e.peer
  <2>1. LET x == OfferSet(e)
        IN /\ x.signaling # "closed"
           /\ x.changed = e.changed /\ x.failed = e.failed /\ x.peer = e.peer
    BY <1>1 DEF PeerConnection, OfferSet
  <2>2. LET x == AnswerSet(e)
        IN /\ x.signaling # "closed"
           /\ x.changed = e.changed /\ x.failed = e.failed /\ x.peer = e.peer
    BY <1>1 DEF PeerConnection, AnswerSet
  <2> QED BY <2>1, <2>2
<1> QED BY <1>1, <1>2 DEF e

(* The steps of the handler.                                               *)
LEMMA ServedHandler ==
  ASSUME P2PRecordAssumption, TypeOK, PcInv, ServedInv, RemoteInv, GoneKept,
         UNCHANGED role, Handler
  PROVE  ServedInv'
<1>t. /\ rec \in Record /\ conn \in [Pcs -> PeerConnection] /\ role \in Roles
      /\ toClient \in Seq(ClientMessage) /\ rec.pc \in Pcs \cup {NoPc}
      /\ handler.pc \in Pcs \cup {NoPc} /\ Works(rec, conn, toClient)
      /\ handler \in [at : HandlerPoint, pc : Pcs \cup {NoPc}, msg : ServerMessage]
      /\ Close(conn, rec.pc) \in [Pcs -> PeerConnection]
      /\ PcOK(rec, conn, lastPc) /\ lastPc \in 0..MaxPc
  BY Before DEF TypeOK
<1>i. /\ handler.at # "idle" => rec.pc \in {NoPc, handler.pc}
      /\ handler.at = "restart" => Initiator
      /\ session = "up" /\ rec.needsNegotiation => Taker(handler, rec.pc)
      /\ MediaOK(handler, rec)
      /\ Good(rec, conn, toClient, Ahead)
      /\ handler.at \in {"restart", "create"} => handler.pc = NoPc
  BY DEF ServedInv, PcInv
<1>r. ResetReturn /\ UNCHANGED session => ServedInv'
  BY <1>t, ResetServed DEF ResetReturn
<1>p. Replaced /\ UNCHANGED session /\ handler.at \in {"media", "create", "local"} => ServedInv'
  <2> SUFFICES ASSUME Replaced, UNCHANGED session, handler.at \in {"media", "create", "local"}
               PROVE  ServedInv'
    OBVIOUS
  <2>1. rec.pc = NoPc /\ handler.at \in {"media", "local"}
    BY <1>i DEF Replaced
  <2>2. /\ Leave(rec, conn, toClient) /\ handler'.at = "idle"
        /\ ~(session = "up" /\ rec.needsNegotiation)
    BY <1>i, <2>1 DEF Replaced, recordVars, Leave, Taker, Idle
  <2>3. rec.tracks = {}
    BY <1>t, <2>1 DEF PcOK, Sent
  <2>4. Good(rec, conn, toClient, Ahead') /\ MediaOK(handler', rec)
    BY <1>i, <2>1, <2>2, <2>3, GoodNone DEF Good, MediaOK
  <2> QED BY <1>t, <2>2, <2>4, EndServed DEF Leaves
<1>g. \A at, p : Goto(at, p) =>
        handler'.at = at /\ handler'.pc = p /\ handler'.msg = handler.msg
  BY <1>t DEF Goto
<1>1. CASE HandleRenegotiate \/ HandleCandidate \/ HandleTransceiverRequest \/ HandleSDP
  BY <1>1, ServedMessages
<1>2. CASE UpdateMedia
  <2> DEFINE v == IF handler.msg.lines = {} THEN "other" ELSE "codec"
             r == [rec EXCEPT !.media = v]
  <2>0. handler.at = "media" /\ UNCHANGED <<session, clientVars>>
    BY <1>2 DEF UpdateMedia, handlerEnv
  <2>1. CASE ResetReturn \/ Replaced
    BY <1>r, <1>p, <2>0, <2>1
  <2>2. CASE ~(ResetReturn \/ Replaced)
    <3>1. /\ Leave(r, conn, toClient) /\ rec.pc = handler.pc
          /\ Goto(IF handler.pc = NoPc THEN "create" ELSE "remote", handler.pc)
      BY <1>2, <2>2 DEF UpdateMedia
    <3>2. /\ handler'.at \in {"create", "remote"} /\ handler'.pc = rec.pc
          /\ handler'.msg = handler.msg
      BY <1>g, <3>1
    <3>3. More(toClient, Ahead, toClient, Ahead')
      BY <2>0, <3>2, AheadKept DEF Handles
    <3>4. Good(rec, conn, toClient, Ahead')
      BY <1>t, <1>i, <3>3, GoodMore
    <3>5. /\ Good(r, conn, toClient, Ahead')
          /\ r.pc = rec.pc /\ r.needsNegotiation = rec.needsNegotiation
      <4> HIDE DEF v
      <4> QED BY <1>t, <3>4, FieldsGood
    <3>6. r \in Record /\ MediaOK(handler', r)
      <4>1. v \in Media
        BY DEF Media
      <4>2. r \in Record /\ r.media = v
        BY <1>t, <4>1, MediaFields, Zenon
      <4> HIDE DEF r
      <4> QED BY <3>2, <4>2 DEF MediaOK
    <3>7. Leaves(r, conn, toClient)
      BY <1>i, <2>0, <3>1, <3>5 DEF Leaves, Taker
    <3> HIDE DEF r
    <3> QED BY <1>t, <2>0, <3>2, <3>5, <3>6, <3>7, EndServed DEF Works
  <2> QED BY <2>1, <2>2
<1>3. CASE RequestRestart
  <2> DEFINE r == NegotiationNeeded(rec)
  <2>1. /\ handler.at = "restart" /\ UNCHANGED <<session, clientVars>>
        /\ Leave(r, conn, toClient) /\ Goto("create", handler.pc)
    BY <1>3 DEF RequestRestart, handlerEnv
  <2>2. /\ handler'.at = "create" /\ handler'.pc = handler.pc /\ Initiator
        /\ handler'.msg = handler.msg
    BY <1>g, <1>i, <2>1
  <2>3. Good(rec, conn, toClient, Ahead')
    <3>1. More(toClient, Ahead, toClient, Ahead')
      BY <2>1, <2>2, AheadKept DEF Handles
    <3> QED BY <1>t, <1>i, <3>1, GoodMore
  <2>4. /\ Good(r, conn, toClient, Ahead') /\ r.pc = rec.pc /\ r \in Record
        /\ MediaOK(handler', r)
    BY <1>t, <2>2, <2>3, FieldsGood, RecordTypes DEF MediaOK
  <2> HIDE DEF r
  <2>5. Leaves(r, conn, toClient)
    BY <2>1, <2>2 DEF Leaves, Taker
  <2> QED BY <1>t, <1>i, <2>1, <2>2, <2>4, <2>5, EndServed DEF Works
<1>4. CASE CreateForSDP
  <2>0. handler.at = "create" /\ UNCHANGED session
    BY <1>4 DEF CreateForSDP, handlerEnv
  <2>1. CASE ResetReturn \/ Replaced
    BY <1>r, <1>p, <2>0, <2>1
  <2>2. CASE ~(ResetReturn \/ Replaced)
    <3> DEFINE r == CreatePeerConnection(rec, NoId)
               k == Created(conn, rec, handler.msg.pcid)
               q == Asked(rec, toClient)
    <3>1. /\ rec.pc = NoPc /\ CanCreate(rec)
          /\ Leave(r, k, q)
          /\ Goto(IF Initiator THEN "finish" ELSE "remote", lastPc + 1)
      BY <1>4, <1>i, <2>0, <2>2 DEF CreateForSDP
    <3>2. NoId \in 0..MaxRpc /\ handler.msg.pcid \in 0..MaxRpc
      BY <1>t DEF P2PRecordAssumption, NoId, ServerMessage
    <3>3. r \in Record /\ k \in [Pcs -> PeerConnection]
      BY <1>t, <3>1, <3>2, CreateStep
    <3>4. q \in Seq(ClientMessage)
      <4>1. Given(rec) \subseteq Tracks
        BY DEF Given, TypeOK, NoTrack
      <4> QED BY <1>t, <4>1, ClientMessages DEF Asked
    <3>5. /\ Good(r, k, q, Ahead') /\ r.pc = lastPc + 1 /\ r.media = rec.media
          /\ r.needsNegotiation => Initiator \/ rec.needsNegotiation
      <4>1. handler.msg.pcid \leq Ahead'.pcid
        BY <1>4 DEF CreateForSDP, handlerEnv, clientVars, RemoteInv, Ahead, AheadOf
      <4> QED BY <1>t, <1>i, <3>1, <3>2, <4>1, CreateGood
    <3>6. /\ handler'.at = (IF Initiator THEN "finish" ELSE "remote")
          /\ handler'.pc = lastPc + 1 /\ handler'.msg = handler.msg
      BY <1>g, <3>1
    <3>m. MediaOK(handler', r)
      BY <1>i, <2>0, <3>1, <3>5, <3>6 DEF MediaOK
    <3> HIDE DEF r, k, q
    <3>7. Leaves(r, k, q)
      BY <1>i, <2>0, <3>1, <3>5, <3>6 DEF Leaves, Taker
    <3> QED BY <1>t, <2>0, <3>3, <3>4, <3>5, <3>6, <3>m, <3>7, EndServed DEF Works
  <2> QED BY <2>1, <2>2
<1>5. CASE SetRemoteDescription
  <2> DEFINE p == handler.pc
             c == OfferSet(conn[p])
             d == AnswerSet(conn[p])
  <2>0. handler.at = "remote" /\ UNCHANGED <<session, clientVars>>
    BY <1>5 DEF SetRemoteDescription, handlerEnv
  <2>1. CASE ResetReturn
    BY <1>r, <2>0, <2>1
  <2>2. CASE ~ResetReturn
    <3>1. /\ conn[p].signaling \in {"stable", "have-local-offer"}
          /\ \E x \in {c, d} : Leave(rec, [conn EXCEPT ![p] = x], toClient)
          /\ Goto("local", p)
      BY <1>5, <2>2 DEF SetRemoteDescription, OfferSet, AnswerSet
    <3>2. /\ handler'.at = "local" /\ handler'.pc = p /\ handler'.msg = handler.msg
      BY <1>g, <3>1
    <3>3. More(toClient, Ahead, toClient, Ahead')
      BY <2>0, <3>2, AheadKept DEF Handles
    <3>4. Good(rec, conn, toClient, Ahead') /\ MediaOK(handler', rec)
      BY <1>t, <1>i, <2>0, <3>2, <3>3, GoodMore DEF MediaOK
    <3>5. ASSUME p \in Pcs
          PROVE  \A x \in {c, d} :
                   /\ x \in PeerConnection /\ x.signaling # "closed"
                   /\ x.changed = conn[p].changed /\ x.failed = conn[p].failed
                   /\ x.peer = conn[p].peer
      BY <1>t, <3>5, DescribedConn
    <3>6. PICK x \in {c, d} : Leave(rec, [conn EXCEPT ![p] = x], toClient)
      BY <3>1
    <3> DEFINE k == [conn EXCEPT ![p] = x]
    <3> HIDE DEF c, d
    <3>7. /\ k \in [Pcs -> PeerConnection]
          /\ rec.pc # NoPc => /\ k[rec.pc].signaling = "closed" <=> conn[rec.pc].signaling = "closed"
                              /\ k[rec.pc].changed = conn[rec.pc].changed
                              /\ k[rec.pc].failed = conn[rec.pc].failed
                              /\ k[rec.pc].peer = conn[rec.pc].peer
      <4>1. CASE p \in Pcs
        BY <1>t, <1>i, <2>0, <3>1, <3>5, <4>1
      <4>2. CASE p = NoPc
        <5>1. k = conn
          BY <1>t, <4>2 DEF Pcs, NoPc
        <5> QED BY <1>t, <5>1
      <4> QED BY <1>t, <4>1, <4>2
    <3> HIDE DEF k
    <3>8. Good(rec, k, toClient, Ahead')
      BY <3>4, <3>7, GoodSame
    <3>9. Leaves(rec, k, toClient) /\ Works(rec, k, toClient)
      BY <1>t, <1>i, <2>0, <3>6, <3>7 DEF Leaves, Taker, Works, k
    <3> QED BY <1>t, <1>i, <2>0, <3>2, <3>4, <3>8, <3>9, EndServed
  <2> QED BY <2>1, <2>2
<1>6. CASE ApplyRemoteDescription
  <2>1. handler.at = "local" /\ UNCHANGED session
    BY <1>6 DEF ApplyRemoteDescription, handlerEnv
  <2>2. CASE rec.pc = handler.pc /\ ~ResetReturn
    BY <1>6, <2>2, ServedApply
  <2>3. CASE ~(rec.pc = handler.pc /\ ~ResetReturn)
    BY <1>6, <1>r, <1>p, <2>1, <2>3 DEF ApplyRemoteDescription
  <2> QED BY <2>2, <2>3
<1>7. CASE Finish
  <2>1. /\ Return(rec, conn, toClient, handler.pc) /\ handler.at = "finish"
        /\ UNCHANGED <<session, clientVars>>
    BY <1>7 DEF Finish, handlerEnv
  <2>2. Leaves(rec, conn, toClient) /\ handler'.at = "idle"
    BY <1>i, <2>1, ReturnLeaves DEF Taker
  <2>3. More(toClient, Ahead, toClient, Ahead')
    <3>1. Ahead'.offer = Ahead.offer /\ Ahead'.lines = Ahead.lines
          /\ Ahead'.known = Ahead.known /\ Ahead'.pcid = Ahead.pcid
      BY <2>1, <2>2 DEF Ahead, AheadOf, Handles, clientVars
    <3> QED BY <3>1 DEF More
  <2>4. Good(rec, conn, toClient, Ahead') /\ MediaOK(handler', rec)
    BY <1>t, <1>i, <2>2, <2>3, GoodMore DEF MediaOK
  <2> QED BY <1>t, <2>1, <2>2, <2>4, EndServed
<1> QED BY <1>1, <1>2, <1>3, <1>4, <1>5, <1>6, <1>7 DEF Handler

(* Any other step that ends with the record's own peer connection: the     *)
(* handler does not move, and messages and the remote stay.                *)
LEMMA OtherEnd ==
  ASSUME P2PRecordAssumption, TypeOK, ServedInv, GoneKept,
         UNCHANGED <<role, handler, session, clientVars>>, NEW r, NEW k, NEW q,
         Works(r, k, q), Leaves(r, k, q), r.pc = rec.pc, r.media = rec.media,
         Good(r, k, q, Ahead)
  PROVE  ServedInv'
<1>1. Ahead' = Ahead /\ role \in Roles
  BY DEF Ahead, clientVars, TypeOK
<1>2. MediaOK(handler', r)
  BY DEF ServedInv, MediaOK
<1> QED BY <1>1, <1>2, EndServed DEF ServedInv

(* A track whose removal the worker takes has gone, and one whose addition *)
(* it takes has not.                                                       *)
Ordered ==
  \A x \in Tracks, i, j \in 1..Len(trackCh) :
    trackCh[i] = RemovalOf(x) /\ trackCh[j] = AddOf(x) => j < i

LEMMA OrderedNext ==
  ASSUME P2PRecordAssumption, RestOK, PumpsInv, Ordered, [Next]_vars
  PROVE  Ordered'
<1>t. trackCh \in Seq(Change) /\ Len(trackCh) \in Nat
  BY DEF RestOK
<1>1. ASSUME NEW x \in Tracks, PumpStep(x) PROVE Ordered'
  <2>1. AddOf(x) \in Change /\ RemovalOf(x) \in Change
    BY ChangeFields
  <2>2. CASE PumpAnnounces(x)
    <3>1. trackCh' = Append(trackCh, AddOf(x)) /\ pump[x] = "announce"
      BY <2>2 DEF PumpAnnounces, AddOf
    <3>2. ~Awaits(RemovalOf(x))
      BY <3>1 DEF PumpsInv
    <3>3. /\ Len(trackCh') = Len(trackCh) + 1 /\ trackCh'[Len(trackCh) + 1] = AddOf(x)
          /\ \A i \in 1..Len(trackCh) : trackCh'[i] = trackCh[i]
      BY <1>t, <2>1, <3>1, AwaitsAppend
    <3>4. ASSUME NEW y \in Tracks, NEW i \in 1..Len(trackCh'), NEW j \in 1..Len(trackCh'),
                 trackCh'[i] = RemovalOf(y), trackCh'[j] = AddOf(y)
          PROVE  j < i
      <4>1. i # Len(trackCh) + 1
        BY <3>3, <3>4, ChangeFields
      <4>2. i \in 1..Len(trackCh) /\ trackCh[i] = RemovalOf(y)
        BY <1>t, <3>3, <3>4, <4>1
      <4>3. j # Len(trackCh) + 1
        BY <3>2, <3>3, <3>4, <4>2, ChangeFields DEF Awaits
      <4>4. j \in 1..Len(trackCh) /\ trackCh[j] = AddOf(y)
        BY <1>t, <3>3, <3>4, <4>3
      <4> QED BY <4>2, <4>4 DEF Ordered
    <3> QED BY <3>4 DEF Ordered
  <2>3. CASE PumpRemoves(x)
    <3>1. trackCh' = Append(trackCh, RemovalOf(x))
      BY <2>3 DEF PumpRemoves, RemovalOf
    <3>2. /\ Len(trackCh') = Len(trackCh) + 1 /\ trackCh'[Len(trackCh) + 1] = RemovalOf(x)
          /\ \A i \in 1..Len(trackCh) : trackCh'[i] = trackCh[i]
      BY <1>t, <2>1, <3>1, AwaitsAppend
    <3>3. ASSUME NEW y \in Tracks, NEW i \in 1..Len(trackCh'), NEW j \in 1..Len(trackCh'),
                 trackCh'[i] = RemovalOf(y), trackCh'[j] = AddOf(y)
          PROVE  j < i
      <4>1. j # Len(trackCh) + 1
        BY <3>2, <3>3, ChangeFields
      <4>2. j \in 1..Len(trackCh) /\ trackCh[j] = AddOf(y)
        BY <1>t, <3>2, <3>3, <4>1
      <4>3. CASE i = Len(trackCh) + 1
        BY <1>t, <4>2, <4>3
      <4>4. CASE i # Len(trackCh) + 1
        <5>1. i \in 1..Len(trackCh) /\ trackCh[i] = RemovalOf(y)
          BY <1>t, <3>2, <3>3, <4>4
        <5> QED BY <4>2, <5>1 DEF Ordered
      <4> QED BY <4>3, <4>4
    <3> QED BY <3>3 DEF Ordered
  <2> QED BY <1>1, <2>2, <2>3 DEF PumpStep
<1>2. CASE TrackWorker
  <2>1. trackCh # <<>> /\ trackCh' = Tail(trackCh)
    BY <1>2 DEF TrackWorker
  <2>2. /\ Len(trackCh) \in Nat \ {0} /\ Len(trackCh') = Len(trackCh) - 1
        /\ \A i \in 1..Len(trackCh') : trackCh'[i] = trackCh[i + 1]
    BY <1>t, <2>1, AwaitsTail
  <2>3. ASSUME NEW y \in Tracks, NEW i \in 1..Len(trackCh'), NEW j \in 1..Len(trackCh'),
               trackCh'[i] = RemovalOf(y), trackCh'[j] = AddOf(y)
        PROVE  j < i
    <3>1. /\ i + 1 \in 1..Len(trackCh) /\ trackCh[i + 1] = RemovalOf(y)
          /\ j + 1 \in 1..Len(trackCh) /\ trackCh[j + 1] = AddOf(y)
      BY <2>2, <2>3
    <3>2. j + 1 < i + 1
      BY <3>1 DEF Ordered
    <3> QED BY <2>2, <3>2
  <2> QED BY <2>3 DEF Ordered
<1>3. CASE UNCHANGED trackCh
  BY <1>3 DEF Ordered
<1>4. CASE Next
  <2>1. UNCHANGED trackCh \/ TrackWorker \/ \E x \in Tracks : PumpStep(x)
    BY <1>4, SourceStays DEF OnTrack, PumpEnds, SourceReset, sourceVars
  <2> QED BY <1>1, <1>2, <1>3, <2>1
<1>5. CASE UNCHANGED vars
  BY <1>3, <1>5 DEF vars, sourceVars
<1> QED BY <1>4, <1>5

LEMMA ChangedFields ==
  ASSUME NEW k \in [Pcs -> PeerConnection], NEW p \in Pcs
  PROVE  \A x \in Pcs : /\ Changed(k, p)[x].signaling = k[x].signaling
                        /\ Changed(k, p)[x].failed = k[x].failed
                        /\ Changed(k, p)[x].peer = k[x].peer
                        /\ x # p => Changed(k, p)[x] = k[x]
<1> DEFINE c == [k[p] EXCEPT !.changed = TRUE]
<1>1. c.signaling = k[p].signaling /\ c.failed = k[p].failed /\ c.peer = k[p].peer
  BY DEF PeerConnection
<1>2. Changed(k, p) = [k EXCEPT ![p] = c]
  BY DEF Changed
<1> HIDE DEF c
<1> QED BY <1>1, <1>2

LEMMA ServedAdd ==
  ASSUME P2PRecordAssumption, TypeOK, PcInv, ServedInv, GoneKept,
         UNCHANGED <<role, handler, session, clientVars>>,
         NEW x \in Tracks, AddTrack(x), rec.pc # NoPc, ~Gone(x)
  PROVE  ServedInv'
<1>t. /\ rec \in Record /\ rec.pc \in Pcs /\ conn \in [Pcs -> PeerConnection]
      /\ toClient \in Seq(ClientMessage) /\ Works(rec, conn, toClient) /\ role \in Roles
  BY Before
<1>g. Good(rec, conn, toClient, Ahead)
  BY DEF ServedInv
<1> DEFINE a == Added(rec, x)
           na == NegotiationNeeded(a)
           p == Pended(rec, x)
           np == NegotiationNeeded(p)
           n == NegotiationNeeded(rec)
           k == Changed(conn, rec.pc)
           q == toClient \o TransceiverRequest(rec, x)
<1>1. /\ a \in Record /\ p \in Record /\ k \in [Pcs -> PeerConnection]
      /\ a.pc = rec.pc /\ p.pc = rec.pc
      /\ a.source = rec.source /\ p.source = rec.source
      /\ a.dataChannel = rec.dataChannel /\ p.dataChannel = rec.dataChannel
      /\ a.tracks = rec.tracks \cup {x} /\ p.tracks = rec.tracks
      /\ a.pending = rec.pending /\ p.pending = rec.pending \cup {x}
      /\ a.requested = rec.requested /\ p.requested = rec.requested \cup {x}
      /\ p.needsNegotiation = rec.needsNegotiation
      /\ p.queuedNegotiation = rec.queuedNegotiation
      /\ a.media = rec.media /\ p.media = rec.media
  <2>1. a \in Record /\ p \in Record /\ k \in [Pcs -> PeerConnection]
    BY <1>t, TrackFields, ChangedConn
  <2>2. /\ a.pc = rec.pc /\ a.source = rec.source /\ a.dataChannel = rec.dataChannel
        /\ a.tracks = rec.tracks \cup {x} /\ a.pending = rec.pending
        /\ a.requested = rec.requested /\ a.media = rec.media
    BY <1>t DEF Added, Record
  <2>3. /\ p.pc = rec.pc /\ p.source = rec.source /\ p.dataChannel = rec.dataChannel
        /\ p.tracks = rec.tracks /\ p.pending = rec.pending \cup {x}
        /\ p.requested = rec.requested \cup {x}
        /\ p.needsNegotiation = rec.needsNegotiation
        /\ p.queuedNegotiation = rec.queuedNegotiation /\ p.media = rec.media
    BY <1>t DEF Pended, Record
  <2> QED BY <2>1, <2>2, <2>3
<1> HIDE DEF a, p
<1>2. \A r \in {rec, a, p} :
        LET m == NegotiationNeeded(r)
        IN /\ m \in Record /\ m.pc = r.pc /\ m.source = r.source
           /\ m.dataChannel = r.dataChannel /\ m.tracks = r.tracks
           /\ m.pending = r.pending /\ m.requested = r.requested
           /\ m.needsNegotiation /\ m.media = r.media
  BY <1>t, <1>1 DEF NegotiationNeeded, Record
<1>3. /\ na \in Record /\ na.pc = rec.pc /\ na.source = rec.source
      /\ na.dataChannel = rec.dataChannel /\ na.tracks = rec.tracks \cup {x}
      /\ na.pending = rec.pending /\ na.requested = rec.requested /\ na.needsNegotiation
      /\ na.media = rec.media /\ np.media = rec.media
      /\ np \in Record /\ np.pc = rec.pc /\ np.source = rec.source
      /\ np.dataChannel = rec.dataChannel /\ np.tracks = rec.tracks
      /\ np.pending = rec.pending \cup {x} /\ np.requested = rec.requested \cup {x}
      /\ np.needsNegotiation
  BY <1>1, <1>2
<1>4. /\ n \in Record /\ n.pc = rec.pc /\ n.media = rec.media
      /\ Good(n, conn, toClient, Ahead)
  BY <1>t, <1>g, <1>2, FieldsGood
<1>5. /\ q \in Seq(ClientMessage) /\ More(toClient, Ahead, q, Ahead)
      /\ x \notin rec.requested => Asks(q, x)
  <2>1. /\ Ask({x}) \in ClientMessage /\ Ask({x}).type = "transceiver"
        /\ Ask({x}).tracks = {x}
    BY ClientMessages
  <2> DEFINE m == Ask({x})
             z == <<m>>
  <2>2. <<>> \in Seq(ClientMessage) /\ z \in Seq(ClientMessage) /\ Len(z) = 1 /\ z[1] = m
    <3> HIDE DEF m
    <3> QED BY <2>1 DEF m
  <2>a. m.type = "transceiver" /\ m.tracks = {x}
    BY <2>1
  <2>3. TransceiverRequest(rec, x) \in {<<>>, z}
    BY DEF TransceiverRequest
  <2>4. x \notin rec.requested => q = toClient \o z
    BY DEF TransceiverRequest
  <2> HIDE DEF q, m, z
  <2>5. TransceiverRequest(rec, x) \in Seq(ClientMessage)
    BY <2>2, <2>3
  <2>6. q = toClient \o TransceiverRequest(rec, x)
    BY DEF q
  <2>7. q \in Seq(ClientMessage)
    BY <1>t, <2>5, <2>6
  <2>8. More(toClient, Ahead, q, Ahead)
    <3>1. /\ Requests(toClient) => Requests(q)
          /\ \A y : Asks(toClient, y) => Asks(q, y)
      BY <1>t, <2>5, <2>6, RequestsKept
    <3> QED BY <3>1 DEF More
  <2>9. Asks(z, x)
    BY <2>2, <2>a DEF Asks
  <2>10. x \notin rec.requested => Asks(q, x)
    BY <1>t, <2>2, <2>4, <2>9, RequestsKept
  <2> QED BY <2>7, <2>8, <2>10
<1>6. HasCodec(rec) => Good(na, k, toClient, Ahead)
  <2>1. /\ k[rec.pc].signaling = conn[rec.pc].signaling
        /\ k[rec.pc].failed = conn[rec.pc].failed
        /\ k[rec.pc].peer = conn[rec.pc].peer
    BY <1>t, ChangedFields
  <2>2. HasCodec(rec) => Codec
    BY DEF HasCodec
  <2> HIDE DEF na, k
  <2>3. HasCodec(rec) /\ session = "up" => Heard(na, k, toClient, Ahead)
    BY <1>g, <1>3, <2>1 DEF Good, Heard
  <2> QED BY <1>g, <1>3, <2>1, <2>2, <2>3 DEF Good, Sent
<1> HIDE DEF na, np, n, k, q
<1>7. CASE x \notin rec.pending /\ MaybeNegotiateAndUnlock(np, conn, q)
  <2>1. x \in rec.requested => x \in rec.tracks
    BY <1>7, <1>g DEF Good, Sent
  <2>2. Good(rec, conn, q, Ahead)
    BY <1>t, <1>g, <1>5, GoodMore
  <2>3. session = "up" => Heard(np, conn, q, Ahead)
    BY <1>3, <1>5, <2>1, <2>2 DEF Good, Heard
  <2>4. Good(np, conn, q, Ahead)
    BY <1>3, <2>2, <2>3 DEF Good, Sent
  <2> QED BY <1>t, <1>3, <1>5, <1>7, <2>4, OtherEnd DEF Works, Leaves
<1>8. CASE ~CanSend(rec) /\ MaybeNegotiateAndUnlock(p, conn, toClient)
  <2>1. Good(p, conn, toClient, Ahead)
    BY <1>g, <1>1, <1>8 DEF Good, Heard, Sent, CanSend
  <2> QED BY <1>t, <1>1, <1>8, <2>1, OtherEnd DEF Works, Leaves
<1>9. CASE MaybeNegotiateAndUnlock(rec, conn, toClient)
  BY <1>t, <1>g, <1>9, OtherEnd DEF Leaves
<1>10. CASE HasCodec(rec) /\ MaybeNegotiateAndUnlock(na, k, toClient)
  BY <1>t, <1>1, <1>3, <1>6, <1>10, OtherEnd DEF Works, Leaves
<1>11. CASE MaybeNegotiateAndUnlock(n, conn, toClient)
  BY <1>t, <1>4, <1>11, OtherEnd DEF Works, Leaves
<1>12. TransceiverRequest(rec, x) = <<>> => q = toClient
  BY <1>t DEF q
<1> QED BY <1>7, <1>8, <1>9, <1>10, <1>11, <1>12 DEF AddTrack, na, np, n, a, p, k, q

LEMMA ServedRemove ==
  ASSUME P2PRecordAssumption, TypeOK, PcInv, ServedInv, GoneKept,
         UNCHANGED <<role, handler, session, clientVars>>,
         NEW x \in Tracks, RemoveTrack(x), rec.pc # NoPc, Gone(x)
  PROVE  ServedInv'
<1>t. /\ rec \in Record /\ rec.pc \in Pcs /\ conn \in [Pcs -> PeerConnection]
      /\ toClient \in Seq(ClientMessage) /\ Works(rec, conn, toClient) /\ role \in Roles
  BY Before
<1>g. Good(rec, conn, toClient, Ahead)
  BY DEF ServedInv
<1> DEFINE r == Removed(rec, x)
           n == NegotiationNeeded(r)
           k == Changed(conn, rec.pc)
<1>1. /\ r \in Record /\ r.pc = rec.pc /\ r.source = rec.source
      /\ r.dataChannel = rec.dataChannel
      /\ r.tracks = rec.tracks \ {x} /\ r.pending = rec.pending \ {x}
      /\ r.requested = rec.requested
      /\ r.needsNegotiation = rec.needsNegotiation
      /\ r.queuedNegotiation = rec.queuedNegotiation /\ r.media = rec.media
  <2>1. r \in Record
    BY <1>t, TrackFields
  <2>2. /\ r.pc = rec.pc /\ r.source = rec.source
        /\ r.dataChannel = rec.dataChannel
        /\ r.tracks = rec.tracks \ {x} /\ r.pending = rec.pending \ {x}
        /\ r.requested = rec.requested
        /\ r.needsNegotiation = rec.needsNegotiation
        /\ r.queuedNegotiation = rec.queuedNegotiation /\ r.media = rec.media
    BY <1>t DEF Removed, Record
  <2> QED BY <2>1, <2>2
<1>2. CASE MaybeNegotiateAndUnlock(r, conn, toClient)
  <2> HIDE DEF r
  <2>1. Good(r, conn, toClient, Ahead)
    BY <1>g, <1>1 DEF Good, Heard, Sent
  <2> QED BY <1>t, <1>1, <1>2, <2>1, OtherEnd DEF Works, Leaves
<1>3. /\ n \in Record /\ n.pc = rec.pc /\ n.source = rec.source
      /\ n.dataChannel = rec.dataChannel
      /\ n.tracks = rec.tracks \ {x} /\ n.pending = rec.pending \ {x}
      /\ n.requested = rec.requested /\ n.needsNegotiation
      /\ n.media = rec.media
  <2> HIDE DEF r
  <2> QED BY <1>1 DEF NegotiationNeeded, Record
<1>4. /\ k \in [Pcs -> PeerConnection]
      /\ k[rec.pc].signaling = conn[rec.pc].signaling
      /\ k[rec.pc].failed = conn[rec.pc].failed
      /\ k[rec.pc].peer = conn[rec.pc].peer
  BY <1>t, ChangedConn, ChangedFields
<1> HIDE DEF n, k
<1>5. \A j \in {conn, k} : Good(n, j, toClient, Ahead)
  BY <1>g, <1>3, <1>4 DEF Good, Heard, Sent
<1>6. ASSUME NEW j \in {conn, k}, MaybeNegotiateAndUnlock(n, j, toClient)
      PROVE  ServedInv'
  BY <1>t, <1>3, <1>4, <1>5, <1>6, OtherEnd DEF Works, Leaves
<1> QED BY <1>2, <1>6 DEF RemoveTrack, r, n, k

(* The removal of a track is the last that the worker hears of it.         *)
LEMMA ServedWorker ==
  ASSUME P2PRecordAssumption, TypeOK, PcInv, PumpsInv, Ordered, ServedInv, GoneKept,
         UNCHANGED role, TrackWorker
  PROVE  ServedInv'
<1>t. /\ rec \in Record /\ Works(rec, conn, toClient) /\ role \in Roles
      /\ trackCh \in Seq(Change) /\ trackCh # <<>>
      /\ UNCHANGED <<role, handler, session, clientVars>>
  BY Before DEF TypeOK, TrackWorker, recordEnv
<1>g. /\ Good(rec, conn, toClient, Ahead)
      /\ session = "up" /\ rec.needsNegotiation => Taker(handler', rec.pc)
  BY <1>t DEF ServedInv
<1> DEFINE c == Head(trackCh)
<1>1. c \in Change /\ c = trackCh[1] /\ 1 \in 1..Len(trackCh)
  <2>1. trackCh' = Tail(trackCh)
    BY DEF TrackWorker
  <2> QED BY <1>t, <2>1, AwaitsTail
<1>2. CASE session # "up" /\ UNCHANGED recordVars
  <2>1. Leaves(rec, conn, toClient)
    BY <1>2 DEF Leaves, Leave, recordVars
  <2> QED BY <1>t, <1>g, <2>1, OtherEnd
<1>3. CASE MaybeNegotiateAndUnlock(rec, conn, toClient)
  BY <1>t, <1>g, <1>3, OtherEnd DEF Leaves
<1>4. CASE rec.pc # NoPc /\ c.remove /\ RemoveTrack(c.track)
  <2>1. c.track \in Tracks /\ c = RemovalOf(c.track)
    BY <1>1, <1>4 DEF Change, RemovalOf
  <2>2. pump[c.track] = "done"
    BY <1>1, <2>1 DEF PumpsInv, Awaits
  <2>3. ~Awaits(AddOf(c.track))
    BY <1>t, <1>1, <2>1 DEF Awaits, Ordered
  <2> HIDE DEF c
  <2> QED BY <1>t, <1>4, <2>1, <2>2, <2>3, ServedRemove DEF Gone
<1>5. CASE rec.pc # NoPc /\ ~c.remove /\ AddTrack(c.track)
  <2>1. c.track \in Tracks /\ c = AddOf(c.track)
    BY <1>1, <1>5 DEF Change, AddOf
  <2>2. Awaits(AddOf(c.track))
    BY <1>1, <2>1 DEF Awaits
  <2> HIDE DEF c
  <2> QED BY <1>t, <1>5, <2>1, <2>2, ServedAdd DEF Gone
<1>6. \/ session # "up" /\ UNCHANGED recordVars
      \/ MaybeNegotiateAndUnlock(rec, conn, toClient)
      \/ rec.pc # NoPc /\ c.remove /\ RemoveTrack(c.track)
      \/ rec.pc # NoPc /\ ~c.remove /\ AddTrack(c.track)
  BY DEF TrackWorker
<1> QED BY <1>2, <1>3, <1>4, <1>5, <1>6

(* The callbacks of the peer connections, and what fails.                  *)
LEMMA ServedCallbacks ==
  ASSUME P2PRecordAssumption, TypeOK, PcInv, ServedInv, GoneKept, UNCHANGED role,
         \/ \E p \in Pcs : OnStable(p) \/ Destroy(p) \/ ConnectionFails(p)
         \/ WriteFails
  PROVE  ServedInv'
<1>t. /\ rec \in Record /\ conn \in [Pcs -> PeerConnection] /\ role \in Roles
      /\ toClient \in Seq(ClientMessage) /\ rec.pc \in Pcs \cup {NoPc}
      /\ lastPc \in 0..MaxPc /\ PcOK(rec, conn, lastPc)
      /\ Close(conn, rec.pc) \in [Pcs -> PeerConnection]
      /\ UNCHANGED <<role, handler, session, clientVars>>
  BY Before DEF OnStable, Destroy, ConnectionFails, WriteFails, Fault, otherEnv
<1>g. /\ Good(rec, conn, toClient, Ahead)
      /\ session = "up" /\ rec.needsNegotiation => Taker(handler', rec.pc)
  BY <1>t DEF ServedInv
<1> DEFINE Same(k) ==
      /\ k \in [Pcs -> PeerConnection]
      /\ \A p \in Pcs : /\ k[p].signaling = conn[p].signaling
                        /\ k[p].changed = conn[p].changed
                        /\ k[p].failed = conn[p].failed
                        /\ k[p].peer = conn[p].peer
<1>s. ASSUME NEW k, Same(k)
      PROVE  /\ Good(rec, k, toClient, Ahead)
             /\ Leave(rec, k, toClient) => ServedInv'
             /\ MaybeNegotiateAndUnlock(rec, k, toClient) => ServedInv'
  <2>1. Good(rec, k, toClient, Ahead)
    BY <1>t, <1>g, <1>s, GoodSame
  <2>2. Works(rec, k, toClient)
    BY <1>t, <1>s DEF Works
  <2> HIDE DEF Same
  <2>3. Leave(rec, k, toClient) => Leaves(rec, k, toClient)
    BY <1>g DEF Leaves
  <2>4. MaybeNegotiateAndUnlock(rec, k, toClient) => Leaves(rec, k, toClient)
    BY DEF Leaves
  <2>5. Leaves(rec, k, toClient) => ServedInv'
    BY <1>t, <2>1, <2>2, OtherEnd
  <2> QED BY <2>1, <2>3, <2>4, <2>5
<1>c. ASSUME NEW p \in Pcs, NEW d \in PeerConnection,
             d.signaling = conn[p].signaling, d.changed = conn[p].changed,
             d.failed = conn[p].failed, d.peer = conn[p].peer
      PROVE  Same([conn EXCEPT ![p] = d])
  BY <1>t, <1>c
<1>d. ASSUME NEW p \in Pcs
      PROVE  /\ conn[p].stables > 0 =>
                  Same([conn EXCEPT ![p] = [conn[p] EXCEPT !.stables = conn[p].stables - 1]])
             /\ conn[p].destroys > 0 =>
                  Same([conn EXCEPT ![p] = [conn[p] EXCEPT !.destroys = conn[p].destroys - 1]])
             /\ Same([conn EXCEPT ![p] = [conn[p] EXCEPT !.destroys = conn[p].destroys + 1]])
  <2> DEFINE c == conn[p]
  <2>1. /\ c \in PeerConnection
        /\ c.stables > 0 => [c EXCEPT !.stables = c.stables - 1] \in PeerConnection
        /\ c.destroys > 0 => [c EXCEPT !.destroys = c.destroys - 1] \in PeerConnection
        /\ [c EXCEPT !.destroys = c.destroys + 1] \in PeerConnection
    BY <1>t, ConnTypes, Zenon
  <2> HIDE DEF c
  <2>2. \A n : \A d \in {[c EXCEPT !.stables = n], [c EXCEPT !.destroys = n]} :
          d.signaling = c.signaling /\ d.changed = c.changed /\ d.failed = c.failed
          /\ d.peer = c.peer
    BY <2>1 DEF PeerConnection
  <2>3. ASSUME c.stables > 0
        PROVE  Same([conn EXCEPT ![p] = [c EXCEPT !.stables = c.stables - 1]])
    <3> DEFINE d == [c EXCEPT !.stables = c.stables - 1]
    <3>1. /\ d \in PeerConnection
          /\ d.signaling = c.signaling /\ d.changed = c.changed /\ d.failed = c.failed
          /\ d.peer = c.peer
      BY <2>1, <2>2, <2>3
    <3> HIDE DEF d, Same
    <3>2. Same([conn EXCEPT ![p] = d])
      BY <1>c, <3>1 DEF c
    <3> QED BY <3>2 DEF d
  <2>4. ASSUME c.destroys > 0
        PROVE  Same([conn EXCEPT ![p] = [c EXCEPT !.destroys = c.destroys - 1]])
    <3> DEFINE d == [c EXCEPT !.destroys = c.destroys - 1]
    <3>1. /\ d \in PeerConnection
          /\ d.signaling = c.signaling /\ d.changed = c.changed /\ d.failed = c.failed
          /\ d.peer = c.peer
      BY <2>1, <2>2, <2>4
    <3> HIDE DEF d, Same
    <3>2. Same([conn EXCEPT ![p] = d])
      BY <1>c, <3>1 DEF c
    <3> QED BY <3>2 DEF d
  <2>5. Same([conn EXCEPT ![p] = [c EXCEPT !.destroys = c.destroys + 1]])
    <3> DEFINE d == [c EXCEPT !.destroys = c.destroys + 1]
    <3>1. /\ d \in PeerConnection
          /\ d.signaling = c.signaling /\ d.changed = c.changed /\ d.failed = c.failed
          /\ d.peer = c.peer
      BY <2>1, <2>2
    <3> HIDE DEF d, Same
    <3>2. Same([conn EXCEPT ![p] = d])
      BY <1>c, <3>1 DEF c
    <3> QED BY <3>2 DEF d
  <2> HIDE DEF Same
  <2> QED BY <2>3, <2>4, <2>5 DEF c
<1>1. ASSUME NEW p \in Pcs, OnStable(p) PROVE ServedInv'
  <2> DEFINE k == [conn EXCEPT ![p] = [conn[p] EXCEPT !.stables = conn[p].stables - 1]]
             done == [rec EXCEPT !.isNegotiating = FALSE, !.queuedNegotiation = FALSE,
                                 !.needsNegotiation = rec.needsNegotiation
                                                      \/ rec.queuedNegotiation]
  <2>1. Same(k)
    BY <1>1, <1>d DEF OnStable
  <2>2. k \in [Pcs -> PeerConnection]
    BY <2>1
  <2>3. \/ Leave(rec, k, toClient)
        \/ MaybeNegotiateAndUnlock(rec, k, toClient)
        \/ MaybeNegotiateAndUnlock(done, k, toClient)
    BY <1>1 DEF OnStable
  <2> HIDE DEF k, Same
  <2>4. /\ done.pc = rec.pc /\ done.source = rec.source
        /\ done.dataChannel = rec.dataChannel
        /\ done.tracks = rec.tracks /\ done.pending = rec.pending
        /\ done.requested = rec.requested
        /\ done.needsNegotiation = (rec.needsNegotiation \/ rec.queuedNegotiation)
        /\ done \in Record /\ done.media = rec.media
    BY <1>t DEF Record
  <2> HIDE DEF done
  <2>5. Good(rec, k, toClient, Ahead)
    BY <1>s, <2>1
  <2>6. Good(done, k, toClient, Ahead)
    BY <2>4, <2>5, GoodSame
  <2>7. MaybeNegotiateAndUnlock(done, k, toClient) => ServedInv'
    BY <1>t, <2>2, <2>4, <2>6, OtherEnd DEF Leaves, Works
  <2> QED BY <1>s, <2>1, <2>3, <2>7
<1>2. ASSUME NEW p \in Pcs, Destroy(p) PROVE ServedInv'
  <2> DEFINE k == [conn EXCEPT ![p] = [conn[p] EXCEPT !.destroys = conn[p].destroys - 1]]
  <2>1. Same(k)
    BY <1>2, <1>d DEF Destroy
  <2>2. k \in [Pcs -> PeerConnection]
    BY <2>1
  <2>3. \/ Leave(rec, k, toClient)
        \/ Leave(Reset(rec), Close(k, rec.pc), toClient)
    BY <1>2 DEF Destroy
  <2> HIDE DEF k, Same
  <2>4. Close(k, rec.pc) \in [Pcs -> PeerConnection]
    BY <1>t, <2>2, CloseTypes
  <2>5. Leave(Reset(rec), Close(k, rec.pc), toClient) => ServedInv'
    BY <1>t, <2>4, ResetServed
  <2> QED BY <1>s, <2>1, <2>3, <2>5
<1>3. ASSUME NEW p \in Pcs, ConnectionFails(p) PROVE ServedInv'
  <2> DEFINE k == [conn EXCEPT ![p] = [conn[p] EXCEPT !.destroys = conn[p].destroys + 1]]
  <2>1. Same(k)
    BY <1>d
  <2>2. Leave(rec, k, toClient)
    BY <1>3 DEF ConnectionFails
  <2> HIDE DEF k, Same
  <2> QED BY <1>s, <2>1, <2>2
<1>4. CASE WriteFails
  <2>1. Leave(Reset(rec), Close(conn, rec.pc), toClient)
    BY <1>4 DEF WriteFails
  <2> QED BY <1>t, <2>1, ResetServed
<1> QED BY <1>1, <1>2, <1>3, <1>4

-----------------------------------------------------------------------------
(* The messages of the remote.                                             *)

(* The handler is done, or has the message that was the first.             *)
LEMMA RemoteReceive ==
  ASSUME P2PRecordAssumption, TypeOK, RemoteInv, Receive, UNCHANGED role,
         handler' = Idle \/ handler'.msg = Head(toServer)
  PROVE  RemoteInv'
<1>t. /\ toServer \in Seq(ServerMessage) /\ toServer # <<>> /\ toServer' = Tail(toServer)
      /\ client.pcid \in Nat /\ client' = client /\ session' = session
      /\ Initiator' = Initiator
  BY DEF TypeOK, Receive, Initiator, P2PRecordAssumption
<1>1. /\ Len(toServer) \in Nat /\ Len(toServer') = Len(toServer) - 1
      /\ Head(toServer) = toServer[1] /\ 1 \in 1..Len(toServer)
      /\ \A i \in 1..Len(toServer') :
           i + 1 \in 1..Len(toServer) /\ toServer'[i] = toServer[i + 1]
  BY <1>t, OffersTaken
<1>2. \A i \in 1..Len(toServer) : \A j \in (i + 1)..Len(toServer) :
        j - 1 \in 1..Len(toServer') /\ j - 1 \in i..Len(toServer')
          /\ toServer'[j - 1] = toServer[j]
  <2>1. ASSUME NEW i \in 1..Len(toServer), NEW j \in (i + 1)..Len(toServer)
        PROVE  j - 1 \in 1..Len(toServer') /\ j - 1 \in i..Len(toServer') /\ (j - 1) + 1 = j
    BY <1>1
  <2> QED BY <1>1, <2>1
<1>3. handler'.msg.pcid \leq client'.pcid
  <2>1. handler' = Idle => handler'.msg.pcid = 0
    BY DEF Idle, Message, NoId
  <2> QED BY <1>t, <1>1, <2>1 DEF RemoteInv
<1>4. \A i \in 1..Len(toServer') : toServer'[i].pcid \leq client'.pcid
  BY <1>t, <1>1 DEF RemoteInv
<1>5. ASSUME session = "up", ~Initiator, NEW i \in 1..Len(toServer), toServer[i].type = "offer"
      PROVE  \/ client.owes \/ client.lines \subseteq toServer[i].lines
             \/ \E j \in 1..Len(toServer') : j \in i..Len(toServer') /\ toServer'[j].type = "offer"
  BY <1>2, <1>5 DEF RemoteInv
<1>6. ASSUME session = "up", ~Initiator, Handles(handler')
      PROVE  \/ client'.owes \/ client'.lines \subseteq handler'.msg.lines
             \/ OfferIn(toServer')
  <2>1. handler'.msg = toServer[1] /\ toServer[1].type = "offer"
    BY <1>1, <1>6 DEF Handles, Idle
  <2> QED BY <1>t, <1>1, <1>5, <1>6, <2>1 DEF OfferIn
<1>7. ASSUME session = "up", ~Initiator, NEW i \in 1..Len(toServer'), toServer'[i].type = "offer"
      PROVE  \/ client'.owes \/ client'.lines \subseteq toServer'[i].lines
             \/ \E j \in (i + 1)..Len(toServer') : toServer'[j].type = "offer"
  BY <1>t, <1>1, <1>5, <1>7
<1> QED BY <1>t, <1>3, <1>4, <1>6, <1>7 DEF RemoteInv

LEMMA RemoteHandler ==
  ASSUME P2PRecordAssumption, TypeOK, ServedInv, RemoteInv, UNCHANGED role, Handler
  PROVE  RemoteInv'
<1>t. handler \in [at : HandlerPoint, pc : Pcs \cup {NoPc}, msg : ServerMessage]
  BY DEF TypeOK
<1>1. CASE HandleRenegotiate \/ HandleCandidate \/ HandleTransceiverRequest
  <2>1. Receive /\ handler' = Idle
    BY <1>1 DEF HandleRenegotiate, HandleCandidate, HandleTransceiverRequest, Return
  <2> QED BY <2>1, RemoteReceive
<1>2. CASE HandleSDP
  <2>1. Receive /\ handler'.msg = Head(toServer)
    BY <1>2 DEF HandleSDP
  <2> QED BY <2>1, RemoteReceive
<1>3. CASE \/ UpdateMedia \/ RequestRestart \/ CreateForSDP
           \/ SetRemoteDescription \/ ApplyRemoteDescription \/ Finish
  <2>1. /\ client' = client /\ toServer' = toServer /\ session' = session
        /\ Initiator' = Initiator
    BY <1>3 DEF UpdateMedia, RequestRestart, CreateForSDP, SetRemoteDescription,
                ApplyRemoteDescription, Finish, handlerEnv, clientVars, Initiator
  <2>2. \/ handler' = Idle
        \/ /\ handler.at \in {"media", "create", "remote"} \/ Initiator
           /\ \E at \in HandlerPoint, p \in Nat : Goto(at, p)
        \/ \E p \in Nat : Goto("finish", p)
    <3>1. /\ handler.at = "restart" => Initiator
          /\ handler.pc \in Nat /\ lastPc + 1 \in Nat
      BY <1>t DEF ServedInv, TypeOK, Pcs, NoPc
    <3>2. CASE UpdateMedia
      BY <3>1, <3>2 DEF UpdateMedia, ResetReturn, Replaced, Return, HandlerPoint
    <3>3. CASE RequestRestart
      BY <3>1, <3>3 DEF RequestRestart, HandlerPoint
    <3>4. CASE CreateForSDP
      BY <3>1, <3>4 DEF CreateForSDP, ResetReturn, Replaced, Return, HandlerPoint
    <3>5. CASE SetRemoteDescription
      BY <3>1, <3>5 DEF SetRemoteDescription, ResetReturn, Return, HandlerPoint
    <3>6. CASE ApplyRemoteDescription
      BY <3>1, <3>6 DEF ApplyRemoteDescription, ResetReturn, Replaced, Return
    <3>7. CASE Finish
      BY <3>7 DEF Finish, Return
    <3> QED BY <1>3, <3>2, <3>3, <3>4, <3>5, <3>6, <3>7
  <2>3. \/ handler' = Idle
        \/ /\ handler'.msg = handler.msg
           /\ ~Initiator /\ Handles(handler') => Handles(handler)
    <3>1. \A at, p : Goto(at, p) => handler'.at = at /\ handler'.msg = handler.msg
      BY <1>t DEF Goto
    <3>2. CASE handler.at \in {"media", "create", "remote"} \/ Initiator
      BY <2>2, <3>1, <3>2 DEF Handles
    <3>3. CASE \E p \in Nat : Goto("finish", p)
      BY <3>1, <3>3 DEF Handles
    <3> QED BY <2>2, <3>2, <3>3
  <2>4. handler' = Idle => handler'.msg.pcid = 0 /\ ~Handles(handler')
    BY DEF Idle, Message, NoId, Handles
  <2>5. client.pcid \in Nat
    BY DEF TypeOK
  <2>6. handler'.msg.pcid \leq client'.pcid
    BY <2>1, <2>3, <2>4, <2>5 DEF RemoteInv
  <2>7. ASSUME session = "up", ~Initiator, Handles(handler')
        PROVE  \/ client'.owes \/ client'.lines \subseteq handler'.msg.lines
               \/ OfferIn(toServer')
    BY <2>1, <2>3, <2>4, <2>7 DEF RemoteInv
  <2> QED BY <2>1, <2>6, <2>7 DEF RemoteInv
<1> QED BY <1>1, <1>2, <1>3 DEF Handler

(* The remote knows of new lines only when it owes an offer.               *)
LEMMA RemoteSays ==
  ASSUME P2PRecordAssumption, TypeOK, TypeOK', RemoteInv, UNCHANGED <<role, handler, session>>,
         client.pcid \leq client'.pcid,
         NEW m \in ServerMessage, m.pcid \leq client'.pcid,
         \/ toServer' = toServer
         \/ toServer' = Append(toServer, m),
         \/ toServer' = Append(toServer, m) /\ m.type = "offer" /\ client'.lines \subseteq m.lines
         \/ client'.owes
         \/ m.type # "offer" /\ client'.lines = client.lines /\ client'.owes = client.owes
         \/ Initiator
  PROVE  RemoteInv'
<1>t. /\ toServer \in Seq(ServerMessage) /\ Len(toServer) \in Nat
      /\ client.pcid \in Nat /\ client'.pcid \in Nat
      /\ handler.msg.pcid \in Nat /\ \A i \in 1..Len(toServer) : toServer[i].pcid \in Nat
      /\ Initiator' = Initiator
  <2>1. /\ toServer \in Seq(ServerMessage) /\ client.pcid \in 1..MaxRpc
        /\ client'.pcid \in 1..MaxRpc /\ handler.msg \in ServerMessage
    BY DEF TypeOK
  <2>2. \A n \in ServerMessage : n.pcid \in Nat
    BY DEF ServerMessage
  <2> QED BY <2>1, <2>2 DEF Initiator
<1>1. handler'.msg.pcid \leq client'.pcid
  BY <1>t DEF RemoteInv
<1>2. CASE toServer' = toServer
  <2>1. \A i \in 1..Len(toServer') : toServer'[i].pcid \leq client'.pcid
    BY <1>t, <1>2 DEF RemoteInv
  <2>2. CASE client'.owes \/ Initiator
    BY <1>t, <1>1, <2>1, <2>2 DEF RemoteInv
  <2>3. CASE client'.lines = client.lines /\ client'.owes = client.owes
    BY <1>t, <1>1, <1>2, <2>1, <2>3 DEF RemoteInv
  <2>4. toServer' # Append(toServer, m)
    BY <1>t, <1>2
  <2> QED BY <2>2, <2>3, <2>4
<1>3. CASE toServer' = Append(toServer, m)
  <2> DEFINE l == Len(toServer)
  <2>1. /\ Len(toServer') = l + 1 /\ toServer'[l + 1] = m
        /\ \A i \in 1..l : toServer'[i] = toServer[i] /\ i \in 1..l + 1
        /\ l + 1 \in 1..l + 1
    BY <1>t, <1>3
  <2>2. \A i \in 1..Len(toServer') : i \in 1..l \/ i = l + 1
    BY <1>t, <2>1
  <2>3. \A i \in 1..Len(toServer') : toServer'[i].pcid \leq client'.pcid
    BY <1>t, <2>1, <2>2 DEF RemoteInv
  <2>4. CASE client'.owes \/ Initiator
    BY <1>t, <1>1, <2>3, <2>4 DEF RemoteInv
  <2>5. CASE m.type = "offer" /\ client'.lines \subseteq m.lines
    <3>1. OfferIn(toServer')
      BY <2>1, <2>5 DEF OfferIn
    <3>2. \A i \in 1..l : l + 1 \in (i + 1)..Len(toServer')
      BY <1>t, <2>1
    <3>3. \A i \in 1..Len(toServer') : \/ client'.lines \subseteq toServer'[i].lines
                                      \/ \E j \in (i + 1)..Len(toServer') : toServer'[j].type = "offer"
      BY <2>1, <2>2, <2>5, <3>2
    <3> QED BY <1>1, <2>3, <3>1, <3>3 DEF RemoteInv
  <2>6. CASE m.type # "offer" /\ client'.lines = client.lines /\ client'.owes = client.owes
             /\ ~Initiator
    <3>1. OfferIn(toServer) => OfferIn(toServer')
      BY <1>t, <1>3, OffersAppend
    <3>2. \A i \in 1..l : \A j \in (i + 1)..l : j \in 1..l /\ j \in (i + 1)..Len(toServer')
      BY <1>t, <2>1
    <3>3. ASSUME session = "up", NEW i \in 1..Len(toServer'), toServer'[i].type = "offer"
          PROVE  \/ client'.owes \/ client'.lines \subseteq toServer'[i].lines
                 \/ \E j \in (i + 1)..Len(toServer') : toServer'[j].type = "offer"
      <4>1. i \in 1..l /\ toServer'[i] = toServer[i]
        BY <2>1, <2>2, <2>6, <3>3
      <4>2. \/ client.owes \/ client.lines \subseteq toServer[i].lines
            \/ \E j \in (i + 1)..l : toServer[j].type = "offer"
        BY <2>6, <3>3, <4>1 DEF RemoteInv
      <4> QED BY <2>1, <2>6, <3>2, <4>1, <4>2
    <3>4. session = "up" /\ Handles(handler') =>
            \/ client'.owes \/ client'.lines \subseteq handler'.msg.lines \/ OfferIn(toServer')
      BY <2>6, <3>1 DEF RemoteInv
    <3> QED BY <1>1, <2>3, <3>3, <3>4 DEF RemoteInv
  <2> QED BY <2>4, <2>5, <2>6
<1> QED BY <1>2, <1>3

(* What lies ahead when the remote says m, or nothing: less only when m is *)
(* the offer that it owed.                                                 *)
LEMMA AheadSays ==
  ASSUME TypeOK, UNCHANGED handler, client'.pcid = client.pcid,
         client.lines \subseteq client'.lines, NEW m \in ServerMessage,
         \/ /\ toServer' = toServer \/ toServer' = Append(toServer, m)
            /\ client.owes => client'.owes
         \/ /\ toServer' = Append(toServer, m)
            /\ m.type = "offer" /\ client.lines \subseteq m.lines
  PROVE  /\ Ahead'.pcid = Ahead.pcid
         /\ Ahead.offer => Ahead'.offer
         /\ Ahead.lines \subseteq Ahead'.lines
         /\ Ahead.known \subseteq Ahead'.known
         /\ client'.owes => Ahead'.offer
         /\ client'.owes => \A x \in Tracks \cap client'.lines : x \in Ahead'.lines
<1>1. toServer \in Seq(ServerMessage)
  BY DEF TypeOK
<1>2. /\ OfferIn(toServer) => OfferIn(toServer')
      /\ \A x : Offers(toServer, x) => Offers(toServer', x)
      /\ toServer' = Append(toServer, m) /\ m.type = "offer" =>
           OfferIn(toServer') /\ \A x \in m.lines : Offers(toServer', x)
  BY <1>1, OffersAppend
<1>3. \A x \in client.lines : client.owes => client'.owes \/ Offers(toServer', x)
  BY <1>2
<1>4. client.owes => client'.owes \/ OfferIn(toServer')
  BY <1>2
<1>5. /\ Ahead.pcid = client.pcid /\ Ahead'.pcid = client'.pcid
      /\ Ahead.known = client.lines /\ Ahead'.known = client'.lines
      /\ Ahead.offer = (client.owes \/ OfferIn(toServer) \/ Handles(handler))
      /\ Ahead'.offer = (client'.owes \/ OfferIn(toServer') \/ Handles(handler))
      /\ Ahead.lines = {x \in Tracks : \/ client.owes /\ x \in client.lines
                                       \/ Offers(toServer, x)
                                       \/ Handles(handler) /\ x \in handler.msg.lines}
      /\ Ahead'.lines = {x \in Tracks : \/ client'.owes /\ x \in client'.lines
                                        \/ Offers(toServer', x)
                                        \/ Handles(handler) /\ x \in handler.msg.lines}
  BY DEF Ahead, AheadOf, Tracks
<1> QED BY <1>2, <1>3, <1>4, <1>5

(* The remote, the source's record and the session.                        *)
LEMMA ServedOther ==
  ASSUME P2PRecordAssumption, TypeOK, TypeOK', ServedInv, RemoteInv, GoneKept, UNCHANGED role,
         \/ Remote \/ ClientExtra \/ ClientRestart \/ SessionEnds
         \/ SourceReset \/ \E x \in Tracks : OnTrack(x) \/ PumpStep(x) \/ PumpEnds(x)
  PROVE  ServedInv' /\ RemoteInv'
<1>t. /\ rec \in Record /\ conn \in [Pcs -> PeerConnection] /\ role \in Roles
      /\ toClient \in Seq(ClientMessage) /\ toClient' \in Seq(ClientMessage)
      /\ toServer \in Seq(ServerMessage)
      /\ client.pcid \in 1..MaxRpc /\ client.pcid \in Nat
      /\ client.lines \in SUBSET Tracks
      /\ MaxRpc \in Nat
      /\ client \in [pcid : 1..MaxRpc, owes : BOOLEAN, awaits : BOOLEAN, extra : BOOLEAN,
                     lines : SUBSET Tracks]
  BY DEF TypeOK, P2PRecordAssumption
<1>i. /\ Good(rec, conn, toClient, Ahead)
      /\ Initiator' = Initiator /\ Codec' = Codec
  BY DEF ServedInv, Initiator, Codec
<1>g. ASSUME UNCHANGED <<rec, conn, handler, session>>, Good(rec, conn, toClient', Ahead')
      PROVE  ServedInv'
  <2>1. Leaves(rec, conn, toClient') /\ Works(rec, conn, toClient')
    BY <1>t, <1>g DEF ServedInv, Leaves, Leave, Works
  <2>2. MediaOK(handler', rec)
    BY <1>g DEF ServedInv
  <2> QED BY <1>t, <1>g, <2>1, <2>2, EndServed DEF ServedInv
<1>m. ASSUME UNCHANGED <<rec, conn, handler, session>>,
             More(toClient, Ahead, toClient', Ahead')
      PROVE  ServedInv'
  <2>1. Good(rec, conn, toClient', Ahead')
    BY <1>t, <1>i, <1>m, GoodMore
  <2> QED BY <1>g, <1>m, <2>1
<1>a. \A i \in 0..MaxRpc, t \in {"renegotiate", "noop", "candidate", "transceiver"} :
        /\ Message(t, i) \in ServerMessage
        /\ Message(t, i).type = t /\ Message(t, i).pcid = i
  BY DEF Message, ServerMessage
<1>p. client.pcid \in 0..MaxRpc /\ client.pcid \leq client.pcid
  BY <1>t
<1>1. CASE ClientReceive
  <2> DEFINE h == Head(toClient)
             m == Message("answer", client.pcid)
  <2>1. /\ toClient # <<>> /\ toClient' = Tail(toClient)
        /\ UNCHANGED <<rec, conn, handler, session>>
        /\ client'.owes = (client.owes \/ h.type \in {"renegotiate", "transceiver"})
        /\ client'.pcid = client.pcid
        /\ client'.lines = IF Codec THEN client.lines \cup h.tracks ELSE client.lines
        /\ toServer' = toServer \/ toServer' = Append(toServer, m)
    BY <1>t, <1>1 DEF ClientReceive, clientEnv
  <2>2. m \in ServerMessage /\ m.type = "answer" /\ m.pcid = client.pcid
    BY <1>p DEF Message, ServerMessage
  <2>3. h \in ClientMessage
    BY <1>t, <2>1
  <2>4. /\ h.tracks \subseteq Tracks
        /\ h.type # "transceiver" => h.tracks = {}
    BY <2>3 DEF ClientMessage
  <2>h. /\ Requests(toClient) => \/ h.type \in {"renegotiate", "transceiver"}
                                 \/ Requests(toClient')
        /\ \A x : Asks(toClient, x) => \/ h.type = "transceiver" /\ x \in h.tracks
                                       \/ Asks(toClient', x)
    BY <1>t, <2>1, RequestsTaken
  <2> HIDE DEF h, m
  <2>5. /\ Ahead'.pcid = Ahead.pcid
        /\ Ahead.offer => Ahead'.offer
        /\ Ahead.lines \subseteq Ahead'.lines
        /\ Ahead.known \subseteq Ahead'.known
        /\ client'.owes => Ahead'.offer
        /\ client'.owes => \A x \in Tracks \cap client'.lines : x \in Ahead'.lines
    BY <2>1, <2>2, AheadSays
  <2>6. /\ Requests(toClient) => Requests(toClient') \/ Ahead'.offer
        /\ Codec => \A x \in Tracks : Asks(toClient, x) =>
                      \/ Asks(toClient', x)
                      \/ x \in Ahead'.lines /\ x \in client'.lines
    BY <2>1, <2>h, <2>5
  <2>7. Ahead'.known = client'.lines
    BY DEF Ahead, AheadOf
  <2>8. More(toClient, Ahead, toClient', Ahead')
    BY <2>5, <2>6, <2>7 DEF More
  <2>9. client'.owes \/ client'.lines = client.lines
    BY <2>1, <2>4
  <2>10. client'.owes \/ client'.owes = client.owes
    BY <1>t, <2>1
  <2>11. RemoteInv'
    BY <1>p, <2>1, <2>2, <2>9, <2>10, RemoteSays
  <2> QED BY <1>m, <2>1, <2>8, <2>11
<1>2. CASE ClientOffer
  <2> DEFINE m == [Message("offer", client.pcid) EXCEPT !.lines = client.lines]
  <2>1. /\ toServer' = Append(toServer, m)
        /\ UNCHANGED <<rec, conn, handler, session, toClient>>
        /\ client'.pcid = client.pcid /\ client'.lines = client.lines
    BY <1>t, <1>2 DEF ClientOffer, clientEnv
  <2>2. m \in ServerMessage /\ m.type = "offer" /\ m.pcid = client.pcid /\ m.lines = client.lines
    BY <1>p, <1>t DEF Message, ServerMessage
  <2> HIDE DEF m
  <2>3. /\ Ahead'.pcid = Ahead.pcid
        /\ Ahead.offer => Ahead'.offer
        /\ Ahead.lines \subseteq Ahead'.lines
        /\ Ahead.known \subseteq Ahead'.known
    BY <2>1, <2>2, AheadSays
  <2>4. More(toClient, Ahead, toClient', Ahead')
    BY <2>1, <2>3 DEF More
  <2>5. RemoteInv'
    BY <1>p, <2>1, <2>2, RemoteSays
  <2> QED BY <1>m, <2>1, <2>4, <2>5
<1>3. CASE ClientExtra
  <2>1. /\ client'.owes = client.owes /\ client'.pcid = client.pcid
        /\ client'.lines = client.lines
        /\ UNCHANGED <<rec, conn, handler, session, toClient>>
        /\ \E t \in {"candidate", "renegotiate", "transceiver"} :
             toServer' = Append(toServer, Message(t, client.pcid))
    BY <1>t, <1>3 DEF ClientExtra, clientEnv
  <2>2. PICK m \in ServerMessage : /\ toServer' = Append(toServer, m)
                                   /\ m.type # "offer" /\ m.pcid = client.pcid
    <3>1. PICK t \in {"candidate", "renegotiate", "transceiver"} :
            toServer' = Append(toServer, Message(t, client.pcid))
      BY <2>1
    <3>2. /\ Message(t, client.pcid) \in ServerMessage
          /\ Message(t, client.pcid).type # "offer"
          /\ Message(t, client.pcid).pcid = client.pcid
      BY <1>a, <1>p
    <3> QED BY <3>1, <3>2
  <2>3. /\ Ahead'.pcid = Ahead.pcid
        /\ Ahead.offer => Ahead'.offer
        /\ Ahead.lines \subseteq Ahead'.lines
        /\ Ahead.known \subseteq Ahead'.known
    BY <2>1, <2>2, AheadSays
  <2>4. More(toClient, Ahead, toClient', Ahead')
    BY <2>1, <2>3 DEF More
  <2>5. RemoteInv'
    BY <1>p, <2>1, <2>2, RemoteSays
  <2> QED BY <1>m, <2>1, <2>4, <2>5
<1>4. CASE ClientRestart
  <2>1. /\ client'.owes = ~Initiator /\ client'.pcid = client.pcid + 1
        /\ client'.pcid \in 0..MaxRpc
        /\ UNCHANGED <<rec, conn, handler, session, toClient>>
        /\ \/ ~Initiator /\ toServer' = toServer
           \/ /\ Initiator
              /\ \E t \in {"renegotiate", "noop"} :
                   toServer' = Append(toServer, Message(t, client.pcid + 1))
    BY <1>t, <1>4 DEF ClientRestart, clientEnv
  <2>p. client.pcid + 1 \in 0..MaxRpc
    BY <2>1
  <2>2. Ahead.pcid = client.pcid /\ Ahead'.pcid = client.pcid + 1
    BY <2>1 DEF Ahead, AheadOf
  <2>3. Good(rec, conn, toClient', Ahead')
    <3>1. rec.pc # NoPc => /\ conn[rec.pc].peer \leq client.pcid
                           /\ conn[rec.pc].peer \in Nat
      BY <1>t, <1>i, <2>2 DEF Good, Record, PeerConnection
    <3>2. rec.pc # NoPc => /\ conn[rec.pc].peer # Ahead'.pcid
                           /\ conn[rec.pc].peer \leq Ahead'.pcid
      BY <1>t, <2>2, <3>1
    <3>3. session = "up" => Heard(rec, conn, toClient, Ahead')
      BY <1>i, <3>2 DEF Good, Heard
    <3> QED BY <1>i, <2>1, <3>2, <3>3 DEF Good
  <2>4. PICK m \in ServerMessage :
          /\ toServer' = toServer \/ toServer' = Append(toServer, m)
          /\ m.pcid = client.pcid + 1
    <3>1. CASE toServer' = toServer
      <4>1. Message("noop", client.pcid + 1) \in ServerMessage
            /\ Message("noop", client.pcid + 1).pcid = client.pcid + 1
        BY <1>a, <2>p
      <4> QED BY <3>1, <4>1
    <3>2. ASSUME NEW t \in {"renegotiate", "noop"},
                 toServer' = Append(toServer, Message(t, client.pcid + 1))
          PROVE  \E m \in ServerMessage :
                    toServer' = Append(toServer, m) /\ m.pcid = client.pcid + 1
      <4>1. Message(t, client.pcid + 1) \in ServerMessage
            /\ Message(t, client.pcid + 1).pcid = client.pcid + 1
        BY <1>a, <2>p
      <4> QED BY <3>2, <4>1
    <3> QED BY <2>1, <3>1, <3>2
  <2>5. client.pcid \leq client'.pcid /\ m.pcid \leq client'.pcid
    BY <1>t, <2>1, <2>4
  <2>6. RemoteInv'
    BY <2>1, <2>4, <2>5, RemoteSays
  <2> QED BY <1>g, <2>1, <2>3, <2>6
<1>5. CASE SessionEnds
  <2>1. session' # "up" /\ UNCHANGED <<rec, conn, handler, client>> /\ toServer' = <<>>
    <3>1. session \in Session /\ session' \in Later[session]
      BY <1>5 DEF SessionEnds, TypeOK
    <3>2. session' # "up"
      BY <3>1 DEF Later, Session
    <3> QED BY <1>5, <3>2 DEF SessionEnds
  <2>2. /\ rec.source => rec.dataChannel
        /\ rec.pc # NoPc => conn[rec.pc].peer \leq Ahead'.pcid
        /\ Initiator \/ Codec \/ rec.tracks = {}
        /\ \A x \in rec.requested : x \in Sent(rec) \/ Gone(x)
        /\ rec.requested \subseteq Tracks
    BY <1>t, <1>i, <2>1 DEF Good, Record, Ahead, AheadOf
  <2>3. Good(rec, conn, toClient, Ahead)'
    BY <1>i, <2>1, <2>2 DEF Good, GoneKept, Sent
  <2>4. MediaOK(handler, rec)'
    BY <1>i, <2>1 DEF MediaOK, ServedInv
  <2>5. RemoteInv'
    BY <2>1 DEF RemoteInv
  <2> QED BY <1>i, <2>1, <2>3, <2>4, <2>5 DEF ServedInv
<1>6. ASSUME UNCHANGED <<recordVars, recordEnv>>
      PROVE  ServedInv' /\ RemoteInv'
  <2>1. UNCHANGED <<rec, conn, handler, session, toClient, toServer, client>>
    BY <1>6 DEF recordVars, recordEnv, clientVars
  <2>2. Ahead' = Ahead
    BY <2>1 DEF Ahead
  <2>3. RemoteInv'
    BY <1>i, <2>1 DEF RemoteInv
  <2> QED BY <1>i, <1>g, <2>1, <2>2, <2>3
<1>7. CASE SourceReset \/ \E x \in Tracks : OnTrack(x) \/ PumpStep(x) \/ PumpEnds(x)
  BY <1>6, <1>7 DEF SourceReset, OnTrack, PumpStep, PumpAnnounces, PumpRemoves, PumpEnds
<1> QED BY <1>1, <1>2, <1>3, <1>4, <1>5, <1>7 DEF Remote

LEMMA ServedInit ==
  ASSUME P2PRecordAssumption, Init
  PROVE  Ordered /\ RemoteInv /\ ServedInv
<1>1. /\ rec.pc = NoPc /\ rec.requested = {} /\ ~rec.needsNegotiation /\ rec.dataChannel
      /\ rec.tracks = {} /\ handler.at = "idle" /\ handler.msg.pcid = 0 /\ trackCh = <<>>
      /\ client.pcid = 1
      /\ toServer = <<>> \/ (toServer = <<Message("renegotiate", 1)>> /\ Initiator)
  <2>1. rec.pc = NoPc /\ rec.requested = {} /\ ~rec.needsNegotiation /\ rec.dataChannel
        /\ rec.tracks = {}
    BY DEF Init, NewRecord
  <2>2. handler.at = "idle" /\ handler.msg.pcid = 0 /\ trackCh = <<>>
    BY DEF Init, Idle, Message, NoId
  <2>3. client.pcid = 1
    BY DEF Init
  <2>4. toServer = <<>> \/ (toServer = <<Message("renegotiate", 1)>> /\ Initiator)
    BY DEF Init
  <2> QED BY <2>1, <2>2, <2>3, <2>4
<1>2. Ordered
  BY <1>1 DEF Ordered
<1>3. Good(rec, conn, toClient, Ahead)
  BY <1>1, GoodNone
<1>4. RemoteInv
  <2>1. CASE toServer = <<>>
    BY <1>1, <2>1 DEF RemoteInv, Handles
  <2>2. CASE toServer = <<Message("renegotiate", 1)>> /\ Initiator
    BY <1>1, <2>2 DEF RemoteInv, Message
  <2> QED BY <1>1, <2>1, <2>2
<1> QED BY <1>1, <1>2, <1>3, <1>4 DEF ServedInv, MediaOK

LEMMA ServedNext ==
  ASSUME P2PRecordAssumption, TypeOK, PcInv, FollowsInv, Ordered, RemoteInv, ServedInv,
         [Next]_vars
  PROVE  Ordered' /\ RemoteInv' /\ ServedInv'
<1>t. RestOK /\ PumpsInv /\ TypeOK'
  BY TypesSplit, NextTypes DEF FollowsInv
<1>1. Ordered'
  BY <1>t, OrderedNext
<1>2. CASE Next
  <2>1. GoneKept
    BY <1>t, <1>2, GoneStays DEF GoneKept
  <2>2. UNCHANGED role
    BY <1>2 DEF Next
  <2>r. ASSUME UNCHANGED <<handler, session, toServer, client>>
        PROVE  RemoteInv'
    BY <2>2, <2>r DEF RemoteInv, Initiator
  <2>3. CASE Handler
    BY <1>1, <2>1, <2>2, <2>3, ServedHandler, RemoteHandler
  <2>4. CASE TrackWorker
    <3>1. UNCHANGED <<handler, session, toServer, client>>
      BY <2>4 DEF TrackWorker, recordEnv, clientVars
    <3>2. RemoteInv'
      BY <2>r, <3>1
    <3> QED BY <1>t, <1>1, <2>1, <2>2, <2>4, <3>2, ServedWorker
  <2>5. CASE \/ \E p \in Pcs : OnStable(p) \/ Destroy(p) \/ ConnectionFails(p)
             \/ WriteFails
    <3>1. UNCHANGED <<handler, session, toServer, client>>
      BY <2>5 DEF OnStable, Destroy, ConnectionFails, WriteFails, Fault, otherEnv, clientVars
    <3>2. RemoteInv'
      BY <2>r, <3>1
    <3> QED BY <1>1, <2>1, <2>2, <2>5, <3>2, ServedCallbacks
  <2>6. CASE \/ Remote \/ ClientExtra \/ ClientRestart \/ SessionEnds
             \/ SourceReset \/ \E x \in Tracks : OnTrack(x) \/ PumpStep(x) \/ PumpEnds(x)
    BY <1>t, <1>1, <2>1, <2>2, <2>6, ServedOther
  <2>7. \/ Handler \/ TrackWorker
        \/ \E p \in Pcs : OnStable(p) \/ Destroy(p) \/ ConnectionFails(p)
        \/ WriteFails \/ Remote \/ ClientExtra \/ ClientRestart \/ SessionEnds
        \/ SourceReset \/ \E x \in Tracks : OnTrack(x) \/ PumpStep(x) \/ PumpEnds(x)
    BY <1>2 DEF Next
  <2> QED BY <2>3, <2>4, <2>5, <2>6, <2>7
<1>3. CASE UNCHANGED vars
  <2>1. UNCHANGED <<role, rec, conn, toClient, handler, session, toServer, client, pump, trackCh>>
    BY <1>3 DEF vars, recordVars, clientVars, sourceVars
  <2>2. Ahead' = Ahead /\ Initiator' = Initiator /\ Codec' = Codec
    BY <2>1 DEF Ahead, Initiator, Codec
  <2>3. Good(rec, conn, toClient, Ahead)'
    BY <2>1, <2>2 DEF ServedInv, Good, Heard, Gone, Awaits, Requests, Asks, Sent
  <2>4. ServedInv' /\ RemoteInv'
    BY <2>1, <2>2, <2>3 DEF ServedInv, RemoteInv, Taker, MediaOK
  <2> QED BY <1>1, <2>4
<1> QED BY <1>1, <1>2, <1>3

(* No change of the tracks is lost on a record that negotiates over a data *)
(* channel, whatever messages, callbacks, resets and changes of the source *)
(* come in between: the handler is about to take up the request for it, or *)
(* that is queued, or the remote has been asked or its offer is on its     *)
(* way, until a description has the change.  And a track that waits for    *)
(* its transceiver and its codec does not wait in vain, if the remote has  *)
(* the codec: it has been asked for the line, owes an offer with it, or    *)
(* that is on its way or in the handler's hands.                           *)
THEOREM UpdatesAreServed == Spec => []NoLostUpdate
<1>a. P2PRecordAssumption
  BY P2PRecordAssumption
<1> DEFINE IInv == TypeOK /\ PcInv /\ FollowsInv /\ Ordered /\ RemoteInv /\ ServedInv
<1>1. Init => IInv
  BY <1>a, InitTypes, FollowsInit, ServedInit
<1>2. IInv /\ [Next]_vars => IInv'
  BY <1>a, NextTypes, FollowsNext, ServedNext
<1>3. IInv => NoLostUpdate
  <2> SUFFICES ASSUME IInv, Sends, session = "up", ~conn[rec.pc].failed, Paired
               PROVE  /\ conn[rec.pc].changed =>
                           \/ rec.needsNegotiation /\ handler.at = "finish"
                           \/ rec.queuedNegotiation
                           \/ ~Initiator /\ RemoteAsked
                      /\ Codec /\ ~Initiator =>
                           \A x \in rec.pending \ rec.tracks : LineComes(x)
    BY DEF NoLostUpdate
  <2>d. /\ DOMAIN toClient = 1..Len(toClient) /\ DOMAIN toServer = 1..Len(toServer)
        /\ rec.pending \subseteq Tracks
    BY DEF TypeOK, Record
  <2>h. Heard(rec, conn, toClient, Ahead) /\ Ahead.pcid = client.pcid
    BY DEF ServedInv, Good, Ahead, AheadOf
  <2>1. Requests(toClient) \/ Ahead.offer => RemoteAsked
    BY <2>d DEF RemoteAsked, Requests, Ahead, AheadOf, OfferIn, Handles
  <2>2. \A x : Asks(toClient, x) \/ x \in Ahead.lines => LineComes(x)
    <3>1. \A x : Asks(toClient, x) => LineComes(x)
      BY <2>d DEF LineComes, Asks
    <3>2. \A x : x \in Ahead.lines => \/ client.owes /\ x \in client.lines
                                      \/ Offers(toServer, x)
                                      \/ Handles(handler) /\ x \in handler.msg.lines
      BY DEF Ahead, AheadOf
    <3>3. \A x : x \in Ahead.lines => LineComes(x)
      BY <2>d, <3>2 DEF LineComes, Offers, Handles
    <3> QED BY <3>1, <3>3
  <2>3. /\ conn[rec.pc].changed => \/ rec.needsNegotiation \/ rec.queuedNegotiation
                                   \/ ~Initiator /\ (Requests(toClient) \/ Ahead.offer)
        /\ Codec /\ ~Initiator =>
             \A x \in rec.pending \ rec.tracks : Asks(toClient, x) \/ x \in Ahead.lines
    BY <2>h DEF Heard, Sends, Paired
  <2>4. rec.needsNegotiation => handler.at = "finish"
    BY DEF ServedInv, PcInv, Taker, Sends
  <2> QED BY <2>1, <2>2, <2>3, <2>4
<1> QED BY <1>1, <1>2, <1>3, PTL DEF Spec
=============================================================================
