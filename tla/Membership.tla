----------------------------- MODULE Membership -----------------------------
(***************************************************************************)
(* The users of a channel and what becomes of their connections when they  *)
(* leave, come back or are thrown out (channel.go, userrecord.go,          *)
(* connectionrecord.go).                                                   *)
(*                                                                         *)
(* channel.connections has one UserRecord per id.  A UserRecord has one    *)
(* ConnectionRecord for the pipeline, its default sender, and one for each *)
(* user it has spoken to.  A record outlives its place in these maps: the  *)
(* readPump, the goroutine of UserRecord.close and the callbacks of a peer *)
(* connection go on with a record they looked up before.  Records and peer *)
(* connections are numbered as they are made; 0 is nil.                    *)
(*                                                                         *)
(* A step is a critical section of a record's lock or one operation on a   *)
(* concurrent map.  The section in which destroy takes a user out of the   *)
(* channel, closes it and resets the record is one step.  What a message   *)
(* does to a record beyond its pc is in Negotiation, the tracks are in     *)
(* Forwarding; the locks inside the maps are not modelled.                 *)
(***************************************************************************)
EXTENDS Naturals, Sequences, FiniteSets

CONSTANTS
  Users,        \* ids of users
  Pipeline,     \* the id of the channel's pipeline
  Initiators,   \* <<owner, target>>: the bridge makes the offers
  Joins,        \* bound: how often each user comes
  StopUsers,    \* bound: how many have come when the channel is stopped
  MaxConns,     \* bound: connection records
  MaxPcs        \* bound: peer connections

ASSUME MembershipAssumption ==
  /\ Pipeline \notin Users
  /\ Initiators \subseteq Users \X (Users \cup {Pipeline})
  /\ Joins \in [Users -> Nat]
  /\ StopUsers \in Nat
  /\ MaxConns \in Nat
  /\ MaxPcs \in Nat

Nil == 0
Peers == Users \cup {Pipeline}

VARIABLES
  members,  \* channel.connections
  user,     \* the user records
  cr,       \* the connection records
  pc,       \* the peer connections
  closer,   \* the goroutines of UserRecord.close
  handler,  \* the message the readPump handles
  stop      \* how far Channel.Stop is

vars == <<members, user, cr, pc, closer, handler, stop>>

(* The records there are: no pointer of one leads to none, but for Nil.    *)
UserRecords == DOMAIN user
ConnRecords == DOMAIN cr
Pcs == DOMAIN pc

(* publishers["default"] is default, connections are links.                 *)
User == [id : Users, closed : BOOLEAN, default : ConnRecords,
         links : [Users -> ConnRecords \cup {Nil}]]
Connection == [owner : UserRecords, peer : Peers, pc : Pcs \cup {Nil},
               bound : UserRecords \cup {Nil}]
(* connected: both descriptions are set and ICE does the rest.  destroys:  *)
(* a callback has been started that calls destroy. orphan: history, it was *)
(* made for a record that was already out of the maps of an open user.     *)
PeerConnection ==
  [cr : ConnRecords, state : {"new", "connected", "closed"},
   destroys : BOOLEAN, orphan : BOOLEAN]
Handler ==
  [at : {"idle", "ended", "found", "lock", "sdp", "resurrect", "revive"},
   source : UserRecords \cup {Nil}, target : Peers,
   cr : ConnRecords \cup {Nil}, pc : Pcs \cup {Nil}]

TypeOK ==
  /\ members \in [Users -> UserRecords \cup {Nil}]
  /\ user \in Seq(User)
  /\ cr \in Seq(Connection) /\ Len(cr) <= MaxConns
  /\ pc \in Seq(PeerConnection) /\ Len(pc) <= MaxPcs
  /\ DOMAIN closer = DOMAIN user
  /\ \A u \in DOMAIN closer :
       closer[u] \in [at : {"none", "own", "others"},
                      own : SUBSET Peers, others : SUBSET UserRecords]
  /\ handler \in Handler
  /\ stop \in {"no", "users", "closed"}

ChannelClosed == stop = "closed"
WsUp == stop = "no"                \* Close cancels wsCtx before Stop
Initiates(c) == <<user[cr[c].owner].id, cr[c].peer>> \in Initiators
Closed(u) == user[u].closed
Idle == [at |-> "idle", source |-> Nil, target |-> Pipeline, cr |-> Nil, pc |-> Nil]
Ended == [Idle EXCEPT !.at = "ended"]
Done == IF WsUp THEN Idle ELSE Ended   \* with the message
Listed(c) ==
  LET u == user[cr[c].owner] IN
  IF cr[c].peer = Pipeline THEN u.default = c ELSE u.links[cr[c].peer] = c
Open(p) == p # Nil /\ pc[p].state # "closed"

-----------------------------------------------------------------------------
(* Operations on the records. *)

(* pc.Close: the callbacks of the ICE state and of the connection state    *)
(* call destroy, which the second time finds what it left.                 *)
Close(k, p) ==
  IF p = Nil \/ k[p].state = "closed" THEN k
  ELSE [k EXCEPT ![p].state = "closed", ![p].destroys = ~ChannelClosed]

(* reset.                                                                  *)
Emptied(c) == [cr EXCEPT ![c].pc = Nil, ![c].bound = Nil]
Reset(c) == cr' = Emptied(c) /\ pc' = Close(pc, cr[c].pc)

(* createPeerConnection, after the pcs k: its record may have no place any *)
(* more, it does not look.                                                 *)
NewPeerConnection(c, state) ==
  [cr |-> c, state |-> state, destroys |-> FALSE,
   orphan |-> Closed(cr[c].owner) \/ ~Listed(c)]
Create(c, k, state) ==
  /\ Len(k) < MaxPcs
  /\ pc' = Append(k, NewPeerConnection(c, state))
  /\ cr' = [cr EXCEPT ![c].pc = Len(k) + 1]

(* UserRecord.close, of those of U that are open.                          *)
CloseUsers(U) ==
  LET open == {u \in U : ~Closed(u)} IN
  /\ user' = [u \in DOMAIN user |->
                [user[u] EXCEPT !.closed = user[u].closed \/ u \in open]]
  /\ closer' = [u \in DOMAIN closer |->
                  IF u \in open THEN [at |-> "own", own |-> Peers \ {user[u].id}, others |-> {}]
                  ELSE closer[u]]

MemberRecords == {members[i] : i \in Users} \ {Nil}

-----------------------------------------------------------------------------
(* The readPump: handleWebRTCSignalMessage and handleWebRTCHangupMessage.  *)

(* Mutant: a user without a default sender.                                *)
NewUserBare(i) ==
  [id |-> i, closed |-> FALSE, default |-> Nil, links |-> [j \in Users |-> Nil]]

NewUser(i) ==
  [id |-> i, closed |-> FALSE, default |-> Len(cr) + 1,
   links |-> [j \in Users |-> Nil]]
NewConnection(u, t) == [owner |-> u, peer |-> t, pc |-> Nil, bound |-> Nil]
NoCloser == [at |-> "none", own |-> {}, others |-> {}]

(* The source of a message: a new user, with a default sender, unless it   *)
(* is in the channel.                                                      *)
Join(i, t) ==
  /\ members[i] = Nil
  /\ Cardinality({u \in DOMAIN user : user[u].id = i}) < Joins[i]
  /\ Len(cr) < MaxConns
  /\ user' = Append(user, NewUser(i))
  /\ cr' = Append(cr, NewConnection(Len(user) + 1, Pipeline))
  /\ closer' = Append(closer, NoCloser)
  /\ members' = [members EXCEPT ![i] = Len(user) + 1]
  /\ handler' = [Idle EXCEPT !.at = "found", !.source = Len(user) + 1, !.target = t]
  /\ UNCHANGED <<pc, stop>>
Rejoin(i, t) ==
  /\ members[i] # Nil /\ ~Closed(members[i])
  /\ handler' = [Idle EXCEPT !.at = "found", !.source = members[i], !.target = t]
  /\ UNCHANGED <<members, user, cr, closer, pc, stop>>
FindSource ==
  /\ handler = Idle
  /\ \E i \in Users : \E t \in Peers \ {i} : Join(i, t) \/ Rejoin(i, t)

(* The record the message is for, a new one for a new target.  A closed    *)
(* owner ends it, as does a closed channel.                                *)
FoundRecord(c) ==
  handler' = IF Closed(handler.source) \/ ChannelClosed THEN Done
             ELSE [handler EXCEPT !.at = "lock", !.cr = c]
FindRecord ==
  /\ handler.at = "found"
  /\ LET u == handler.source
         c == IF handler.target = Pipeline THEN user[u].default
              ELSE user[u].links[handler.target]
     IN \/ c # Nil /\ FoundRecord(c) /\ UNCHANGED <<user, cr>>
        \/ /\ c = Nil /\ Len(cr) < MaxConns
           /\ cr' = Append(cr, NewConnection(u, handler.target))
           /\ user' = [user EXCEPT ![u].links[handler.target] = Len(cr) + 1]
           /\ FoundRecord(Len(cr) + 1)
  /\ UNCHANGED <<members, pc, closer, stop>>

(* The first critical section.  The pcid of the message may not be the one *)
(* the peer connection was made with, which clears it.  What follows is    *)
(* nothing or an error, the reset of the record, a renegotiate request     *)
(* that makes a peer connection, or an SDP, for which the lock is given    *)
(* up: pc stays what it was when the message came.                         *)
Ignored(c, k, r) == pc' = k /\ cr' = r /\ handler' = Done
Renegotiate(c, k, r) ==
  /\ Initiates(c) /\ r[c].pc = Nil
  /\ Create(c, k, "new")
  /\ handler' = Done
GotSDP(c, k, r) ==
  /\ pc' = k /\ cr' = r
  /\ handler' = [handler EXCEPT !.at = "sdp", !.pc = cr[c].pc]
HandleRecord ==
  /\ handler.at = "lock"
  /\ LET c == handler.cr
     IN \/ /\ \E clear \in BOOLEAN :
                LET k == IF clear THEN Close(pc, cr[c].pc) ELSE pc
                    r == IF clear THEN [cr EXCEPT ![c].pc = Nil] ELSE cr
                IN Ignored(c, k, r) \/ Renegotiate(c, k, r) \/ GotSDP(c, k, r)
        \/ Reset(c) /\ handler' = Done
  /\ UNCHANGED <<members, user, closer, stop>>

(* The SDP, without a peer connection: one is made, as no one else makes   *)
(* any meanwhile.  The bridge ignores the SDP if it is to make the offers. *)
SDPCreates ==
  /\ handler.at = "sdp" /\ handler.pc = Nil
  /\ LET c == handler.cr
     IN /\ Create(c, pc, "new")
        /\ handler' = IF Initiates(c) THEN Done
                      ELSE [handler EXCEPT !.pc = Len(pc) + 1]
  /\ UNCHANGED <<members, user, closer, stop>>

(* The SDP for the captured peer connection: an answer of the remote, or   *)
(* an offer, which the bridge answers, which fails without the websocket.  *)
(* A replaced peer connection is left alone.                               *)
SDPApplies ==
  /\ handler.at = "sdp" /\ handler.pc # Nil
  /\ LET p == handler.pc
         c == handler.cr
     IN \/ /\ pc[p].state # "closed"
           /\ Initiates(c) \/ WsUp
           /\ pc' = IF pc[p].state = "new" /\ cr[c].pc = p
                    THEN [pc EXCEPT ![p].state = "connected"] ELSE pc
           /\ UNCHANGED cr
           /\ handler' = IF handler.target = Pipeline THEN Done
                         ELSE [handler EXCEPT !.at = "resurrect"]
        \/ Reset(c) /\ handler' = Done
  /\ UNCHANGED <<members, user, closer, stop>>

(* Afterwards the other direction is seen to, if the target is there and   *)
(* has a record for the source.                                            *)
Resurrect ==
  /\ handler.at = "resurrect"
  /\ LET v == members[handler.target]
         c == user[v].links[user[handler.source].id]
     IN handler' = IF v = Nil THEN Done
                   ELSE IF Closed(v) \/ c = Nil THEN Done
                   ELSE [handler EXCEPT !.at = "revive", !.cr = c]
  /\ UNCHANGED <<members, user, cr, pc, closer, stop>>
Revive ==
  /\ handler.at = "revive"
  /\ LET c == handler.cr
     IN IF ~ChannelClosed /\ cr[c].pc = Nil /\ Initiates(c)
        THEN Create(c, pc, "new")
        ELSE UNCHANGED <<cr, pc>>
  /\ handler' = Done
  /\ UNCHANGED <<members, user, closer, stop>>

Hangup(i) ==
  /\ handler = Idle
  /\ members[i] # Nil
  /\ members' = [members EXCEPT ![i] = Nil]
  /\ CloseUsers({members[i]})
  /\ UNCHANGED <<cr, pc, handler, stop>>

-----------------------------------------------------------------------------
(* The goroutine of UserRecord.close. *)

(* Mutant: records that are not bound are taken for unused.                *)
CloserOwnBound(u) ==
  /\ closer[u].at = "own" /\ closer[u].own # {}
  /\ \E t \in closer[u].own :
       LET c == IF t = Pipeline THEN user[u].default ELSE user[u].links[t] IN
       /\ Pipeline \in closer[u].own => t = Pipeline
       /\ IF c = Nil \/ (t # Pipeline /\ cr[c].bound = Nil)
          THEN UNCHANGED <<cr, pc>> ELSE Reset(c)
       /\ closer' = [closer EXCEPT ![u].own = closer[u].own \ {t}]
  /\ UNCHANGED <<members, user, handler, stop>>

(* It resets the records of its own user, first the default sender.  One   *)
(* that is added behind it stays.                                          *)
CloserOwn(u) ==
  /\ closer[u].at = "own" /\ closer[u].own # {}
  /\ \E t \in closer[u].own :
       LET c == IF t = Pipeline THEN user[u].default ELSE user[u].links[t] IN
       /\ Pipeline \in closer[u].own => t = Pipeline
       /\ IF c = Nil THEN UNCHANGED <<cr, pc>> ELSE Reset(c)
       /\ closer' = [closer EXCEPT ![u].own = closer[u].own \ {t}]
  /\ UNCHANGED <<members, user, handler, stop>>

(* channel.connections.IterBuffered.                                       *)
CloserCopies(u) ==
  /\ closer[u].at = "own" /\ closer[u].own = {}
  /\ closer' = [closer EXCEPT ![u].at = "others",
                  ![u].others = {v \in MemberRecords : user[v].id # user[u].id}]
  /\ UNCHANGED <<members, user, cr, pc, handler, stop>>

(* Mutant: what the record is bound to is not looked at.                   *)
RemovesAny(u, c) == c # Nil

(* RemoveCb: another user's record for this one goes, and is reset, if it  *)
(* is bound to this user record or to none.                                *)
Removes(u, c) == c # Nil /\ cr[c].bound \in {u, Nil}
CloserOther(u) ==
  /\ closer[u].at = "others" /\ closer[u].others # {}
  /\ \E v \in closer[u].others :
       LET c == user[v].links[user[u].id] IN
       /\ closer' = [closer EXCEPT ![u].others = closer[u].others \ {v}]
       /\ IF ~Closed(v) /\ Removes(u, c)
          THEN /\ user' = [user EXCEPT ![v].links[user[u].id] = Nil]
               /\ Reset(c)
          ELSE UNCHANGED <<user, cr, pc>>
  /\ UNCHANGED <<members, handler, stop>>
CloserDone(u) == closer[u].at = "others" /\ closer[u].others = {}

-----------------------------------------------------------------------------
(* Peer connections. *)

Fail(p) ==
  /\ pc[p].state = "connected" /\ ~ChannelClosed
  /\ pc' = [pc EXCEPT ![p].destroys = TRUE]
  /\ UNCHANGED <<members, user, cr, closer, handler, stop>>

(* The watcher of a new peer connection closes it after 35 seconds, or     *)
(* when wsCtx is done, unless it is connected or no longer the record's.   *)
Watch(p) ==
  /\ pc[p].state = "new"
  /\ cr[pc[p].cr].pc = p
  /\ pc' = Close(pc, p)
  /\ UNCHANGED <<members, user, cr, closer, handler, stop>>

(* Mutants: the user record in the channel is not compared; nor is the     *)
(* peer connection of the record.                                          *)
DestroyByName(p) ==
  /\ pc[p].destroys
  /\ LET c == pc[p].cr
         u == cr[c].owner
         k == [pc EXCEPT ![p].destroys = FALSE]
     IN IF ChannelClosed \/ cr[c].pc \notin {p, Nil}
        THEN pc' = k /\ UNCHANGED <<members, user, cr, closer>>
        ELSE /\ pc' = Close(k, cr[c].pc)
             /\ cr' = Emptied(c)
             /\ IF user[u].default = c
                THEN /\ members' = [members EXCEPT ![user[u].id] = Nil]
                     /\ CloseUsers({u})
                ELSE UNCHANGED <<members, user, closer>>
  /\ UNCHANGED <<handler, stop>>
DestroyReplaced(p) ==
  /\ pc[p].destroys
  /\ LET c == pc[p].cr
         u == cr[c].owner
         k == [pc EXCEPT ![p].destroys = FALSE]
     IN /\ pc' = Close(k, cr[c].pc)
        /\ cr' = Emptied(c)
        /\ IF user[u].default = c /\ members[user[u].id] = u
           THEN /\ members' = [members EXCEPT ![user[u].id] = Nil]
                /\ CloseUsers({u})
           ELSE UNCHANGED <<members, user, closer>>
  /\ UNCHANGED <<handler, stop>>

(* The callback destroy of peer connection p.  If it was that of the       *)
(* default sender the user goes with it, provided that the user record is  *)
(* still the one in the channel.                                            *)
Destroy(p) ==
  /\ pc[p].destroys
  /\ LET c == pc[p].cr
         u == cr[c].owner
         k == [pc EXCEPT ![p].destroys = FALSE]
     IN IF ChannelClosed \/ cr[c].pc \notin {p, Nil}
        THEN pc' = k /\ UNCHANGED <<members, user, cr, closer>>
        ELSE /\ pc' = Close(k, cr[c].pc)
             /\ cr' = Emptied(c)
             /\ IF user[u].default = c /\ members[user[u].id] = u
                THEN /\ members' = [members EXCEPT ![user[u].id] = Nil]
                     /\ CloseUsers({u})
                ELSE UNCHANGED <<members, user, closer>>
  /\ UNCHANGED <<handler, stop>>

-----------------------------------------------------------------------------
(* The workers of the channel. *)

(* A worker takes a track of u, or a peer connection for u's tracks, to    *)
(* another user's record, which is bound to u unless it is bound already.  *)
(* It may have been in trackCh for long, and u may be closed.              *)
Deliver(u) ==
  /\ ~ChannelClosed
  /\ \E p \in DOMAIN pc : pc[p].cr = user[u].default
  /\ \E v \in MemberRecords :
       LET c == user[v].links[user[u].id] IN
       /\ user[v].id # user[u].id /\ ~Closed(v)
       /\ c # Nil
       /\ cr[c].pc # Nil /\ cr[c].bound = Nil
       /\ cr' = [cr EXCEPT ![c].bound = u]
  /\ UNCHANGED <<members, user, pc, closer, handler, stop>>

(* Mutant: the channel is closed and its users are left.                   *)
StopChannelOnly ==
  /\ stop = "no" /\ Len(user) <= StopUsers
  /\ stop' = "users"
  /\ handler' \in IF handler = Idle THEN {Idle, Ended} ELSE {handler}
  /\ UNCHANGED <<members, user, closer, cr, pc>>

(* RTMChannelSFU.Close and Channel.Stop: the readPump may still handle the *)
(* message it has read.  Once the channel is closed callbacks do nothing.  *)
Stop ==
  /\ stop = "no" /\ Len(user) <= StopUsers
  /\ stop' = "users"
  /\ CloseUsers(MemberRecords)
  /\ handler' \in IF handler = Idle THEN {Idle, Ended} ELSE {handler}
  /\ UNCHANGED <<members, cr, pc>>
StopDone ==
  /\ stop = "users"
  /\ stop' = "closed"
  /\ handler' = IF handler = Idle THEN Ended ELSE handler
  /\ pc' = [p \in DOMAIN pc |-> [pc[p] EXCEPT !.destroys = FALSE]]
  /\ UNCHANGED <<members, user, cr, closer>>

-----------------------------------------------------------------------------
Init ==
  /\ members = [i \in Users |-> Nil]
  /\ user = <<>> /\ cr = <<>> /\ pc = <<>> /\ closer = <<>>
  /\ handler = Idle
  /\ stop = "no"

Handle ==
  FindRecord \/ HandleRecord \/ SDPCreates \/ SDPApplies \/ Resurrect \/ Revive
Closer(u) == CloserOwn(u) \/ CloserCopies(u) \/ CloserOther(u)

Next ==
  \/ FindSource
  \/ Handle
  \/ \E i \in Users : Hangup(i)
  \/ \E u \in DOMAIN user : Closer(u) \/ Deliver(u)
  \/ \E p \in DOMAIN pc : Fail(p) \/ Watch(p) \/ Destroy(p)
  \/ Stop \/ StopDone

Spec == Init /\ [][Next]_vars

-----------------------------------------------------------------------------
(* Of the user records made for an id, the one that is open is the one the *)
(* channel has, so that Stop and a hangup get at it, and none that is      *)
(* closed stays in the channel, where it would turn away every message of  *)
(* the user who comes back with its id.                                    *)
OpenIffListed ==
  stop = "no" => {u \in DOMAIN user : ~Closed(u)} = MemberRecords

(* The goroutine of a closed user leaves no peer connection behind, except *)
(* those that a message which was on its way made after the close or after *)
(* their record was taken from its user.                                   *)
ClosedUserDisconnected ==
  \A p \in DOMAIN pc :
    Closed(cr[pc[p].cr].owner) /\ CloserDone(cr[pc[p].cr].owner)
      => pc[p].state = "closed" \/ pc[p].orphan

(* A peer connection that ends throws its user out only if the user's      *)
(* default sender has no other that is open.                               *)
LiveUserSurvives ==
  [][\A u \in DOMAIN user :
       LET live == cr[user[u].default].pc IN
       ~Closed(u) /\ user'[u].closed /\ Open(live)
         => \A p \in DOMAIN pc : Destroy(p) => p = live]_vars

(* The close of one user takes nothing from others: a record bound to a    *)
(* user that is in the channel stays with the user that has it, also when  *)
(* an earlier user with the same id is still being closed.                 *)
BoundLinkStays ==
  [][\A v \in DOMAIN user, i \in Users :
       LET c == user[v].links[i] IN
       /\ ~user'[v].closed
       /\ c # Nil
       /\ cr[c].bound # Nil
       /\ ~Closed(cr[c].bound)
       => user'[v].links[i] = c]_vars

(* Stop closes the channel: when its goroutines have ended, the last       *)
(* message too, every peer connection made for a record of an open user is *)
(* closed, that of a user who came while Stop was at work too.             *)
Quiet ==
  /\ handler = Ended
  /\ \A u \in DOMAIN user : Closed(u) => CloserDone(u)
  /\ \A p \in DOMAIN pc : ~(pc[p].state = "new" /\ cr[pc[p].cr].pc = p)
StopCloses ==
  ChannelClosed /\ Quiet
    => \A p \in DOMAIN pc : pc[p].state = "closed" \/ pc[p].orphan
=============================================================================
