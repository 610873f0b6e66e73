--------------------------- MODULE MembershipProof ---------------------------
(***************************************************************************)
(* Proofs about Membership for all users, pipelines, roles and bounds.     *)
(* MembershipInv has the shape of the records, that every number in one of *)
(* them is that of a record there is, that only closed users have a close  *)
(* goroutine, and that the channel and its open users agree.  The second   *)
(* half is about how the peer connections of closed users end, the last    *)
(* part about the types.                                                   *)
(***************************************************************************)
EXTENDS Membership, SequenceTheorems, TLAPS

UserT == [id : Users, closed : BOOLEAN, default : Nat, links : [Users -> Nat]]
ConnectionT == [owner : Nat, peer : Peers, pc : Nat, bound : Nat]
PeerConnectionT ==
  [cr : Nat, state : {"new", "connected", "closed"}, destroys : BOOLEAN, orphan : BOOLEAN]
CloserT == [at : {"none", "own", "others"}, own : SUBSET Peers, others : SUBSET Nat]
HandlerT ==
  [at : {"idle", "ended", "found", "lock", "sdp", "resurrect", "revive"},
   source : Nat, target : Peers, cr : Nat, pc : Nat]

(* TypeOK but for the bounds.                                              *)
Shape ==
  /\ members \in [Users -> Nat]
  /\ user \in Seq(UserT)
  /\ cr \in Seq(ConnectionT)
  /\ pc \in Seq(PeerConnectionT)
  /\ closer \in Seq(CloserT) /\ Len(closer) = Len(user)
  /\ handler \in HandlerT

UserPointers ==
  \A u \in 1..Len(user) :
    /\ user[u].default \in 1..Len(cr)
    /\ \A i \in Users : user[u].links[i] \in 0..Len(cr)
OwnerPointers == \A c \in 1..Len(cr) : cr[c].owner \in 1..Len(user)
PcPointers == \A p \in 1..Len(pc) : pc[p].cr \in 1..Len(cr)
HandlerPointers ==
  /\ handler.at \in {"found", "lock", "sdp", "resurrect", "revive"} =>
       handler.source \in 1..Len(user)
  /\ handler.at \in {"lock", "sdp", "resurrect", "revive"} => handler.cr \in 1..Len(cr)
  /\ handler.at = "resurrect" => handler.target # Pipeline

CloserClosed == \A u \in 1..Len(user) : closer[u].at # "none" => user[u].closed

MembersListed ==
  \A i \in Users : members[i] # Nil => members[i] \in 1..Len(user) /\ user[members[i]].id = i
OpenAgree ==
  stop = "no" =>
    /\ \A i \in Users : members[i] # Nil => ~user[members[i]].closed
    /\ \A u \in 1..Len(user) : ~user[u].closed => members[user[u].id] = u

MembershipInv ==
  /\ Shape
  /\ UserPointers /\ OwnerPointers /\ PcPointers /\ HandlerPointers
  /\ CloserClosed /\ MembersListed /\ OpenAgree

-----------------------------------------------------------------------------
(* A function on 1..n is a sequence of length n.                           *)
LEMMA FunctionSeq ==
  ASSUME NEW S, NEW n \in Nat, NEW f \in [1..n -> S]
  PROVE  f \in Seq(S) /\ Len(f) = n
<1>1. f \in Seq(S)
  BY SeqDef
<1>2. DOMAIN f = 1..n /\ DOMAIN f = 1..Len(f) /\ Len(f) \in Nat
  BY <1>1, LenProperties
<1> QED BY <1>1, <1>2

(* pc.Close closes a peer connection or none, whichever number it gets.    *)
LEMMA CloseShape ==
  ASSUME NEW k \in Seq(PeerConnectionT), NEW p
  PROVE  /\ Close(k, p) \in Seq(PeerConnectionT)
         /\ Len(Close(k, p)) = Len(k)
         /\ \A q \in 1..Len(k) : Close(k, p)[q].cr = k[q].cr
<1> DEFINE t == [k EXCEPT ![p].state = "closed", ![p].destroys = ~ChannelClosed]
<1>1. k \in [1..Len(k) -> PeerConnectionT] /\ DOMAIN k = 1..Len(k) /\ Len(k) \in Nat
  BY LenProperties
<1>2. /\ DOMAIN t = 1..Len(k)
      /\ \A q \in 1..Len(k) : t[q] \in PeerConnectionT /\ t[q].cr = k[q].cr
  BY <1>1 DEF PeerConnectionT, ChannelClosed
<1>3. t \in [1..Len(k) -> PeerConnectionT]
  BY <1>1, <1>2 DEF PeerConnectionT, ChannelClosed
<1>4. t \in Seq(PeerConnectionT) /\ Len(t) = Len(k)
  BY <1>1, <1>3, FunctionSeq
<1> HIDE DEF t
<1>5. Close(k, p) \in {k, t}
  BY DEF Close, t
<1> QED BY <1>2, <1>4, <1>5

(* What a step makes of the records r when it changes number c.            *)
Changed(r, c, n, b) ==
  {[r EXCEPT ![c].pc = n], [r EXCEPT ![c].bound = b],
   [r EXCEPT ![c].pc = n, ![c].bound = b]}

LEMMA ChangedShape ==
  ASSUME NEW r \in Seq(ConnectionT), NEW c, NEW n \in Nat, NEW b \in Nat,
         NEW s \in Changed(r, c, n, b)
  PROVE  /\ s \in Seq(ConnectionT) /\ Len(s) = Len(r)
         /\ \A d \in 1..Len(r) : s[d].owner = r[d].owner
<1>1. r \in [1..Len(r) -> ConnectionT] /\ DOMAIN r = 1..Len(r) /\ Len(r) \in Nat
  BY LenProperties
<1>2. \A d \in 1..Len(r) : s[d] \in ConnectionT /\ s[d].owner = r[d].owner
  <2>1. CASE s = [r EXCEPT ![c].pc = n]
    BY <1>1, <2>1 DEF ConnectionT
  <2>2. CASE s = [r EXCEPT ![c].bound = b]
    BY <1>1, <2>2 DEF ConnectionT
  <2>3. CASE s = [r EXCEPT ![c].pc = n, ![c].bound = b]
    BY <1>1, <2>3 DEF ConnectionT
  <2> QED BY <2>1, <2>2, <2>3 DEF Changed
<1>3. s \in [1..Len(r) -> ConnectionT]
  BY <1>1, <1>2 DEF Changed
<1> QED BY <1>1, <1>2, <1>3, FunctionSeq

(* UserRecord.close closes users and starts their goroutines.              *)
LEMMA CloseUsersShape ==
  ASSUME Shape, CloserClosed, NEW U, CloseUsers(U)
  PROVE  /\ user' \in Seq(UserT) /\ Len(user') = Len(user)
         /\ closer' \in Seq(CloserT) /\ Len(closer') = Len(closer)
         /\ CloserClosed'
         /\ \A u \in 1..Len(user) :
              /\ user'[u].id = user[u].id
              /\ user'[u].default = user[u].default
              /\ user'[u].links = user[u].links
              /\ user'[u].closed = (user[u].closed \/ u \in U)
<1>1. /\ user \in [1..Len(user) -> UserT] /\ DOMAIN user = 1..Len(user) /\ Len(user) \in Nat
      /\ closer \in [1..Len(user) -> CloserT] /\ DOMAIN closer = 1..Len(user)
  BY LenProperties DEF Shape
<1>2. user' = [u \in 1..Len(user) |->
                 [user[u] EXCEPT !.closed = user[u].closed \/ (u \in U /\ ~user[u].closed)]]
  BY <1>1 DEF CloseUsers, Closed
<1>3. \A u \in 1..Len(user) :
        /\ user'[u] \in UserT
        /\ user'[u].id = user[u].id
        /\ user'[u].default = user[u].default
        /\ user'[u].links = user[u].links
        /\ user'[u].closed = (user[u].closed \/ u \in U)
  <2> SUFFICES ASSUME NEW u \in 1..Len(user)
      PROVE  /\ user'[u] \in UserT
             /\ user'[u].id = user[u].id
             /\ user'[u].default = user[u].default
             /\ user'[u].links = user[u].links
             /\ user'[u].closed = (user[u].closed \/ u \in U)
    OBVIOUS
  <2>1. user[u] \in UserT
    BY <1>1
  <2>2. user'[u] = [user[u] EXCEPT !.closed = user[u].closed \/ (u \in U /\ ~user[u].closed)]
    BY <1>2
  <2> QED BY <2>1, <2>2 DEF UserT
<1>4. \A u \in 1..Len(user) :
        closer'[u] = IF u \in U /\ ~user[u].closed
                     THEN [at |-> "own", own |-> Peers \ {user[u].id}, others |-> {}]
                     ELSE closer[u]
  BY <1>1 DEF CloseUsers, Closed
<1>5. closer' \in [1..Len(user) -> CloserT]
  BY <1>1 DEF CloseUsers, CloserT
<1>6. /\ user' \in Seq(UserT) /\ Len(user') = Len(user)
      /\ closer' \in Seq(CloserT) /\ Len(closer') = Len(closer)
  <2>1. user' \in [1..Len(user) -> UserT]
    BY <1>2, <1>3
  <2>2. user' \in Seq(UserT) /\ Len(user') = Len(user)
    BY <1>1, <2>1, FunctionSeq
  <2>3. closer' \in Seq(CloserT) /\ Len(closer') = Len(user)
    BY <1>1, <1>5, FunctionSeq
  <2> QED BY <2>2, <2>3 DEF Shape
<1>7. CloserClosed'
  BY <1>3, <1>4, <1>6 DEF CloserClosed
<1> QED BY <1>3, <1>6, <1>7

-----------------------------------------------------------------------------
(* Records r and peer connections k that point to what there is.           *)
RecordsOK(r, k) ==
  /\ r \in Seq(ConnectionT) /\ Len(r) >= Len(cr)
  /\ \A c \in 1..Len(r) : r[c].owner \in 1..Len(user)
  /\ k \in Seq(PeerConnectionT)
  /\ \A p \in 1..Len(k) : k[p].cr \in 1..Len(r)

LEMMA RecordsAreOK ==
  ASSUME MembershipInv
  PROVE  RecordsOK(cr, pc)
<1>1. Len(cr) \in Nat
  BY LenProperties DEF MembershipInv, Shape
<1> QED BY <1>1 DEF MembershipInv, Shape, OwnerPointers, PcPointers, RecordsOK

LEMMA CloseOK ==
  ASSUME NEW r, NEW k, RecordsOK(r, k), NEW p
  PROVE  RecordsOK(r, Close(k, p))
BY CloseShape DEF RecordsOK

(* A peer connection gets another state or a callback.                     *)
Touched(p) ==
  {[pc EXCEPT ![p].state = "connected"], [pc EXCEPT ![p].destroys = TRUE],
   [pc EXCEPT ![p].destroys = FALSE]}

LEMMA TouchedOK ==
  ASSUME RecordsOK(cr, pc), NEW p, NEW k \in Touched(p)
  PROVE  RecordsOK(cr, k)
<1>1. pc \in [1..Len(pc) -> PeerConnectionT] /\ DOMAIN pc = 1..Len(pc) /\ Len(pc) \in Nat
  BY LenProperties DEF RecordsOK
<1>2. \A q \in 1..Len(pc) : k[q] \in PeerConnectionT /\ k[q].cr = pc[q].cr
  <2>1. CASE k = [pc EXCEPT ![p].state = "connected"]
    BY <1>1, <2>1 DEF PeerConnectionT
  <2>2. CASE k = [pc EXCEPT ![p].destroys = TRUE]
    BY <1>1, <2>2 DEF PeerConnectionT
  <2>3. CASE k = [pc EXCEPT ![p].destroys = FALSE]
    BY <1>1, <2>3 DEF PeerConnectionT
  <2> QED BY <2>1, <2>2, <2>3 DEF Touched
<1>3. k \in [1..Len(pc) -> PeerConnectionT]
  BY <1>1, <1>2 DEF Touched
<1> QED BY <1>1, <1>2, <1>3, FunctionSeq DEF RecordsOK

LEMMA ConnectedOK ==
  ASSUME RecordsOK(cr, pc), NEW p, pc' \in {pc, [pc EXCEPT ![p].state = "connected"]}
  PROVE  RecordsOK(cr, pc')
BY TouchedOK DEF Touched

LEMMA ChangedOK ==
  ASSUME NEW r, NEW k, RecordsOK(r, k), NEW c, NEW n \in Nat, NEW b \in Nat,
         NEW s \in Changed(r, c, n, b)
  PROVE  RecordsOK(s, k) /\ Len(s) = Len(r)
<1>1. r \in Seq(ConnectionT)
  BY DEF RecordsOK
<1>2. /\ s \in Seq(ConnectionT) /\ Len(s) = Len(r)
      /\ \A d \in 1..Len(r) : s[d].owner = r[d].owner
  BY <1>1, ChangedShape
<1> QED BY <1>2 DEF RecordsOK

LEMMA ResetOK ==
  ASSUME NEW k, RecordsOK(cr, k), NEW c, NEW p
  PROVE  RecordsOK(Emptied(c), Close(k, p)) /\ Len(Emptied(c)) = Len(cr)
<1>1. RecordsOK(cr, Close(k, p))
  BY CloseOK
<1>2. Emptied(c) \in Changed(cr, c, 0, 0) /\ 0 \in Nat
  BY DEF Emptied, Changed, Nil
<1> QED BY <1>1, <1>2, ChangedOK

LEMMA CreateOK ==
  ASSUME NEW k, RecordsOK(cr, k), NEW c \in 1..Len(cr),
         NEW state \in {"new", "connected", "closed"}, Create(c, k, state)
  PROVE  RecordsOK(cr', pc') /\ Len(cr') = Len(cr)
<1> DEFINE e == NewPeerConnection(c, state)
<1>1. k \in Seq(PeerConnectionT) /\ Len(k) \in Nat /\ cr \in Seq(ConnectionT)
  BY LenProperties DEF RecordsOK
<1>2. e \in PeerConnectionT /\ e.cr = c
  <2>1. c \in Nat
    BY <1>1, LenProperties
  <2> QED BY <2>1 DEF NewPeerConnection, PeerConnectionT, Closed, Listed
<1>3. pc' = Append(k, e) /\ cr' = [cr EXCEPT ![c].pc = Len(k) + 1]
  BY DEF Create
<1> HIDE DEF e
<1>4. /\ pc' \in Seq(PeerConnectionT) /\ Len(pc') = Len(k) + 1
      /\ \A p \in 1..Len(pc') : pc'[p] = IF p = Len(k) + 1 THEN e ELSE k[p]
  BY <1>1, <1>2, <1>3, AppendProperties
<1>5. RecordsOK([cr EXCEPT ![c].pc = Len(k) + 1], k) /\ Len(cr') = Len(cr)
  <2>1. Len(k) + 1 \in Nat /\ 0 \in Nat
    BY <1>1
  <2>2. cr' \in Changed(cr, c, Len(k) + 1, 0)
    BY <1>3 DEF Changed
  <2> QED BY <1>3, <2>1, <2>2, ChangedOK
<1>6. \A p \in 1..Len(pc') : pc'[p].cr \in 1..Len(cr')
  BY <1>1, <1>2, <1>4, <1>5 DEF RecordsOK
<1> QED BY <1>3, <1>4, <1>5, <1>6 DEF RecordsOK

(* Links may change, and goroutines of closed users go on.                 *)
UsersKept ==
  /\ user' \in Seq(UserT) /\ Len(user') = Len(user)
  /\ \A u \in 1..Len(user) :
       /\ user'[u].id = user[u].id
       /\ user'[u].default = user[u].default
       /\ user'[u].closed = user[u].closed
       /\ \A i \in Users : user'[u].links[i] \in 0..Len(cr')
ClosersKept ==
  /\ closer' \in Seq(CloserT) /\ Len(closer') = Len(closer)
  /\ \A u \in 1..Len(user) : closer'[u].at # "none" => closer[u].at # "none"

LEMMA UsersSame ==
  ASSUME MembershipInv, UNCHANGED user, RecordsOK(cr', pc')
  PROVE  UsersKept
<1>1. Len(cr) \in Nat /\ Len(cr') \in Nat /\ Len(cr') >= Len(cr)
  BY LenProperties DEF MembershipInv, Shape, RecordsOK
<1> QED BY <1>1 DEF MembershipInv, Shape, UserPointers, UsersKept

(* A link is set to a record or to none.                                   *)
SetsLink(v, i, n) == user' = [user EXCEPT ![v].links[i] = n]

LEMMA LinkOK ==
  ASSUME MembershipInv, NEW v, NEW i, NEW n \in 0..Len(cr'), SetsLink(v, i, n),
         Len(cr') \in Nat, Len(cr') >= Len(cr)
  PROVE  UsersKept
<1>1. user \in [1..Len(user) -> UserT] /\ DOMAIN user = 1..Len(user) /\ Len(user) \in Nat
  BY LenProperties DEF MembershipInv, Shape
<1>2. Len(cr) \in Nat /\ n \in Nat
  BY LenProperties DEF MembershipInv, Shape
<1>3. ASSUME NEW u \in 1..Len(user)
      PROVE  /\ user'[u] \in UserT
             /\ user'[u].id = user[u].id
             /\ user'[u].default = user[u].default
             /\ user'[u].closed = user[u].closed
             /\ \A j \in Users : user'[u].links[j] \in 0..Len(cr')
  <2>1. user[u] \in UserT /\ \A j \in Users : user[u].links[j] \in 0..Len(cr)
    BY <1>1 DEF MembershipInv, UserPointers
  <2>2. user[u].links \in [Users -> Nat]
    BY <2>1 DEF UserT
  <2>3. [user[u].links EXCEPT ![i] = n] \in [Users -> Nat]
    BY <1>2, <2>2
  <2>4. \A j \in Users : [user[u].links EXCEPT ![i] = n][j] \in 0..Len(cr')
    BY <1>2, <2>1, <2>2
  <2> DEFINE l == [user[u].links EXCEPT ![i] = n]
  <2>5. user'[u] = user[u] \/ user'[u] = [user[u] EXCEPT !.links = l]
    BY <1>1 DEF SetsLink
  <2> HIDE DEF l
  <2>6. CASE user'[u] = user[u]
    BY <1>2, <2>1, <2>6
  <2>7. CASE user'[u] = [user[u] EXCEPT !.links = l]
    BY <2>1, <2>3, <2>4, <2>7 DEF UserT, l
  <2> QED BY <2>5, <2>6, <2>7
<1>4. user' \in [1..Len(user) -> UserT]
  BY <1>1, <1>3 DEF SetsLink
<1> QED BY <1>1, <1>3, <1>4, FunctionSeq DEF UsersKept

LEMMA ClosersSame ==
  ASSUME MembershipInv, UNCHANGED closer
  PROVE  ClosersKept
BY DEF MembershipInv, Shape, ClosersKept

HandlerStep == handler' \in HandlerT /\ HandlerPointers'

(* A step of a message, a goroutine or a peer connection that opens and    *)
(* closes no user.                                                         *)
LEMMA RecordStep ==
  ASSUME MembershipInv, UNCHANGED members, UsersKept, ClosersKept,
         stop' = "no" => stop = "no", RecordsOK(cr', pc'), HandlerStep
  PROVE  MembershipInv'
<1>1. Len(cr) \in Nat /\ Len(cr') \in Nat /\ Len(cr') >= Len(cr)
  BY LenProperties DEF MembershipInv, Shape, RecordsOK
<1>2. Shape'
  BY DEF MembershipInv, Shape, RecordsOK, UsersKept, ClosersKept, HandlerStep
<1>3. UserPointers'
  BY <1>1 DEF MembershipInv, UserPointers, UsersKept
<1>4. OwnerPointers' /\ PcPointers'
  BY DEF OwnerPointers, PcPointers, RecordsOK, UsersKept
<1>5. CloserClosed' /\ MembersListed'
  BY DEF MembershipInv, CloserClosed, MembersListed, UsersKept, ClosersKept
<1>6. OpenAgree'
  <2>1. /\ \A i \in Users : members[i] # Nil => members[i] \in 1..Len(user)
        /\ Len(user') = Len(user)
        /\ \A u \in 1..Len(user) : user'[u].id = user[u].id /\ user'[u].closed = user[u].closed
    BY DEF MembershipInv, MembersListed, UsersKept
  <2> QED BY <2>1 DEF MembershipInv, OpenAgree
<1> QED BY <1>2, <1>3, <1>4, <1>5, <1>6 DEF MembershipInv, HandlerStep

-----------------------------------------------------------------------------
(* The steps. *)
LEMMA DoneOK ==
  ASSUME handler' = Done \/ handler' = Idle \/ handler' = Ended
  PROVE  HandlerStep
<1>1. Idle \in HandlerT /\ Ended \in HandlerT
  BY DEF Idle, Ended, HandlerT, Peers, Nil
<1>2. handler' \in HandlerT /\ handler'.at \in {"idle", "ended"}
  BY <1>1 DEF Done, Idle, Ended
<1> QED BY <1>2 DEF HandlerStep, HandlerPointers

LEMMA HandlerSame ==
  ASSUME MembershipInv, UNCHANGED <<handler, user>>, Len(cr') = Len(cr)
  PROVE  HandlerStep
BY DEF MembershipInv, Shape, HandlerStep, HandlerPointers

LEMMA UserTyped ==
  ASSUME MembershipInv, NEW u \in 1..Len(user)
  PROVE  user[u] \in UserT /\ user[u].id \in Users
<1>1. user[u] \in UserT
  BY ElementOfSeq DEF MembershipInv, Shape
<1> QED BY <1>1 DEF UserT

LEMMA JoinStep ==
  ASSUME MembershipAssumption, MembershipInv, NEW i \in Users, NEW t \in Peers, Join(i, t)
  PROVE  MembershipInv'
<1> DEFINE n == Len(user) + 1
           d == Len(cr) + 1
<1>1. /\ Len(user) \in Nat /\ Len(cr) \in Nat /\ n \in Nat /\ d \in Nat
      /\ n \in 1..n /\ d \in 1..d
  BY LenProperties DEF MembershipInv, Shape
<1>2. /\ NewUser(i) \in UserT
      /\ NewConnection(n, Pipeline) \in ConnectionT
      /\ NoCloser \in CloserT
  BY <1>1 DEF NewUser, UserT, NewConnection, ConnectionT, NoCloser, CloserT, Nil, Peers
<1>3. /\ user' = Append(user, NewUser(i)) /\ user' \in Seq(UserT) /\ Len(user') = n
      /\ \A u \in 1..n : user'[u] = IF u = n THEN NewUser(i) ELSE user[u]
  BY <1>1, <1>2, AppendProperties DEF Join, MembershipInv, Shape
<1>4. /\ cr' \in Seq(ConnectionT) /\ Len(cr') = d
      /\ \A c \in 1..d : cr'[c] = IF c = d THEN NewConnection(n, Pipeline) ELSE cr[c]
  BY <1>1, <1>2, AppendProperties DEF Join, MembershipInv, Shape
<1>5. /\ closer' \in Seq(CloserT) /\ Len(closer') = n
      /\ \A u \in 1..n : closer'[u] = IF u = n THEN NoCloser ELSE closer[u]
  BY <1>1, <1>2, AppendProperties DEF Join, MembershipInv, Shape
<1>6. /\ members[i] = Nil /\ members' = [members EXCEPT ![i] = n]
      /\ UNCHANGED <<pc, stop>>
      /\ handler' = [Idle EXCEPT !.at = "found", !.source = n, !.target = t]
  BY DEF Join
<1>7. HandlerStep
  BY <1>1, <1>3, <1>6 DEF HandlerStep, HandlerT, HandlerPointers, Idle, Nil
<1>8. Shape'
  BY <1>1, <1>3, <1>4, <1>5, <1>6, <1>7 DEF MembershipInv, Shape, HandlerStep
<1>9. UserPointers'
  BY <1>1, <1>3, <1>4 DEF MembershipInv, UserPointers, NewUser, Nil
<1>10. OwnerPointers' /\ PcPointers'
  <2>1. ASSUME NEW c \in 1..d
        PROVE  cr'[c].owner \in 1..n
    <3>1. CASE c = d
      BY <1>1, <1>4, <3>1 DEF NewConnection
    <3>2. CASE c # d
      <4>1. c \in 1..Len(cr) /\ cr'[c] = cr[c]
        BY <1>1, <1>4, <3>2
      <4> QED BY <1>1, <4>1 DEF MembershipInv, OwnerPointers
    <3> QED BY <3>1, <3>2
  <2>2. \A p \in 1..Len(pc) : pc[p].cr \in 1..d
    BY <1>1 DEF MembershipInv, PcPointers
  <2> HIDE DEF n, d
  <2> QED BY <1>3, <1>4, <1>6, <2>1, <2>2 DEF OwnerPointers, PcPointers
<1>11. CloserClosed'
  BY <1>1, <1>3, <1>5 DEF MembershipInv, CloserClosed, NoCloser
<1>12. MembersListed'
  BY <1>1, <1>3, <1>6 DEF MembershipInv, Shape, MembersListed, NewUser
<1>13. OpenAgree'
  <2> SUFFICES ASSUME stop = "no"
      PROVE  /\ \A j \in Users : members'[j] # Nil => ~user'[members'[j]].closed
             /\ \A u \in 1..Len(user') : ~user'[u].closed => members'[user'[u].id] = u
    BY <1>6 DEF OpenAgree
  <2>1. /\ \A j \in Users : members[j] # Nil => ~user[members[j]].closed
        /\ \A u \in 1..Len(user) : ~user[u].closed => members[user[u].id] = u
    BY DEF MembershipInv, OpenAgree
  <2>2. ASSUME NEW j \in Users, members'[j] # Nil
        PROVE  ~user'[members'[j]].closed
    BY <1>1, <1>3, <1>6, <2>1, <2>2 DEF MembershipInv, Shape, MembersListed, NewUser
  <2>3. ASSUME NEW u \in 1..Len(user'), ~user'[u].closed
        PROVE  members'[user'[u].id] = u
    <3>1. CASE u = n
      BY <1>3, <1>6, <3>1 DEF MembershipInv, Shape, NewUser
    <3>2. CASE u # n
      <4>1. u \in 1..Len(user) /\ user'[u] = user[u] /\ user[u].id \in Users
        <5>1. u \in 1..Len(user) /\ user'[u] = user[u]
          BY <1>1, <1>3, <3>2
        <5> QED BY <5>1, UserTyped
      <4>2. members[user[u].id] = u
        BY <2>1, <2>3, <4>1
      <4> QED BY <1>1, <1>6, <4>1, <4>2 DEF MembershipInv, Shape, Nil
    <3> QED BY <3>1, <3>2
  <2> QED BY <2>2, <2>3
<1> QED BY <1>7, <1>8, <1>9, <1>10, <1>11, <1>12, <1>13 DEF MembershipInv, HandlerStep

(* A step that closes users, those of U, whom it takes out of the channel, *)
(* or Stop.                                                                *)
LEMMA CloseStep ==
  ASSUME MembershipInv, NEW U, CloseUsers(U),
         RecordsOK(cr', pc'), Len(cr') = Len(cr), HandlerStep,
         members' \in [Users -> Nat],
         \A i \in Users : members'[i] \in {members[i], Nil},
         stop' = "no" =>
           /\ stop = "no"
           /\ \A i \in Users : members'[i] = Nil <=> members[i] = Nil \/ members[i] \in U
  PROVE  MembershipInv'
<1>1. /\ user' \in Seq(UserT) /\ Len(user') = Len(user)
      /\ closer' \in Seq(CloserT) /\ Len(closer') = Len(closer)
      /\ CloserClosed'
      /\ \A u \in 1..Len(user) :
           /\ user'[u].id = user[u].id
           /\ user'[u].default = user[u].default
           /\ user'[u].links = user[u].links
           /\ user'[u].closed = (user[u].closed \/ u \in U)
  BY CloseUsersShape DEF MembershipInv
<1>2. Shape'
  BY <1>1 DEF MembershipInv, Shape, RecordsOK, HandlerStep
<1>3. UserPointers'
  BY <1>1 DEF MembershipInv, UserPointers
<1>4. OwnerPointers' /\ PcPointers'
  BY <1>1 DEF RecordsOK, OwnerPointers, PcPointers
<1>5. MembersListed'
  BY <1>1 DEF MembershipInv, Shape, MembersListed
<1>6. OpenAgree'
  <2> SUFFICES ASSUME stop' = "no"
      PROVE  /\ \A i \in Users : members'[i] # Nil => ~user'[members'[i]].closed
             /\ \A u \in 1..Len(user') : ~user'[u].closed => members'[user'[u].id] = u
    BY DEF OpenAgree
  <2>1. /\ \A i \in Users : members[i] # Nil => ~user[members[i]].closed
        /\ \A u \in 1..Len(user) : ~user[u].closed => members[user[u].id] = u
    BY DEF MembershipInv, OpenAgree
  <2>2. ASSUME NEW i \in Users, members'[i] # Nil
        PROVE  ~user'[members'[i]].closed
    <3>1. members[i] # Nil /\ members'[i] = members[i] /\ members[i] \notin U
      BY <2>2
    <3>2. members[i] \in 1..Len(user)
      BY <3>1 DEF MembershipInv, MembersListed
    <3> QED BY <1>1, <2>1, <3>1, <3>2
  <2>3. ASSUME NEW u \in 1..Len(user'), ~user'[u].closed
        PROVE  members'[user'[u].id] = u
    <3>1. u \in 1..Len(user) /\ ~user[u].closed /\ u \notin U /\ user'[u].id = user[u].id
      BY <1>1, <2>3
    <3>2. user[u].id \in Users /\ u # Nil
      BY <3>1, UserTyped DEF Nil
    <3>3. members[user[u].id] = u
      BY <2>1, <3>1
    <3> QED BY <3>1, <3>2, <3>3
  <2> QED BY <2>2, <2>3
<1> QED BY <1>1, <1>2, <1>3, <1>4, <1>5, <1>6 DEF MembershipInv, HandlerStep

(* Only numbers of records and peer connections change.                    *)
LEMMA PlainStep ==
  ASSUME MembershipInv, UNCHANGED <<members, user, closer>>,
         stop' = "no" => stop = "no", RecordsOK(cr', pc'),
         HandlerStep \/ (UNCHANGED handler /\ Len(cr') = Len(cr))
  PROVE  MembershipInv'
<1>1. UsersKept /\ ClosersKept
  BY UsersSame, ClosersSame
<1>2. HandlerStep
  BY HandlerSame
<1> QED BY <1>1, <1>2, RecordStep

LEMMA HandlerRecord ==
  ASSUME MembershipInv, handler.at \in {"lock", "sdp", "resurrect", "revive"}
  PROVE  handler.cr \in 1..Len(cr) /\ handler.source \in 1..Len(user) /\ handler \in HandlerT
BY DEF MembershipInv, HandlerPointers, Shape

(* The handler goes on with the record it has.                             *)
LEMMA GotoOK ==
  ASSUME MembershipInv, handler.at \in {"lock", "sdp", "resurrect", "revive"},
         NEW at \in {"sdp", "resurrect", "revive"}, NEW p \in Nat,
         at = "resurrect" => handler.target # Pipeline,
         handler' = [handler EXCEPT !.at = at, !.pc = p],
         Len(cr') = Len(cr), UNCHANGED user
  PROVE  HandlerStep
BY HandlerRecord DEF HandlerStep, HandlerT, HandlerPointers

LEMMA FindSourceStep ==
  ASSUME MembershipAssumption, MembershipInv, FindSource
  PROVE  MembershipInv'
<1> PICK i \in Users, t \in Peers : Join(i, t) \/ Rejoin(i, t)
  BY DEF FindSource
<1>1. CASE Join(i, t)
  BY <1>1, JoinStep
<1>2. CASE Rejoin(i, t)
  <2>1. members[i] \in 1..Len(user) /\ members[i] \in Nat
    BY <1>2 DEF Rejoin, MembershipInv, MembersListed, Shape
  <2>2. HandlerStep
    BY <1>2, <2>1 DEF Rejoin, HandlerStep, HandlerT, HandlerPointers, Idle, Nil
  <2> QED BY <1>2, <2>2, RecordsAreOK, PlainStep DEF Rejoin
<1> QED BY <1>1, <1>2

LEMMA FindRecordStep ==
  ASSUME MembershipAssumption, MembershipInv, FindRecord
  PROVE  MembershipInv'
<1> DEFINE u == handler.source
           c == IF handler.target = Pipeline THEN user[u].default
                ELSE user[u].links[handler.target]
           d == Len(cr) + 1
<1>1. /\ handler \in HandlerT /\ handler.at = "found" /\ u \in 1..Len(user)
      /\ UNCHANGED <<members, pc, closer, stop>>
      /\ Len(cr) \in Nat /\ d \in Nat /\ d \in 1..d
  BY LenProperties DEF FindRecord, MembershipInv, Shape, HandlerPointers
<1>2. handler.target \in Users \cup {Pipeline} /\ u \in Nat
  BY <1>1 DEF HandlerT, Peers
<1>3. ASSUME NEW e \in 1..Len(cr'), e \in Nat, FoundRecord(e), Len(user') = Len(user)
      PROVE  HandlerStep
  <2>1. CASE handler' = Done
    BY <2>1, DoneOK
  <2>2. CASE handler' = [handler EXCEPT !.at = "lock", !.cr = e]
    BY <1>1, <1>3, <2>2 DEF HandlerStep, HandlerT, HandlerPointers
  <2> QED BY <1>3, <2>1, <2>2 DEF FoundRecord
<1>4. CASE c # Nil /\ FoundRecord(c) /\ UNCHANGED <<user, cr>>
  <2>1. c \in 0..Len(cr)
    BY <1>1, <1>2 DEF MembershipInv, UserPointers
  <2>2. c \in 1..Len(cr') /\ c \in Nat
    BY <1>1, <1>4, <2>1 DEF Nil
  <2> HIDE DEF c
  <2>3. HandlerStep
    BY <1>3, <1>4, <2>2
  <2> QED BY <1>1, <1>4, <2>3, RecordsAreOK, PlainStep
<1>5. CASE /\ c = Nil /\ Len(cr) < MaxConns
           /\ cr' = Append(cr, NewConnection(u, handler.target))
           /\ user' = [user EXCEPT ![u].links[handler.target] = d]
           /\ FoundRecord(d)
  <2>1. NewConnection(u, handler.target) \in ConnectionT
    BY <1>1, <1>2 DEF NewConnection, ConnectionT, Peers, Nil
  <2>2. /\ cr' \in Seq(ConnectionT) /\ Len(cr') = d
        /\ \A e \in 1..d : cr'[e] = IF e = d THEN NewConnection(u, handler.target) ELSE cr[e]
    BY <1>1, <1>5, <2>1, AppendProperties DEF MembershipInv, Shape
  <2>3. \A e \in 1..d : cr'[e].owner \in 1..Len(user)
    BY <1>1, <2>2 DEF NewConnection, MembershipInv, OwnerPointers
  <2>4. RecordsOK(cr', pc')
    BY <1>1, <2>2, <2>3 DEF RecordsOK, MembershipInv, Shape, PcPointers
  <2>5. UsersKept
    <3>1. SetsLink(u, handler.target, d)
      BY <1>5 DEF SetsLink
    <3>2. d \in 0..Len(cr') /\ Len(cr') \in Nat /\ Len(cr') >= Len(cr)
      BY <1>1, <2>2
    <3> QED BY <3>1, <3>2, LinkOK
  <2>6. HandlerStep
    BY <1>1, <1>3, <1>5, <2>2, <2>5 DEF UsersKept
  <2> QED BY <1>1, <2>4, <2>5, <2>6, ClosersSame, RecordStep
<1> QED BY <1>4, <1>5 DEF FindRecord

LEMMA HandleRecordStep ==
  ASSUME MembershipInv, HandleRecord
  PROVE  MembershipInv'
<1> DEFINE c == handler.cr
<1>1. /\ c \in 1..Len(cr) /\ handler \in HandlerT /\ handler.at = "lock"
      /\ UNCHANGED <<members, user, closer, stop>>
  BY HandlerRecord DEF HandleRecord
<1>2. RecordsOK(cr, pc)
  BY RecordsAreOK
<1>3. ASSUME NEW clear \in BOOLEAN, NEW k, NEW r,
             k = IF clear THEN Close(pc, cr[c].pc) ELSE pc,
             r = IF clear THEN [cr EXCEPT ![c].pc = Nil] ELSE cr,
             Ignored(c, k, r) \/ Renegotiate(c, k, r) \/ GotSDP(c, k, r)
      PROVE  MembershipInv'
  <2>1. RecordsOK(cr, k)
    BY <1>2, <1>3, CloseOK
  <2>2. RecordsOK(r, k) /\ Len(r) = Len(cr)
    <3>1. [cr EXCEPT ![c].pc = Nil] \in Changed(cr, c, 0, 0) /\ 0 \in Nat
      BY DEF Changed, Nil
    <3>2. /\ RecordsOK([cr EXCEPT ![c].pc = Nil], k)
          /\ Len([cr EXCEPT ![c].pc = Nil]) = Len(cr)
      BY <2>1, <3>1, ChangedOK
    <3> QED BY <1>3, <2>1, <3>2
  <2>3. CASE Ignored(c, k, r)
    BY <1>1, <2>2, <2>3, DoneOK, PlainStep DEF Ignored
  <2>4. CASE Renegotiate(c, k, r)
    <3>1. RecordsOK(cr', pc')
      BY <1>1, <2>1, <2>4, CreateOK DEF Renegotiate
    <3> QED BY <1>1, <2>4, <3>1, DoneOK, PlainStep DEF Renegotiate
  <2>5. CASE GotSDP(c, k, r)
    <3>1. cr[c] \in ConnectionT
      BY <1>1, <1>2, ElementOfSeq DEF RecordsOK
    <3>2. cr[c].pc \in Nat
      BY <3>1 DEF ConnectionT
    <3>3. HandlerStep
      BY <1>1, <2>2, <2>5, <3>2, GotoOK DEF GotSDP
    <3> QED BY <1>1, <2>2, <2>5, <3>3, PlainStep DEF GotSDP
  <2> QED BY <1>3, <2>3, <2>4, <2>5
<1>4. CASE Reset(c) /\ handler' = Done
  <2>1. RecordsOK(cr', pc')
    BY <1>2, <1>4, ResetOK DEF Reset
  <2> QED BY <1>1, <1>4, <2>1, DoneOK, PlainStep
<1> QED BY <1>3, <1>4 DEF HandleRecord

LEMMA SDPStep ==
  ASSUME MembershipInv, SDPCreates \/ SDPApplies
  PROVE  MembershipInv'
<1> DEFINE c == handler.cr
           p == handler.pc
<1>1. /\ c \in 1..Len(cr) /\ handler \in HandlerT /\ handler.at = "sdp"
      /\ UNCHANGED <<members, user, closer, stop>>
  BY HandlerRecord DEF SDPCreates, SDPApplies
<1>2. RecordsOK(cr, pc)
  BY RecordsAreOK
<1>3. CASE SDPCreates
  <2>1. RecordsOK(cr', pc') /\ Len(cr') = Len(cr)
    BY <1>1, <1>2, <1>3, CreateOK DEF SDPCreates
  <2>2. CASE handler' = Done
    BY <1>1, <2>1, <2>2, DoneOK, PlainStep
  <2>3. CASE handler' = [handler EXCEPT !.pc = Len(pc) + 1]
    <3>1. Len(pc) + 1 \in Nat
      BY LenProperties DEF MembershipInv, Shape
    <3>2. handler' = [handler EXCEPT !.at = "sdp", !.pc = Len(pc) + 1]
      BY <1>1, <2>3 DEF HandlerT
    <3>3. HandlerStep
      BY <1>1, <2>1, <3>1, <3>2, GotoOK
    <3> QED BY <1>1, <2>1, <3>3, PlainStep
  <2> QED BY <1>3, <2>2, <2>3 DEF SDPCreates
<1>4. CASE SDPApplies
  <2>1. CASE Reset(c) /\ handler' = Done
    <3>1. RecordsOK(cr', pc')
      BY <1>2, <2>1, ResetOK DEF Reset
    <3> QED BY <1>1, <2>1, <3>1, DoneOK, PlainStep
  <2>2. CASE /\ pc' \in {pc, [pc EXCEPT ![p].state = "connected"]}
             /\ UNCHANGED cr
             /\ handler' = IF handler.target = Pipeline THEN Done
                           ELSE [handler EXCEPT !.at = "resurrect"]
    <3>1. RecordsOK(cr', pc')
      BY <1>2, <2>2, ConnectedOK
    <3>2. HandlerStep
      <4>1. CASE handler.target = Pipeline
        BY <2>2, <4>1, DoneOK
      <4>2. CASE handler.target # Pipeline
        <5>1. /\ p \in Nat
              /\ handler' = [handler EXCEPT !.at = "resurrect", !.pc = p]
          BY <1>1, <2>2, <4>2 DEF HandlerT
        <5> QED BY <1>1, <2>2, <4>2, <5>1, GotoOK
      <4> QED BY <4>1, <4>2
    <3> QED BY <1>1, <3>1, <3>2, PlainStep
  <2> QED BY <1>4, <2>1, <2>2 DEF SDPApplies
<1> QED BY <1>3, <1>4

LEMMA ResurrectStep ==
  ASSUME MembershipInv, Resurrect
  PROVE  MembershipInv'
<1> DEFINE v == members[handler.target]
           c == user[v].links[user[handler.source].id]
<1>1. /\ handler \in HandlerT /\ handler.at = "resurrect" /\ handler.target # Pipeline
      /\ handler.source \in 1..Len(user)
      /\ UNCHANGED <<members, user, cr, pc, closer, stop>>
  BY HandlerRecord DEF Resurrect, MembershipInv, HandlerPointers
<1>2. handler.target \in Users
  BY <1>1 DEF HandlerT, Peers
<1>3. CASE handler' = Done
  BY <1>1, <1>3, RecordsAreOK, DoneOK, PlainStep
<1>4. CASE v # Nil /\ c # Nil /\ handler' = [handler EXCEPT !.at = "revive", !.cr = c]
  <2>1. v \in 1..Len(user)
    BY <1>2, <1>4 DEF MembershipInv, MembersListed
  <2>2. user[handler.source].id \in Users
    BY <1>1, UserTyped
  <2>3. c \in 0..Len(cr) /\ Len(cr) \in Nat
    BY <2>1, <2>2, LenProperties DEF MembershipInv, Shape, UserPointers
  <2> HIDE DEF c
  <2>4. c \in 1..Len(cr) /\ c \in Nat
    BY <1>4, <2>3 DEF Nil
  <2>5. HandlerStep
    BY <1>1, <1>4, <2>4 DEF HandlerStep, HandlerT, HandlerPointers
  <2> QED BY <1>1, <2>5, RecordsAreOK, PlainStep
<1> QED BY <1>3, <1>4 DEF Resurrect

LEMMA ReviveStep ==
  ASSUME MembershipInv, Revive
  PROVE  MembershipInv'
<1> DEFINE c == handler.cr
<1>1. c \in 1..Len(cr) /\ handler' = Done /\ UNCHANGED <<members, user, closer, stop>>
  BY HandlerRecord DEF Revive
<1>2. RecordsOK(cr, pc)
  BY RecordsAreOK
<1>3. RecordsOK(cr', pc')
  BY <1>1, <1>2, CreateOK DEF Revive
<1> QED BY <1>1, <1>3, DoneOK, PlainStep

LEMMA HangupStep ==
  ASSUME MembershipInv, NEW i \in Users, Hangup(i)
  PROVE  MembershipInv'
<1> DEFINE U == {members[i]}
<1>1. /\ members[i] # Nil /\ members' = [members EXCEPT ![i] = Nil] /\ CloseUsers(U)
      /\ UNCHANGED <<cr, pc, handler, stop>>
  BY DEF Hangup
<1>2. members \in [Users -> Nat] /\ members' \in [Users -> Nat]
  BY <1>1 DEF MembershipInv, Shape, Nil
<1>3. HandlerStep
  <2>1. Len(user') = Len(user)
    BY <1>1, CloseUsersShape DEF MembershipInv
  <2> QED BY <1>1, <2>1 DEF MembershipInv, Shape, HandlerStep, HandlerPointers
<1>4. \A j \in Users : members'[j] = Nil <=> members[j] = Nil \/ members[j] \in U
  BY <1>1, <1>2 DEF MembershipInv, MembersListed
<1>5. \A j \in Users : members'[j] \in {members[j], Nil}
  BY <1>1, <1>2
<1> HIDE DEF U
<1> QED BY <1>1, <1>2, <1>3, <1>4, <1>5, RecordsAreOK, CloseStep

LEMMA StopStep ==
  ASSUME MembershipInv, Stop
  PROVE  MembershipInv'
<1>1. /\ CloseUsers(MemberRecords) /\ UNCHANGED <<members, cr, pc>> /\ stop' = "users"
      /\ handler' \in {handler, Ended}
  BY DEF Stop
<1>2. HandlerStep
  <2>1. Len(user') = Len(user)
    BY <1>1, CloseUsersShape DEF MembershipInv
  <2>2. CASE handler' = handler
    BY <1>1, <2>1, <2>2 DEF MembershipInv, Shape, HandlerStep, HandlerPointers
  <2>3. CASE handler' = Ended
    BY <2>3, DoneOK
  <2> QED BY <1>1, <2>2, <2>3
<1>3. members' \in [Users -> Nat] /\ \A j \in Users : members'[j] \in {members[j], Nil}
  BY <1>1 DEF MembershipInv, Shape
<1> QED BY <1>1, <1>2, <1>3, RecordsAreOK, CloseStep

LEMMA StopDoneStep ==
  ASSUME MembershipInv, StopDone
  PROVE  MembershipInv'
<1>1. /\ pc' = [p \in DOMAIN pc |-> [pc[p] EXCEPT !.destroys = FALSE]]
      /\ UNCHANGED <<members, user, cr, closer>> /\ stop' = "closed"
      /\ handler' = handler \/ handler' = Ended
  BY DEF StopDone
<1>2. pc \in [1..Len(pc) -> PeerConnectionT] /\ DOMAIN pc = 1..Len(pc) /\ Len(pc) \in Nat
  BY LenProperties DEF MembershipInv, Shape
<1>3. \A p \in 1..Len(pc) : pc'[p] \in PeerConnectionT /\ pc'[p].cr = pc[p].cr
  BY <1>1, <1>2 DEF PeerConnectionT
<1>4. pc' \in [1..Len(pc) -> PeerConnectionT]
  BY <1>1, <1>2, <1>3
<1>5. pc' \in Seq(PeerConnectionT) /\ Len(pc') = Len(pc)
  BY <1>2, <1>4, FunctionSeq
<1>6. RecordsOK(cr', pc')
  BY <1>1, <1>3, <1>5, RecordsAreOK DEF RecordsOK
<1>7. HandlerStep
  BY <1>1, DoneOK, HandlerSame
<1> QED BY <1>1, <1>6, <1>7, PlainStep

LEMMA PeerConnectionStep ==
  ASSUME MembershipInv, NEW p \in DOMAIN pc, Fail(p) \/ Watch(p)
  PROVE  MembershipInv'
<1>1. UNCHANGED <<members, user, cr, closer, handler, stop>>
  BY DEF Fail, Watch
<1>2. RecordsOK(cr, pc)
  BY RecordsAreOK
<1>3. CASE Fail(p)
  <2>1. pc' \in Touched(p)
    BY <1>3 DEF Fail, Touched
  <2> QED BY <1>1, <1>2, <2>1, TouchedOK, PlainStep
<1>4. CASE Watch(p)
  BY <1>1, <1>2, <1>4, CloseOK, PlainStep DEF Watch
<1> QED BY <1>3, <1>4

LEMMA DestroyStep ==
  ASSUME MembershipInv, NEW p \in DOMAIN pc, Destroy(p)
  PROVE  MembershipInv'
<1> DEFINE c == pc[p].cr
           u == cr[c].owner
           k == [pc EXCEPT ![p].destroys = FALSE]
<1>1. RecordsOK(cr, pc)
  BY RecordsAreOK
<1>2. k \in Touched(p)
  BY DEF Touched
<1>3. RecordsOK(cr, k)
  BY <1>1, <1>2, TouchedOK
<1>4. c \in 1..Len(cr) /\ u \in 1..Len(user)
  <2>1. p \in 1..Len(pc)
    BY LenProperties DEF MembershipInv, Shape
  <2> QED BY <2>1 DEF MembershipInv, PcPointers, OwnerPointers
<1>5. UNCHANGED <<handler, stop>>
  BY DEF Destroy
<1> HIDE DEF k
<1>6. CASE pc' = k /\ UNCHANGED <<members, user, cr, closer>>
  BY <1>3, <1>5, <1>6, PlainStep
<1>7. CASE /\ pc' = Close(k, cr[c].pc) /\ cr' = Emptied(c)
           /\ UNCHANGED <<members, user, closer>>
  BY <1>3, <1>5, <1>7, ResetOK, PlainStep
<1>8. CASE /\ pc' = Close(k, cr[c].pc) /\ cr' = Emptied(c)
           /\ user[u].default = c /\ members[user[u].id] = u
           /\ members' = [members EXCEPT ![user[u].id] = Nil]
           /\ CloseUsers({u})
  <2>1. RecordsOK(cr', pc') /\ Len(cr') = Len(cr)
    BY <1>3, <1>8, ResetOK
  <2>2. user[u].id \in Users
    BY <1>4, UserTyped
  <2>3. /\ members \in [Users -> Nat] /\ members' \in [Users -> Nat]
        /\ \A j \in Users : members'[j] \in {members[j], Nil}
    BY <1>8, <2>2 DEF MembershipInv, Shape, Nil
  <2>4. \A j \in Users : members'[j] = Nil <=> members[j] = Nil \/ members[j] = u
    <3>1. u # Nil
      BY <1>4 DEF Nil
    <3>2. \A j \in Users : members[j] = u => j = user[u].id
      BY <3>1 DEF MembershipInv, MembersListed
    <3> QED BY <1>8, <2>2, <2>3, <3>2
  <2>5. HandlerStep
    <3>1. Len(user') = Len(user)
      BY <1>8, CloseUsersShape DEF MembershipInv
    <3> QED BY <1>5, <2>1, <3>1 DEF MembershipInv, Shape, HandlerStep, HandlerPointers
  <2> HIDE DEF u
  <2> QED BY <1>5, <1>8, <2>1, <2>3, <2>4, <2>5, CloseStep
<1> QED BY <1>6, <1>7, <1>8 DEF Destroy, k

(* A close goroutine goes on.                                              *)
LEMMA CloserGoesOn ==
  ASSUME MembershipInv, NEW u \in 1..Len(user), closer[u].at # "none",
         NEW own \in SUBSET Peers, NEW others \in SUBSET Nat,
         \/ closer' = [closer EXCEPT ![u].own = own]
         \/ closer' = [closer EXCEPT ![u].others = others]
         \/ closer' = [closer EXCEPT ![u].at = "others", ![u].others = others]
  PROVE  ClosersKept
<1>1. /\ closer \in [1..Len(user) -> CloserT] /\ DOMAIN closer = 1..Len(user)
      /\ Len(user) \in Nat
  BY LenProperties DEF MembershipInv, Shape
<1>2. /\ \A v \in 1..Len(user) : v # u => closer'[v] = closer[v]
      /\ \/ closer'[u] = [closer[u] EXCEPT !.own = own]
         \/ closer'[u] = [closer[u] EXCEPT !.others = others]
         \/ closer'[u] = [closer[u] EXCEPT !.at = "others", !.others = others]
  BY <1>1
<1>3. closer'[u] \in CloserT
  BY <1>1, <1>2 DEF CloserT
<1>4. closer' \in [1..Len(user) -> CloserT]
  BY <1>1, <1>2, <1>3
<1>5. closer' \in Seq(CloserT) /\ Len(closer') = Len(closer)
  BY <1>1, <1>4, FunctionSeq DEF MembershipInv, Shape
<1> QED BY <1>2, <1>5 DEF ClosersKept

LEMMA CloserStep ==
  ASSUME MembershipInv, NEW u \in DOMAIN user, Closer(u)
  PROVE  MembershipInv'
<1>1. /\ u \in 1..Len(user) /\ closer[u] \in CloserT /\ closer[u].at # "none"
      /\ UNCHANGED <<members, handler, stop>>
  <2>1. u \in 1..Len(user) /\ u \in 1..Len(closer)
    BY LenProperties DEF MembershipInv, Shape
  <2>2. closer[u] \in CloserT
    BY <2>1, ElementOfSeq DEF MembershipInv, Shape
  <2> QED BY <2>1, <2>2 DEF Closer, CloserOwn, CloserCopies, CloserOther
<1>2. closer[u].own \in SUBSET Peers /\ closer[u].others \in SUBSET Nat
  BY <1>1 DEF CloserT
<1>3. RecordsOK(cr, pc)
  BY RecordsAreOK
<1>4. CASE CloserOwn(u)
  <2>1. PICK t : closer' = [closer EXCEPT ![u].own = closer[u].own \ {t}]
    BY <1>4 DEF CloserOwn
  <2>2. closer[u].own \ {t} \in SUBSET Peers
    BY <1>2
  <2>3. ClosersKept
    BY <1>1, <1>2, <2>1, <2>2, CloserGoesOn
  <2>4. UNCHANGED <<members, user, handler, stop>>
    BY <1>4 DEF CloserOwn
  <2>5. RecordsOK(cr', pc') /\ Len(cr') = Len(cr)
    BY <1>3, <1>4, ResetOK DEF CloserOwn, Reset
  <2> QED BY <2>3, <2>4, <2>5, UsersSame, HandlerSame, RecordStep
<1>5. CASE CloserCopies(u)
  <2> DEFINE O == {v \in MemberRecords : user[v].id # user[u].id}
  <2>1. closer' = [closer EXCEPT ![u].at = "others", ![u].others = O]
    BY <1>5 DEF CloserCopies
  <2>2. O \in SUBSET Nat
    BY DEF MemberRecords, MembershipInv, Shape
  <2> HIDE DEF O
  <2>3. ClosersKept
    BY <1>1, <1>2, <2>1, <2>2, CloserGoesOn
  <2>4. UNCHANGED <<members, user, cr, pc, handler, stop>>
    BY <1>5 DEF CloserCopies
  <2> QED BY <1>3, <2>3, <2>4, UsersSame, HandlerSame, RecordStep
<1>6. CASE CloserOther(u)
  <2> DEFINE c(v) == user[v].links[user[u].id]
  <2>1. PICK v \in closer[u].others :
          /\ closer' = [closer EXCEPT ![u].others = closer[u].others \ {v}]
          /\ \/ /\ user' = [user EXCEPT ![v].links[user[u].id] = Nil]
                /\ Reset(c(v))
             \/ UNCHANGED <<user, cr, pc>>
    BY <1>6 DEF CloserOther
  <2>2. closer[u].others \ {v} \in SUBSET Nat
    BY <1>2
  <2>3. ClosersKept
    BY <1>1, <1>2, <2>1, <2>2, CloserGoesOn
  <2>4. RecordsOK(cr', pc') /\ Len(cr') = Len(cr)
    BY <1>3, <2>1, ResetOK DEF Reset
  <2>5. UsersKept
    <3>1. CASE UNCHANGED user
      BY <2>4, <3>1, UsersSame
    <3>2. CASE user' = [user EXCEPT ![v].links[user[u].id] = Nil]
      <4>1. SetsLink(v, user[u].id, 0)
        BY <3>2 DEF SetsLink, Nil
      <4>2. Len(cr') \in Nat /\ Len(cr') >= Len(cr) /\ 0 \in 0..Len(cr')
        BY <2>4, LenProperties DEF RecordsOK
      <4> QED BY <4>1, <4>2, LinkOK
    <3> QED BY <2>1, <3>1, <3>2
  <2>6. HandlerStep
    BY <1>1, <2>4, <2>5 DEF MembershipInv, Shape, HandlerStep, HandlerPointers, UsersKept
  <2> QED BY <1>1, <2>3, <2>4, <2>5, <2>6, RecordStep
<1> QED BY <1>4, <1>5, <1>6 DEF Closer

LEMMA DeliverStep ==
  ASSUME MembershipInv, NEW u \in DOMAIN user, Deliver(u)
  PROVE  MembershipInv'
<1>1. PICK c : cr' = [cr EXCEPT ![c].bound = u]
  BY DEF Deliver
<1>2. u \in Nat /\ UNCHANGED <<members, user, pc, closer, handler, stop>>
  BY LenProperties DEF Deliver, MembershipInv, Shape
<1>3. cr' \in Changed(cr, c, 0, u)
  BY <1>1 DEF Changed
<1>4. RecordsOK(cr', pc') /\ Len(cr') = Len(cr)
  BY <1>2, <1>3, ChangedOK, RecordsAreOK
<1> QED BY <1>2, <1>4, PlainStep

LEMMA MembershipInit ==
  ASSUME MembershipAssumption, Init
  PROVE  MembershipInv
<1>1. /\ user = <<>> /\ cr = <<>> /\ pc = <<>> /\ closer = <<>>
      /\ members = [i \in Users |-> Nil] /\ handler = Idle
  BY DEF Init
<1>2. Shape
  BY <1>1, EmptySeq DEF Shape, Idle, HandlerT, Peers, Nil
<1>3. Len(user) = 0 /\ Len(cr) = 0 /\ Len(pc) = 0
  BY <1>1
<1> QED BY <1>1, <1>2, <1>3 DEF MembershipInv, UserPointers, OwnerPointers, PcPointers,
           HandlerPointers, Idle, CloserClosed, MembersListed, OpenAgree

LEMMA MembershipStep ==
  ASSUME MembershipAssumption, MembershipInv, [Next]_vars
  PROVE  MembershipInv'
<1>1. CASE UNCHANGED vars
  BY <1>1, RecordsAreOK, PlainStep DEF vars
<1>2. CASE FindSource \/ Handle
  BY <1>2, FindSourceStep, FindRecordStep, HandleRecordStep, SDPStep, ResurrectStep,
     ReviveStep DEF Handle
<1>3. CASE \E i \in Users : Hangup(i)
  BY <1>3, HangupStep
<1>4. CASE \E u \in DOMAIN user : Closer(u) \/ Deliver(u)
  BY <1>4, CloserStep, DeliverStep
<1>5. CASE \E p \in DOMAIN pc : Fail(p) \/ Watch(p) \/ Destroy(p)
  BY <1>5, PeerConnectionStep, DestroyStep
<1>6. CASE Stop \/ StopDone
  BY <1>6, StopStep, StopDoneStep
<1> QED BY <1>1, <1>2, <1>3, <1>4, <1>5, <1>6 DEF Next

LEMMA MembershipInvariant == Spec => []MembershipInv
<1>1. Init => MembershipInv
  BY MembershipAssumption, MembershipInit
<1>2. MembershipInv /\ [Next]_vars => MembershipInv'
  BY MembershipAssumption, MembershipStep
<1> QED BY <1>1, <1>2, PTL DEF Spec

(* Until it is stopped the channel has exactly its open users, for any     *)
(* number of users that come, leave and come back.                         *)
THEOREM OpenUsersListed == Spec => []OpenIffListed
<1>1. MembershipInv => OpenIffListed
  <2> SUFFICES ASSUME MembershipInv, stop = "no"
      PROVE  {u \in DOMAIN user : ~Closed(u)} = MemberRecords
    BY DEF OpenIffListed
  <2>1. DOMAIN user = 1..Len(user)
    BY LenProperties DEF MembershipInv, Shape
  <2>2. ASSUME NEW u \in 1..Len(user), ~Closed(u)
        PROVE  u \in MemberRecords
    <3>1. members[user[u].id] = u /\ u # Nil /\ user[u].id \in Users
      BY <2>2, UserTyped DEF MembershipInv, OpenAgree, Closed, Nil
    <3> QED BY <3>1 DEF MemberRecords
  <2>3. ASSUME NEW u \in MemberRecords
        PROVE  u \in 1..Len(user) /\ ~Closed(u)
    BY DEF MemberRecords, MembershipInv, MembersListed, OpenAgree, Closed
  <2> QED BY <2>1, <2>2, <2>3
<1> QED BY <1>1, MembershipInvariant, PTL

(* A peer connection that ends throws no user out whose default sender has *)
(* another that is open.                                                   *)
THEOREM LiveUsersSurvive == Spec => LiveUserSurvives
<1> DEFINE A == \A u \in DOMAIN user :
                 LET live == cr[user[u].default].pc IN
                 ~Closed(u) /\ user'[u].closed /\ Open(live)
                   => \A p \in DOMAIN pc : Destroy(p) => p = live
<1>1. ASSUME MembershipInv
      PROVE  A
  <2> SUFFICES ASSUME NEW u \in DOMAIN user, NEW p \in DOMAIN pc, Destroy(p),
                      ~Closed(u), user'[u].closed, Open(cr[user[u].default].pc)
      PROVE  p = cr[user[u].default].pc
    OBVIOUS
  <2> DEFINE c == pc[p].cr
             o == cr[c].owner
  <2>1. user' # user
    BY DEF Closed
  <2>2. cr[c].pc \in {p, Nil} /\ user[o].default = c /\ CloseUsers({o})
    BY <2>1 DEF Destroy
  <2>3. u \in 1..Len(user)
    BY <1>1, LenProperties DEF MembershipInv, Shape
  <2> HIDE DEF o
  <2>4. user'[u].closed = (user[u].closed \/ u \in {o})
    BY <1>1, <2>2, <2>3, CloseUsersShape DEF MembershipInv
  <2>5. u = o
    BY <2>4 DEF Closed
  <2> QED BY <2>2, <2>5 DEF Open
<1> HIDE DEF A
<1>2. MembershipInv /\ [Next]_vars => [A]_vars
  BY <1>1
<1>3. Spec => [][A]_vars
  BY <1>2, MembershipInvariant, PTL DEF Spec
<1> QED BY <1>3 DEF LiveUserSurvives, A

(* The close of a user takes no record from others that is bound to one    *)
(* who is still open.                                                      *)
THEOREM BoundLinksStay == Spec => BoundLinkStays
<1> DEFINE A == \A v \in DOMAIN user, i \in Users :
                 LET c == user[v].links[i] IN
                 /\ ~user'[v].closed
                 /\ c # Nil
                 /\ cr[c].bound # Nil
                 /\ ~Closed(cr[c].bound)
                 => user'[v].links[i] = c
<1>1. ASSUME MembershipInv, Next
      PROVE  A
  <2> SUFFICES ASSUME NEW v \in DOMAIN user, NEW i \in Users,
                      user[v].links[i] # Nil,
                      cr[user[v].links[i]].bound # Nil,
                      ~Closed(cr[user[v].links[i]].bound)
      PROVE  user'[v].links[i] = user[v].links[i]
    OBVIOUS
  <2>1. /\ v \in 1..Len(user) /\ DOMAIN user = 1..Len(user) /\ user \in Seq(UserT)
        /\ user \in [1..Len(user) -> UserT] /\ Len(user) \in Nat
    BY <1>1, LenProperties DEF MembershipInv, Shape
  <2>2. CASE UNCHANGED user
    BY <2>2
  <2>3. CASE \E U : CloseUsers(U)
    BY <1>1, <2>1, <2>3, CloseUsersShape DEF MembershipInv
  <2>4. CASE FindSource
    <3>1. PICK j \in Users, t \in Peers : Join(j, t) \/ Rejoin(j, t)
      BY <2>4 DEF FindSource
    <3>2. CASE Rejoin(j, t)
      BY <2>2, <3>2 DEF Rejoin
    <3>3. CASE Join(j, t)
      <4>1. user' = Append(user, NewUser(j))
        BY <3>3 DEF Join
      <4>2. user'[v] = user[v]
        BY <2>1, <4>1
      <4> QED BY <4>2
    <3> QED BY <3>1, <3>2, <3>3
  <2>5. CASE FindRecord
    <3> DEFINE w == handler.source
               t == handler.target
    <3>1. /\ w \in 1..Len(user) /\ t \in Users \cup {Pipeline}
          /\ \/ UNCHANGED user
             \/ /\ (IF t = Pipeline THEN user[w].default ELSE user[w].links[t]) = Nil
                /\ user' = [user EXCEPT ![w].links[t] = Len(cr) + 1]
      BY <1>1, <2>5 DEF FindRecord, MembershipInv, Shape, HandlerPointers, HandlerT, Peers
    <3>2. user[w].default # Nil
      BY <1>1, <3>1 DEF MembershipInv, UserPointers, Nil
    <3>3. user[v].links \in [Users -> Nat] /\ user[w].links \in [Users -> Nat]
      BY <2>1, <3>1 DEF UserT
    <3> HIDE DEF w, t
    <3>4. CASE /\ t # Pipeline /\ user[w].links[t] = Nil
               /\ user' = [user EXCEPT ![w].links[t] = Len(cr) + 1]
      <4>1. CASE v # w
        BY <2>1, <3>4, <4>1
      <4>2. CASE v = w
        <5>1. i # t
          BY <3>4, <4>2
        <5> QED BY <2>1, <3>3, <3>4, <4>2, <5>1 DEF UserT
      <4> QED BY <4>1, <4>2
    <3> QED BY <2>2, <3>1, <3>2, <3>4
  <2>6. ASSUME NEW u \in DOMAIN user, Closer(u)
        PROVE  user'[v].links[i] = user[v].links[i]
    <3>1. CASE CloserOther(u)
      <4>1. closer[u].at = "others"
        BY <3>1 DEF CloserOther
      <4>2. Closed(u)
        BY <1>1, <2>1, <4>1 DEF MembershipInv, CloserClosed, Closed
      <4>3. PICK w : \/ UNCHANGED user
                     \/ /\ Removes(u, user[w].links[user[u].id])
                        /\ user' = [user EXCEPT ![w].links[user[u].id] = Nil]
        BY <3>1 DEF CloserOther
      <4>4. CASE /\ Removes(u, user[w].links[user[u].id])
                 /\ user' = [user EXCEPT ![w].links[user[u].id] = Nil]
        <5>1. ~(v = w /\ i = user[u].id)
          BY <4>2, <4>4 DEF Removes
        <5>2. user[v].links \in [Users -> Nat]
          BY <2>1 DEF UserT
        <5>3. CASE v # w
          BY <2>1, <4>4, <5>3
        <5>4. CASE v = w /\ i # user[u].id
          BY <2>1, <4>4, <5>2, <5>4 DEF UserT
        <5> QED BY <5>1, <5>3, <5>4
      <4> QED BY <2>2, <4>3, <4>4
    <3>2. CASE CloserOwn(u) \/ CloserCopies(u)
      BY <2>2, <3>2 DEF CloserOwn, CloserCopies
    <3> QED BY <2>6, <3>1, <3>2 DEF Closer
  <2>7. CASE HandleRecord \/ SDPCreates \/ SDPApplies \/ Resurrect \/ Revive
    BY <2>2, <2>7 DEF HandleRecord, SDPCreates, SDPApplies, Resurrect, Revive
  <2>8. CASE \E u \in DOMAIN user : Deliver(u)
    BY <2>2, <2>8 DEF Deliver
  <2>9. CASE \E p \in DOMAIN pc : Fail(p) \/ Watch(p) \/ Destroy(p)
    BY <2>2, <2>3, <2>9 DEF Fail, Watch, Destroy
  <2>10. CASE (\E j \in Users : Hangup(j)) \/ Stop \/ StopDone
    BY <2>2, <2>3, <2>10 DEF Hangup, Stop, StopDone
  <2> QED BY <1>1, <2>4, <2>5, <2>6, <2>7, <2>8, <2>9, <2>10 DEF Next, Handle
<1> HIDE DEF A
<1>2. MembershipInv /\ [Next]_vars => [A]_vars
  BY <1>1
<1>3. Spec => [][A]_vars
  BY <1>2, MembershipInvariant, PTL DEF Spec
<1> QED BY <1>3 DEF BoundLinkStays, A

-----------------------------------------------------------------------------
(***************************************************************************)
(* The close of a user leaves it no peer connection.  DisconnectInv says   *)
(* why: an open peer connection is that of its record, and unless it is an *)
(* orphan, its record has its place in the maps of its user; when that is  *)
(* closed its close goroutine has the place still to come.  What follows   *)
(* that is about Channel.Stop.                                             *)
(***************************************************************************)

Live(p) == pc[p].state # "closed"

OwnPc == \A p \in 1..Len(pc) : Live(p) => cr[pc[p].cr].pc = p

Comes(u, t) == closer[u].at = "own" /\ t \in closer[u].own
AttendedTo(c) ==
  /\ Listed(c)
  /\ user[cr[c].owner].closed => Comes(cr[c].owner, cr[c].peer)
Attended == \A p \in 1..Len(pc) : Live(p) /\ ~pc[p].orphan => AttendedTo(pc[p].cr)

(* Nobody has a record for itself, which the goroutine would not come to.  *)
NotItself == \A c \in 1..Len(cr) : cr[c].peer # user[cr[c].owner].id

(* A message without peer connection finds its record without.             *)
HandlerFree ==
  /\ handler.at = "found" => handler.target # user[handler.source].id
  /\ handler.at = "sdp" /\ handler.pc = Nil => cr[handler.cr].pc = Nil

DisconnectInv == OwnPc /\ Attended /\ NotItself /\ HandlerFree

-----------------------------------------------------------------------------
(* What a step leaves: no record gets another owner or peer; none of the   *)
(* peer connections is opened; those open are their records' own.          *)
RecordsStay ==
  /\ Len(cr') >= Len(cr)
  /\ \A c \in 1..Len(cr) : cr'[c].owner = cr[c].owner /\ cr'[c].peer = cr[c].peer
PcsStay ==
  /\ Len(pc') = Len(pc)
  /\ \A p \in 1..Len(pc) :
       /\ pc'[p].cr = pc[p].cr /\ pc'[p].orphan = pc[p].orphan
       /\ pc'[p].state # "closed" => Live(p) /\ cr'[pc[p].cr].pc = p

LEMMA Pointers ==
  ASSUME MembershipInv
  PROVE  /\ Len(cr) \in Nat /\ Len(pc) \in Nat /\ Len(user) \in Nat
         /\ DOMAIN pc = 1..Len(pc) /\ DOMAIN user = 1..Len(user) /\ DOMAIN cr = 1..Len(cr)
         /\ \A p \in 1..Len(pc) : pc[p] \in PeerConnectionT /\ pc[p].cr \in 1..Len(cr)
         /\ \A c \in 1..Len(cr) : cr[c] \in ConnectionT /\ cr[c].owner \in 1..Len(user)
         /\ \A u \in 1..Len(user) : user[u] \in UserT /\ closer[u] \in CloserT
<1>1. /\ Len(cr) \in Nat /\ Len(pc) \in Nat /\ Len(user) \in Nat
      /\ DOMAIN pc = 1..Len(pc) /\ DOMAIN user = 1..Len(user) /\ DOMAIN cr = 1..Len(cr)
  BY LenProperties DEF MembershipInv, Shape
<1>2. /\ \A p \in 1..Len(pc) : pc[p] \in PeerConnectionT
      /\ \A c \in 1..Len(cr) : cr[c] \in ConnectionT
      /\ \A u \in 1..Len(user) : user[u] \in UserT /\ closer[u] \in CloserT
  BY ElementOfSeq DEF MembershipInv, Shape
<1> QED BY <1>1, <1>2 DEF MembershipInv, PcPointers, OwnerPointers

LEMMA OwnPcStays ==
  ASSUME MembershipInv, RecordsStay, PcsStay
  PROVE  OwnPc'
BY DEF PcsStay, OwnPc, Live

(* It is enough to look at the records of those that stay open.            *)
LEMMA AttendedNext ==
  ASSUME MembershipInv, DisconnectInv, PcsStay,
         \A p \in 1..Len(pc) : \A c \in 1..Len(cr) :
           pc[p].cr = c /\ pc'[p].state # "closed" /\ AttendedTo(c) => AttendedTo(c)'
  PROVE  Attended'
<1>1. ASSUME NEW p \in 1..Len(pc), pc'[p].state # "closed", ~pc'[p].orphan
      PROVE  \E c \in 1..Len(cr) : pc'[p].cr = c /\ AttendedTo(c)'
  <2>1. /\ Live(p) /\ ~pc[p].orphan /\ pc'[p].cr = pc[p].cr
    BY <1>1 DEF PcsStay
  <2>2. pc[p].cr \in 1..Len(cr) /\ AttendedTo(pc[p].cr)
    BY <2>1, Pointers DEF DisconnectInv, Attended
  <2> QED BY <1>1, <2>1, <2>2
<1>2. ASSUME NEW p \in 1..Len(pc), pc'[p].state # "closed", ~pc'[p].orphan
      PROVE  AttendedTo(pc[p].cr)'
  <2>1. PICK c \in 1..Len(cr) : pc'[p].cr = c /\ AttendedTo(c)'
    BY <1>1, <1>2
  <2> QED BY <2>1 DEF AttendedTo, Listed, Comes
<1>3. Len(pc') = Len(pc)
  BY DEF PcsStay
<1> QED BY <1>2, <1>3 DEF Attended, Live

(* Users and goroutines stay, and with them who is attended to.            *)
LEMMA AttendedStays ==
  ASSUME MembershipInv, DisconnectInv, RecordsStay, PcsStay, UNCHANGED <<user, closer>>
  PROVE  OwnPc' /\ Attended'
<1>1. ASSUME NEW c \in 1..Len(cr), AttendedTo(c)
      PROVE  AttendedTo(c)'
  BY <1>1 DEF RecordsStay, AttendedTo, Listed, Comes
<1> QED BY <1>1, AttendedNext, OwnPcStays

(* Records that are there keep owner and peer.                             *)
LEMMA NotItselfStays ==
  ASSUME MembershipInv, DisconnectInv, RecordsStay, Len(cr') = Len(cr),
         \A u \in 1..Len(user) : user'[u].id = user[u].id
  PROVE  NotItself'
BY Pointers DEF DisconnectInv, NotItself, RecordsStay

LEMMA CloseFields ==
  ASSUME NEW k \in Seq(PeerConnectionT), NEW p
  PROVE  /\ Len(Close(k, p)) = Len(k)
         /\ \A q \in 1..Len(k) :
              /\ Close(k, p)[q].cr = k[q].cr /\ Close(k, p)[q].orphan = k[q].orphan
              /\ Close(k, p)[q].state # "closed" => k[q].state # "closed" /\ q # p
<1>1. k \in [1..Len(k) -> PeerConnectionT] /\ DOMAIN k = 1..Len(k)
  BY LenProperties
<1>2. Len(Close(k, p)) = Len(k)
  BY CloseShape
<1>3. CASE p = Nil \/ k[p].state = "closed"
  <2>1. Close(k, p) = k
    BY <1>3 DEF Close
  <2>2. Nil \notin 1..Len(k)
    BY DEF Nil
  <2> QED BY <1>2, <1>3, <2>1, <2>2
<1>4. CASE ~(p = Nil \/ k[p].state = "closed")
  <2>1. Close(k, p) = [k EXCEPT ![p].state = "closed", ![p].destroys = ~ChannelClosed]
    BY <1>4 DEF Close
  <2> QED BY <1>1, <1>2, <2>1 DEF PeerConnectionT
<1> QED BY <1>3, <1>4

(* The record c loses its peer connection, which is closed.                *)
Released(c) == {Emptied(c), [cr EXCEPT ![c].pc = Nil]}

LEMMA ReleaseStays ==
  ASSUME MembershipInv, DisconnectInv, NEW c, NEW r \in Released(c), NEW k,
         r = cr', Len(k) = Len(pc), k \in Seq(PeerConnectionT),
         \A p \in 1..Len(pc) :
           /\ k[p].cr = pc[p].cr /\ k[p].orphan = pc[p].orphan
           /\ k[p].state = pc[p].state,
         pc' = Close(k, cr[c].pc)
  PROVE  RecordsStay /\ PcsStay /\ Len(cr') = Len(cr)
<1>1. cr \in [1..Len(cr) -> ConnectionT] /\ Len(cr) \in Nat /\ DOMAIN cr = 1..Len(cr)
  BY LenProperties DEF MembershipInv, Shape
<1>2. /\ Len(cr') = Len(cr)
      /\ \A d \in 1..Len(cr) :
           /\ cr'[d].owner = cr[d].owner /\ cr'[d].peer = cr[d].peer
           /\ d # c => cr'[d].pc = cr[d].pc
  <2>1. CASE r = Emptied(c)
    <3>1. \A d \in 1..Len(cr) :
            /\ cr'[d].owner = cr[d].owner /\ cr'[d].peer = cr[d].peer
            /\ d # c => cr'[d].pc = cr[d].pc
      BY <1>1, <2>1 DEF Emptied, ConnectionT
    <3>2. r \in Changed(cr, c, 0, 0)
      BY <2>1 DEF Changed, Emptied, Nil
    <3> QED BY <3>1, <3>2, ChangedShape DEF MembershipInv, Shape
  <2>2. CASE r = [cr EXCEPT ![c].pc = Nil]
    <3>1. \A d \in 1..Len(cr) :
            /\ cr'[d].owner = cr[d].owner /\ cr'[d].peer = cr[d].peer
            /\ d # c => cr'[d].pc = cr[d].pc
      BY <1>1, <2>2 DEF ConnectionT
    <3>2. r \in Changed(cr, c, 0, 0)
      BY <2>2 DEF Changed, Nil
    <3> QED BY <3>1, <3>2, ChangedShape DEF MembershipInv, Shape
  <2> QED BY <2>1, <2>2 DEF Released
<1>3. RecordsStay
  BY <1>1, <1>2 DEF RecordsStay
<1>4. /\ Len(pc') = Len(pc)
      /\ \A p \in 1..Len(pc) :
           /\ pc'[p].cr = pc[p].cr /\ pc'[p].orphan = pc[p].orphan
           /\ pc'[p].state # "closed" => pc[p].state # "closed" /\ p # cr[c].pc
  BY CloseFields
<1>5. ASSUME NEW p \in 1..Len(pc), pc'[p].state # "closed"
      PROVE  Live(p) /\ cr'[pc[p].cr].pc = p
  <2>1. Live(p) /\ p # cr[c].pc
    BY <1>4, <1>5 DEF Live
  <2>2. cr[pc[p].cr].pc = p /\ pc[p].cr \in 1..Len(cr)
    BY <2>1, Pointers DEF DisconnectInv, OwnPc
  <2> QED BY <1>2, <2>1, <2>2
<1> QED BY <1>2, <1>3, <1>4, <1>5 DEF PcsStay

(* The record c gets a peer connection when none of its is open in k.      *)
LEMMA CreateStays ==
  ASSUME MembershipInv, DisconnectInv, UNCHANGED <<user, closer>>,
         NEW c \in 1..Len(cr), NEW k \in Seq(PeerConnectionT), Len(k) = Len(pc),
         \A p \in 1..Len(pc) :
           /\ k[p].cr = pc[p].cr /\ k[p].orphan = pc[p].orphan
           /\ k[p].state # "closed" => Live(p) /\ pc[p].cr # c,
         NEW state \in {"new", "connected", "closed"}, Create(c, k, state)
  PROVE  OwnPc' /\ Attended' /\ NotItself'
<1> DEFINE n == Len(pc) + 1
           e == NewPeerConnection(c, state)
<1>1. /\ cr \in [1..Len(cr) -> ConnectionT] /\ cr \in Seq(ConnectionT)
      /\ Len(cr) \in Nat /\ Len(pc) \in Nat /\ n \in Nat /\ c \in Nat
  BY LenProperties DEF MembershipInv, Shape
<1>2. e \in PeerConnectionT /\ e.cr = c /\ (~e.orphan => ~user[cr[c].owner].closed /\ Listed(c))
  BY <1>1 DEF NewPeerConnection, PeerConnectionT, Closed
<1>3. pc' = Append(k, e) /\ cr' = [cr EXCEPT ![c].pc = n] /\ n = Len(pc) + 1
  BY DEF Create
<1> HIDE DEF e, n
<1>4. /\ Len(pc') = n
      /\ \A p \in 1..n : pc'[p] = IF p = n THEN e ELSE k[p]
  BY <1>1, <1>2, <1>3, AppendProperties
<1>5. /\ Len(cr') = Len(cr)
      /\ \A d \in 1..Len(cr) :
           /\ cr'[d].owner = cr[d].owner /\ cr'[d].peer = cr[d].peer
           /\ cr'[d].pc = IF d = c THEN n ELSE cr[d].pc
  <2>1. cr' \in Changed(cr, c, n, 0) /\ 0 \in Nat
    BY <1>3 DEF Changed
  <2>2. Len(cr') = Len(cr)
    BY <1>1, <2>1, RecordsAreOK, ChangedOK
  <2> QED BY <1>1, <1>3, <2>2 DEF ConnectionT
<1>6. RecordsStay
  BY <1>1, <1>5 DEF RecordsStay
<1>7. \A d \in 1..Len(cr) : Listed(d) => Listed(d)'
  BY <1>5 DEF Listed
<1>8. \A d \in 1..Len(cr) : AttendedTo(d) => AttendedTo(d)'
  BY <1>5, <1>7 DEF AttendedTo, Comes
<1>9. ASSUME NEW p \in 1..Len(pc'), pc'[p].state # "closed"
      PROVE  /\ cr'[pc'[p].cr].pc = p
             /\ ~pc'[p].orphan => \E d \in 1..Len(cr) : pc'[p].cr = d /\ AttendedTo(d)'
  <2>1. CASE p = n
    <3>1. pc'[p] = e
      BY <1>4, <2>1
    <3>2. ~e.orphan => AttendedTo(c)'
      BY <1>2, <1>5, <1>7 DEF AttendedTo
    <3> QED BY <1>2, <1>5, <2>1, <3>1, <3>2
  <2>2. CASE p # n
    <3>1. p \in 1..Len(pc) /\ pc'[p] = k[p]
      BY <1>1, <1>3, <1>4, <2>2
    <3>2. Live(p) /\ pc[p].cr # c /\ pc'[p].cr = pc[p].cr /\ pc'[p].orphan = pc[p].orphan
      BY <1>9, <3>1 DEF Live
    <3>3. pc[p].cr \in 1..Len(cr)
      BY <3>1, Pointers
    <3>4. cr[pc[p].cr].pc = p /\ (~pc[p].orphan => AttendedTo(pc[p].cr))
      BY <3>1, <3>2 DEF DisconnectInv, OwnPc, Attended
    <3> QED BY <1>5, <1>8, <3>2, <3>3, <3>4
  <2> QED BY <2>1, <2>2
<1>10. OwnPc'
  BY <1>9 DEF OwnPc, Live
<1>11. ASSUME NEW p \in 1..Len(pc'), pc'[p].state # "closed", ~pc'[p].orphan
       PROVE  AttendedTo(pc[p].cr)'
  <2>1. PICK d \in 1..Len(cr) : pc'[p].cr = d /\ AttendedTo(d)'
    BY <1>9, <1>11
  <2> QED BY <2>1 DEF AttendedTo, Listed, Comes
<1>12. NotItself'
  BY <1>5, <1>6, NotItselfStays
<1> QED BY <1>10, <1>11, <1>12 DEF Attended, Live

(* The peer connections stay, but for a callback or the state of one.      *)
LEMMA TouchedStays ==
  ASSUME MembershipInv, DisconnectInv, NEW p, NEW k \in Touched(p),
         k = [pc EXCEPT ![p].state = "connected"] => (p \in 1..Len(pc) => Live(p))
  PROVE  /\ k \in Seq(PeerConnectionT) /\ Len(k) = Len(pc)
         /\ \A q \in 1..Len(pc) :
              /\ k[q].cr = pc[q].cr /\ k[q].orphan = pc[q].orphan
              /\ k[q].state # "closed" => Live(q)
<1>1. pc \in [1..Len(pc) -> PeerConnectionT] /\ DOMAIN pc = 1..Len(pc) /\ Len(pc) \in Nat
  BY LenProperties DEF MembershipInv, Shape
<1>2. ASSUME NEW q \in 1..Len(pc)
      PROVE  /\ k[q] \in PeerConnectionT
             /\ k[q].cr = pc[q].cr /\ k[q].orphan = pc[q].orphan
             /\ k[q].state # "closed" => Live(q)
  <2>1. CASE k = [pc EXCEPT ![p].state = "connected"]
    BY <1>1, <2>1 DEF PeerConnectionT, Live
  <2>2. CASE k = [pc EXCEPT ![p].destroys = TRUE]
    BY <1>1, <2>2 DEF PeerConnectionT, Live
  <2>3. CASE k = [pc EXCEPT ![p].destroys = FALSE]
    BY <1>1, <2>3 DEF PeerConnectionT, Live
  <2> QED BY <2>1, <2>2, <2>3 DEF Touched
<1>3. k \in [1..Len(pc) -> PeerConnectionT]
  BY <1>1, <1>2 DEF Touched
<1> QED BY <1>1, <1>2, <1>3, FunctionSeq

LEMMA TouchedKept ==
  ASSUME MembershipInv, DisconnectInv, NEW p, UNCHANGED cr,
         pc' \in Touched(p), p \in 1..Len(pc) => Live(p)
  PROVE  RecordsStay /\ PcsStay
<1>1. /\ Len(pc') = Len(pc)
      /\ \A q \in 1..Len(pc) :
           /\ pc'[q].cr = pc[q].cr /\ pc'[q].orphan = pc[q].orphan
           /\ pc'[q].state # "closed" => Live(q)
  BY TouchedStays
<1> QED BY <1>1, Pointers DEF RecordsStay, PcsStay, DisconnectInv, OwnPc

-----------------------------------------------------------------------------
(* The steps. *)
PartsStay == OwnPc' /\ Attended' /\ NotItself'

(* Steps that release a record or leave all as it is.                      *)
LEMMA PlainStays ==
  ASSUME MembershipInv, DisconnectInv, RecordsStay, PcsStay,
         UNCHANGED <<user, closer>>, Len(cr') = Len(cr)
  PROVE  PartsStay
BY AttendedStays, NotItselfStays DEF PartsStay

LEMMA SameStays ==
  ASSUME MembershipInv, DisconnectInv, UNCHANGED <<cr, pc>>
  PROVE  RecordsStay /\ PcsStay /\ Len(cr') = Len(cr)
BY Pointers DEF RecordsStay, PcsStay, DisconnectInv, OwnPc, Live

LEMMA ResetStays ==
  ASSUME MembershipInv, DisconnectInv, NEW c, Reset(c)
  PROVE  RecordsStay /\ PcsStay /\ Len(cr') = Len(cr)
<1>1. Emptied(c) \in Released(c) /\ pc \in Seq(PeerConnectionT)
  BY DEF Released, MembershipInv, Shape
<1> QED BY <1>1, ReleaseStays DEF Reset

LEMMA HandleRecordStays ==
  ASSUME MembershipInv, DisconnectInv, HandleRecord
  PROVE  PartsStay /\ HandlerFree'
<1> DEFINE c == handler.cr
<1>1. /\ c \in 1..Len(cr) /\ handler.at = "lock" /\ UNCHANGED <<user, closer>>
      /\ pc \in Seq(PeerConnectionT)
  BY HandlerRecord DEF HandleRecord, MembershipInv, Shape
<1>2. ASSUME handler' = Done
      PROVE  HandlerFree'
  BY <1>2 DEF Done, Idle, Ended, HandlerFree
<1>3. CASE Reset(c) /\ handler' = Done
  BY <1>1, <1>2, <1>3, ResetStays, PlainStays
<1>4. ASSUME NEW clear \in BOOLEAN, NEW k, NEW r,
             k = IF clear THEN Close(pc, cr[c].pc) ELSE pc,
             r = IF clear THEN [cr EXCEPT ![c].pc = Nil] ELSE cr,
             Ignored(c, k, r) \/ Renegotiate(c, k, r) \/ GotSDP(c, k, r)
      PROVE  PartsStay /\ HandlerFree'
  <2>1. ASSUME pc' = k, cr' = r
        PROVE  PartsStay
    <3>1. CASE clear
      <4>1. [cr EXCEPT ![c].pc = Nil] \in Released(c)
        BY DEF Released
      <4>2. cr' = [cr EXCEPT ![c].pc = Nil] /\ pc' = Close(pc, cr[c].pc)
        BY <1>4, <2>1, <3>1
      <4> QED BY <1>1, <4>1, <4>2, ReleaseStays, PlainStays
    <3>2. CASE ~clear
      BY <1>1, <1>4, <2>1, <3>2, SameStays, PlainStays
    <3> QED BY <3>1, <3>2
  <2>2. CASE Ignored(c, k, r)
    BY <1>2, <2>1, <2>2 DEF Ignored
  <2>3. CASE GotSDP(c, k, r)
    <3>1. handler' = [handler EXCEPT !.at = "sdp", !.pc = cr[c].pc] /\ handler \in HandlerT
      BY <2>3 DEF GotSDP, MembershipInv, Shape
    <3>2. handler'.at = "sdp" /\ handler'.pc = cr[c].pc /\ handler'.cr = c
      BY <3>1 DEF HandlerT
    <3>3. cr[c].pc = Nil => cr'[c].pc = Nil
      <4>1. cr' = r /\ cr \in [1..Len(cr) -> ConnectionT]
        BY <2>3, LenProperties DEF GotSDP, MembershipInv, Shape
      <4> QED BY <1>1, <1>4, <4>1 DEF ConnectionT
    <3>4. HandlerFree'
      BY <3>2, <3>3 DEF HandlerFree
    <3> QED BY <2>1, <2>3, <3>4 DEF GotSDP
  <2>4. CASE Renegotiate(c, k, r)
    <3>1. /\ k \in Seq(PeerConnectionT) /\ Len(k) = Len(pc)
          /\ \A p \in 1..Len(pc) :
               /\ k[p].cr = pc[p].cr /\ k[p].orphan = pc[p].orphan
               /\ k[p].state # "closed" => Live(p) /\ pc[p].cr # c
      <4>1. \A p \in 1..Len(pc) : Live(p) => cr[pc[p].cr].pc = p /\ pc[p].cr \in 1..Len(cr)
        BY Pointers DEF DisconnectInv, OwnPc
      <4>2. CASE clear
        BY <1>1, <1>4, <4>1, <4>2, CloseFields, CloseShape DEF Live
      <4>3. CASE ~clear
        <5>1. cr[c].pc = Nil /\ k = pc
          BY <1>4, <2>4, <4>3 DEF Renegotiate
        <5> QED BY <1>1, <4>1, <5>1 DEF Live, Nil
      <4> QED BY <4>2, <4>3
    <3>2. Create(c, k, "new") /\ handler' = Done
      BY <2>4 DEF Renegotiate
    <3> HIDE DEF c
    <3>3. PartsStay
      BY <1>1, <3>1, <3>2, CreateStays DEF PartsStay
    <3> QED BY <1>2, <3>2, <3>3
  <2> QED BY <1>4, <2>2, <2>3, <2>4
<1> QED BY <1>3, <1>4 DEF HandleRecord

(* A handler that neither looks for a record nor has an SDP.               *)
LEMMA HandlerFreeAway ==
  ASSUME handler'.at \notin {"found", "sdp"}
  PROVE  HandlerFree'
BY DEF HandlerFree

(* One that stays where it is, while the record it has gets nothing.       *)
LEMMA HandlerFreeStays ==
  ASSUME DisconnectInv, MembershipInv, UNCHANGED handler,
         \A u \in 1..Len(user) : user'[u].id = user[u].id,
         \A c \in 1..Len(cr) : cr[c].pc = Nil => cr'[c].pc = Nil
  PROVE  HandlerFree'
<1>1. /\ handler.at = "found" => handler.source \in 1..Len(user)
      /\ handler.at = "sdp" => handler.cr \in 1..Len(cr)
  BY DEF MembershipInv, HandlerPointers
<1> QED BY <1>1 DEF DisconnectInv, HandlerFree

LEMMA HandlerDone ==
  ASSUME handler' = Done \/ handler' = Idle \/ handler' = Ended
  PROVE  HandlerFree'
BY DEF Done, Idle, Ended, HandlerFree

LEMMA SDPStays ==
  ASSUME MembershipInv, DisconnectInv, SDPCreates \/ SDPApplies
  PROVE  PartsStay /\ HandlerFree'
<1> DEFINE c == handler.cr
           p == handler.pc
<1>1. /\ c \in 1..Len(cr) /\ handler.at = "sdp" /\ handler \in HandlerT
      /\ UNCHANGED <<user, closer>> /\ pc \in Seq(PeerConnectionT)
      /\ Len(pc) \in Nat
  BY HandlerRecord, LenProperties DEF SDPCreates, SDPApplies, MembershipInv, Shape
<1>2. CASE SDPCreates
  <2>1. cr[c].pc = Nil /\ Create(c, pc, "new")
    BY <1>1, <1>2 DEF DisconnectInv, HandlerFree, SDPCreates
  <2>2. \A q \in 1..Len(pc) : pc[q].state # "closed" => Live(q) /\ pc[q].cr # c
    BY <2>1 DEF DisconnectInv, OwnPc, Live, Nil
  <2>3. HandlerFree'
    <3>1. CASE handler' = Done
      BY <3>1, HandlerDone
    <3>2. CASE handler' = [handler EXCEPT !.pc = Len(pc) + 1]
      <4>1. handler'.at = "sdp" /\ handler'.pc # Nil
        BY <1>1, <3>2 DEF HandlerT, Nil
      <4> QED BY <4>1 DEF HandlerFree
    <3> QED BY <1>2, <3>1, <3>2 DEF SDPCreates
  <2> HIDE DEF c
  <2> QED BY <1>1, <2>1, <2>2, <2>3, CreateStays DEF PartsStay
<1>3. CASE SDPApplies
  <2>1. CASE Reset(c) /\ handler' = Done
    BY <1>1, <2>1, ResetStays, PlainStays, HandlerDone
  <2>2. CASE /\ pc[p].state # "closed"
             /\ pc' \in {pc, [pc EXCEPT ![p].state = "connected"]}
             /\ UNCHANGED cr
             /\ handler' = IF handler.target = Pipeline THEN Done
                           ELSE [handler EXCEPT !.at = "resurrect"]
    <3>1. HandlerFree'
      <4>1. CASE handler' = Done
        BY <4>1, HandlerDone
      <4>2. CASE handler' = [handler EXCEPT !.at = "resurrect"]
        BY <1>1, <4>2, HandlerFreeAway DEF HandlerT
      <4> QED BY <2>2, <4>1, <4>2
    <3>2. CASE pc' = pc
      BY <1>1, <2>2, <3>1, <3>2, SameStays, PlainStays
    <3>3. CASE pc' = [pc EXCEPT ![p].state = "connected"]
      <4>1. pc' \in Touched(p) /\ (p \in 1..Len(pc) => Live(p))
        BY <2>2, <3>3 DEF Touched, Live
      <4>2. RecordsStay /\ PcsStay
        BY <2>2, <4>1, TouchedKept
      <4> QED BY <1>1, <2>2, <3>1, <4>2, PlainStays
    <3> QED BY <2>2, <3>2, <3>3
  <2> QED BY <1>3, <2>1, <2>2 DEF SDPApplies
<1> QED BY <1>2, <1>3

LEMMA ReviveStays ==
  ASSUME MembershipInv, DisconnectInv, Resurrect \/ Revive
  PROVE  PartsStay /\ HandlerFree'
<1> DEFINE c == handler.cr
<1>1. /\ c \in 1..Len(cr) /\ handler \in HandlerT
      /\ UNCHANGED <<user, closer>> /\ pc \in Seq(PeerConnectionT)
  BY HandlerRecord DEF Resurrect, Revive, MembershipInv, Shape
<1>2. CASE Resurrect
  <2>1. UNCHANGED <<cr, pc>>
    BY <1>2 DEF Resurrect
  <2>2. HandlerFree'
    <3>1. CASE handler' = Done
      BY <3>1, HandlerDone
    <3>2. CASE \E e : handler' = [handler EXCEPT !.at = "revive", !.cr = e]
      BY <1>1, <3>2, HandlerFreeAway DEF HandlerT
    <3> QED BY <1>2, <3>1, <3>2 DEF Resurrect
  <2> QED BY <1>1, <2>1, <2>2, SameStays, PlainStays
<1>3. CASE Revive
  <2>1. HandlerFree'
    BY <1>3, HandlerDone DEF Revive
  <2>2. CASE UNCHANGED <<cr, pc>>
    BY <1>1, <2>1, <2>2, SameStays, PlainStays
  <2>3. CASE cr[c].pc = Nil /\ Create(c, pc, "new")
    <3>1. \A q \in 1..Len(pc) : pc[q].state # "closed" => Live(q) /\ pc[q].cr # c
      BY <2>3 DEF DisconnectInv, OwnPc, Live, Nil
    <3> HIDE DEF c
    <3> QED BY <1>1, <2>1, <2>3, <3>1, CreateStays DEF PartsStay
  <2> QED BY <1>3, <2>1, <2>2, <2>3 DEF Revive
<1> QED BY <1>2, <1>3

(* Callbacks, the watcher and the end of Stop.                             *)
LEMMA PeerConnectionStays ==
  ASSUME MembershipInv, DisconnectInv, NEW p \in DOMAIN pc, Fail(p) \/ Watch(p)
  PROVE  PartsStay /\ HandlerFree'
<1>1. UNCHANGED <<user, cr, closer, handler>>
  BY DEF Fail, Watch
<1>2. HandlerFree'
  BY <1>1, HandlerFreeStays
<1>3. CASE Fail(p)
  <2>1. pc' \in Touched(p) /\ (p \in 1..Len(pc) => Live(p))
    BY <1>3 DEF Fail, Touched, Live
  <2> QED BY <1>1, <1>2, <2>1, TouchedKept, PlainStays
<1>4. CASE Watch(p)
  <2>1. pc' = Close(pc, p) /\ pc \in Seq(PeerConnectionT)
    BY <1>4 DEF Watch, MembershipInv, Shape
  <2>2. PcsStay
    BY <1>1, <2>1, CloseFields DEF PcsStay, DisconnectInv, OwnPc, Live
  <2>3. RecordsStay
    BY <1>1, Pointers DEF RecordsStay
  <2> QED BY <1>1, <1>2, <2>2, <2>3, PlainStays
<1> QED BY <1>3, <1>4

LEMMA StopDoneStays ==
  ASSUME MembershipInv, DisconnectInv, StopDone
  PROVE  PartsStay /\ HandlerFree'
<1>1. /\ pc' = [p \in DOMAIN pc |-> [pc[p] EXCEPT !.destroys = FALSE]]
      /\ UNCHANGED <<user, cr, closer>>
      /\ handler' = handler \/ handler' = Ended
  BY DEF StopDone
<1>2. pc \in [1..Len(pc) -> PeerConnectionT] /\ DOMAIN pc = 1..Len(pc) /\ Len(pc) \in Nat
  BY LenProperties DEF MembershipInv, Shape
<1>3. \A p \in 1..Len(pc) : /\ pc'[p] \in PeerConnectionT /\ pc'[p].cr = pc[p].cr
                            /\ pc'[p].orphan = pc[p].orphan /\ pc'[p].state = pc[p].state
  BY <1>1, <1>2 DEF PeerConnectionT
<1>4. pc' \in [1..Len(pc) -> PeerConnectionT]
  BY <1>1, <1>2, <1>3
<1>5. Len(pc') = Len(pc)
  BY <1>2, <1>4, FunctionSeq
<1>6. PcsStay /\ RecordsStay
  BY <1>1, <1>3, <1>5, Pointers DEF PcsStay, RecordsStay, DisconnectInv, OwnPc, Live
<1>7. HandlerFree'
  BY <1>1, HandlerFreeStays, HandlerDone
<1> QED BY <1>1, <1>6, <1>7, PlainStays

LEMMA DeliverStays ==
  ASSUME MembershipInv, DisconnectInv, NEW u \in DOMAIN user, Deliver(u)
  PROVE  PartsStay /\ HandlerFree'
<1>1. PICK c : cr' = [cr EXCEPT ![c].bound = u]
  BY DEF Deliver
<1>2. UNCHANGED <<user, pc, closer, handler>> /\ u \in Nat
  BY LenProperties DEF Deliver, MembershipInv, Shape
<1>3. Len(cr') = Len(cr)
  <2>1. cr' \in Changed(cr, c, 0, u)
    BY <1>1 DEF Changed
  <2> QED BY <1>2, <2>1, ChangedOK, RecordsAreOK
<1>4. cr \in [1..Len(cr) -> ConnectionT] /\ Len(cr) \in Nat
  BY LenProperties DEF MembershipInv, Shape
<1>5. \A d \in 1..Len(cr) :
        /\ cr'[d].owner = cr[d].owner /\ cr'[d].peer = cr[d].peer /\ cr'[d].pc = cr[d].pc
  BY <1>1, <1>4 DEF ConnectionT
<1>6. RecordsStay
  BY <1>3, <1>4, <1>5 DEF RecordsStay
<1>7. PcsStay
  BY <1>2, <1>5, Pointers DEF PcsStay, DisconnectInv, OwnPc, Live
<1>8. HandlerFree'
  BY <1>2, <1>5, HandlerFreeStays
<1> QED BY <1>2, <1>3, <1>6, <1>7, <1>8, PlainStays

(* Users that are closed: their goroutines have all before them.           *)
LEMMA CloseUsersStays ==
  ASSUME MembershipInv, DisconnectInv, RecordsStay, PcsStay, Len(cr') = Len(cr),
         NEW U, CloseUsers(U)
  PROVE  PartsStay
<1>1. \A u \in 1..Len(user) :
        /\ user'[u].id = user[u].id /\ user'[u].default = user[u].default
        /\ user'[u].links = user[u].links
        /\ user'[u].closed = (user[u].closed \/ u \in U)
  BY CloseUsersShape DEF MembershipInv
<1>2. \A u \in 1..Len(user) :
        closer'[u] = IF u \in U /\ ~user[u].closed
                     THEN [at |-> "own", own |-> Peers \ {user[u].id}, others |-> {}]
                     ELSE closer[u]
  <2>1. DOMAIN closer = 1..Len(user)
    BY LenProperties DEF MembershipInv, Shape
  <2> QED BY <2>1 DEF CloseUsers, Closed
<1>3. ASSUME NEW c \in 1..Len(cr), AttendedTo(c)
      PROVE  AttendedTo(c)'
  <2>1. /\ cr[c].owner \in 1..Len(user) /\ cr[c].peer \in Peers
        /\ cr'[c].owner = cr[c].owner /\ cr'[c].peer = cr[c].peer
        /\ cr[c].peer # user[cr[c].owner].id
    BY Pointers DEF RecordsStay, ConnectionT, DisconnectInv, NotItself
  <2>2. Listed(c)'
    BY <1>1, <1>3, <2>1 DEF AttendedTo, Listed
  <2> DEFINE u == cr[c].owner
             t == cr[c].peer
  <2>3. user'[u].closed => closer'[u].at = "own" /\ t \in closer'[u].own
    <3>1. CASE user[u].closed
      BY <1>2, <1>3, <2>1, <3>1 DEF AttendedTo, Comes
    <3>2. CASE ~user[u].closed /\ u \in U
      <4>1. closer'[u] = [at |-> "own", own |-> Peers \ {user[u].id}, others |-> {}]
        BY <1>2, <2>1, <3>2
      <4> QED BY <2>1, <4>1
    <3>3. CASE ~user[u].closed /\ u \notin U
      BY <1>1, <2>1, <3>3
    <3> QED BY <3>1, <3>2, <3>3
  <2> QED BY <2>1, <2>2, <2>3 DEF AttendedTo, Comes
<1> QED BY <1>1, <1>3, AttendedNext, OwnPcStays, NotItselfStays DEF PartsStay

LEMMA CloseStays ==
  ASSUME MembershipInv, DisconnectInv, Stop \/ \E i \in Users : Hangup(i)
  PROVE  PartsStay /\ HandlerFree'
<1>1. UNCHANGED <<cr, pc>>
  BY DEF Stop, Hangup
<1>2. PICK U : CloseUsers(U)
  BY DEF Stop, Hangup
<1>3. handler' = handler \/ handler' = Ended \/ handler' = Idle
  BY DEF Stop, Hangup
<1>4. \A u \in 1..Len(user) : user'[u].id = user[u].id
  BY <1>2, CloseUsersShape DEF MembershipInv
<1> QED BY <1>1, <1>2, <1>3, <1>4, SameStays, CloseUsersStays, HandlerFreeStays, HandlerDone

LEMMA DestroyStays ==
  ASSUME MembershipInv, DisconnectInv, NEW p \in DOMAIN pc, Destroy(p)
  PROVE  PartsStay /\ HandlerFree'
<1> DEFINE c == pc[p].cr
           k == [pc EXCEPT ![p].destroys = FALSE]
<1>1. pc \in [1..Len(pc) -> PeerConnectionT] /\ DOMAIN pc = 1..Len(pc) /\ Len(pc) \in Nat
  BY LenProperties DEF MembershipInv, Shape
<1>2. \A q \in 1..Len(pc) :
        /\ k[q] \in PeerConnectionT /\ k[q].cr = pc[q].cr /\ k[q].orphan = pc[q].orphan
        /\ k[q].state = pc[q].state
  BY <1>1 DEF PeerConnectionT
<1>3. k \in [1..Len(pc) -> PeerConnectionT]
  BY <1>1, <1>2
<1>4. k \in Seq(PeerConnectionT) /\ Len(k) = Len(pc)
  BY <1>1, <1>3, FunctionSeq
<1>5. UNCHANGED handler
  BY DEF Destroy
<1> HIDE DEF c, k
<1>6. CASE pc' = k /\ UNCHANGED <<members, user, cr, closer>>
  <2>1. RecordsStay /\ PcsStay
    BY <1>2, <1>4, <1>6, Pointers DEF RecordsStay, PcsStay, DisconnectInv, OwnPc, Live
  <2> QED BY <1>5, <1>6, <2>1, PlainStays, HandlerFreeStays
<1>7. CASE /\ pc' = Close(k, cr[c].pc) /\ cr' = Emptied(c)
           /\ (\E U : CloseUsers(U)) \/ UNCHANGED <<members, user, closer>>
  <2>1. RecordsStay /\ PcsStay /\ Len(cr') = Len(cr)
    BY <1>2, <1>4, <1>7, ReleaseStays DEF Released
  <2>2. PartsStay
    BY <1>7, <2>1, CloseUsersStays, PlainStays
  <2>3. \A u \in 1..Len(user) : user'[u].id = user[u].id
    BY <1>7, CloseUsersShape DEF MembershipInv
  <2>4. \A d \in 1..Len(cr) : cr[d].pc = Nil => cr'[d].pc = Nil
    <3>1. cr \in [1..Len(cr) -> ConnectionT]
      BY LenProperties DEF MembershipInv, Shape
    <3> QED BY <1>7, <3>1 DEF Emptied, ConnectionT
  <2> QED BY <1>5, <2>2, <2>3, <2>4, HandlerFreeStays
<1> QED BY <1>6, <1>7 DEF Destroy, c, k

(* A record that was reset has no peer connection that is open.            *)
LEMMA ResetCloses ==
  ASSUME MembershipInv, DisconnectInv, NEW c \in 1..Len(cr), Reset(c)
  PROVE  /\ RecordsStay /\ PcsStay /\ Len(cr') = Len(cr)
         /\ \A p \in 1..Len(pc) : pc[p].cr = c => pc'[p].state = "closed"
         /\ \A d \in 1..Len(cr) : cr[d].pc = Nil => cr'[d].pc = Nil
<1>1. RecordsStay /\ PcsStay /\ Len(cr') = Len(cr)
  BY ResetStays
<1>2. cr \in [1..Len(cr) -> ConnectionT] /\ cr' = Emptied(c)
  BY LenProperties DEF MembershipInv, Shape, Reset
<1>3. cr'[c].pc = Nil /\ \A d \in 1..Len(cr) : cr[d].pc = Nil => cr'[d].pc = Nil
  BY <1>2 DEF Emptied, ConnectionT
<1>4. \A p \in 1..Len(pc) : p # Nil
  BY DEF Nil
<1> QED BY <1>1, <1>3, <1>4 DEF PcsStay

LEMMA CloserStays ==
  ASSUME MembershipInv, DisconnectInv, NEW u \in DOMAIN user, Closer(u)
  PROVE  PartsStay /\ HandlerFree'
<1>1. /\ u \in 1..Len(user) /\ closer[u] \in CloserT /\ UNCHANGED handler
      /\ user[u] \in UserT
  BY Pointers DEF Closer, CloserOwn, CloserCopies, CloserOther
<1>2. closer \in [1..Len(user) -> CloserT] /\ user \in [1..Len(user) -> UserT]
  BY LenProperties DEF MembershipInv, Shape
<1>3. CASE CloserOwn(u)
  <2> DEFINE r(t) == IF t = Pipeline THEN user[u].default ELSE user[u].links[t]
  <2>1. PICK t \in closer[u].own :
          /\ IF r(t) = Nil THEN UNCHANGED <<cr, pc>> ELSE Reset(r(t))
          /\ closer' = [closer EXCEPT ![u].own = closer[u].own \ {t}]
    BY <1>3 DEF CloserOwn
  <2>2. UNCHANGED user
    BY <1>3 DEF CloserOwn
  <2>3. t \in Users \cup {Pipeline} /\ (r(t) = Nil \/ r(t) \in 1..Len(cr))
    <3>1. t \in Users \cup {Pipeline}
      BY <1>1 DEF CloserT, Peers
    <3>2. /\ user[u].default \in 1..Len(cr)
          /\ t \in Users => user[u].links[t] \in 0..Len(cr)
      BY <1>1 DEF MembershipInv, UserPointers
    <3>3. Len(cr) \in Nat
      BY Pointers
    <3> QED BY <3>1, <3>2, <3>3 DEF Nil
  <2>4. /\ RecordsStay /\ PcsStay /\ Len(cr') = Len(cr)
        /\ r(t) # Nil => \A p \in 1..Len(pc) : pc[p].cr = r(t) => pc'[p].state = "closed"
        /\ \A d \in 1..Len(cr) : cr[d].pc = Nil => cr'[d].pc = Nil
    BY <2>1, <2>3, SameStays, ResetCloses
  <2>5. \A v \in 1..Len(user), s \in Peers :
          Comes(v, s) /\ ~(v = u /\ s = t) => Comes(v, s)'
    BY <1>1, <1>2, <2>1 DEF Comes, CloserT
  <2>6. ASSUME NEW p \in 1..Len(pc), NEW d \in 1..Len(cr), pc[p].cr = d,
               pc'[p].state # "closed", AttendedTo(d)
        PROVE  AttendedTo(d)'
    <3>1. /\ cr[d].owner \in 1..Len(user) /\ cr[d].peer \in Peers
          /\ cr'[d].owner = cr[d].owner /\ cr'[d].peer = cr[d].peer
      BY <2>4, Pointers DEF RecordsStay, ConnectionT
    <3>2. ~(cr[d].owner = u /\ cr[d].peer = t)
      <4>1. SUFFICES ASSUME cr[d].owner = u, cr[d].peer = t
            PROVE  FALSE
        OBVIOUS
      <4>2. r(t) = d /\ d # Nil
        BY <2>6, <4>1 DEF AttendedTo, Listed, Nil
      <4> QED BY <2>4, <2>6, <4>2
    <3>3. Listed(d)'
      BY <2>2, <2>6, <3>1 DEF AttendedTo, Listed
    <3>4. user[cr[d].owner].closed => Comes(cr[d].owner, cr[d].peer)'
      BY <2>5, <2>6, <3>1, <3>2 DEF AttendedTo
    <3> QED BY <2>2, <3>1, <3>3, <3>4 DEF AttendedTo, Comes
  <2> HIDE DEF r
  <2>7. Attended'
    BY <2>4, <2>6, AttendedNext
  <2>8. HandlerFree'
    BY <1>1, <2>2, <2>4, HandlerFreeStays
  <2> QED BY <2>2, <2>4, <2>7, <2>8, OwnPcStays, NotItselfStays DEF PartsStay
<1>4. CASE CloserCopies(u)
  <2> DEFINE O == {v \in MemberRecords : user[v].id # user[u].id}
  <2>1. /\ closer[u].at = "own" /\ closer[u].own = {}
        /\ closer' = [closer EXCEPT ![u].at = "others", ![u].others = O]
        /\ UNCHANGED <<user, cr, pc>>
    BY <1>4 DEF CloserCopies
  <2> HIDE DEF O
  <2>2. user[u].closed
    BY <1>1, <2>1 DEF MembershipInv, CloserClosed
  <2>3. \A v \in 1..Len(user) : \A s : Comes(v, s) => Comes(v, s)'
    BY <1>1, <1>2, <2>1 DEF Comes
  <2>4. ASSUME NEW d \in 1..Len(cr), AttendedTo(d)
        PROVE  AttendedTo(d)'
    <3>1. cr[d].owner \in 1..Len(user)
      BY Pointers
    <3> QED BY <2>1, <2>3, <2>4, <3>1 DEF AttendedTo, Listed, Comes
  <2>5. RecordsStay /\ PcsStay /\ Len(cr') = Len(cr)
    BY <2>1, SameStays
  <2>6. HandlerFree'
    BY <1>1, <2>1, HandlerFreeStays
  <2> QED BY <2>1, <2>4, <2>5, <2>6, AttendedNext, OwnPcStays, NotItselfStays DEF PartsStay
<1>5. CASE CloserOther(u)
  <2> DEFINE i == user[u].id
  <2>1. PICK v \in closer[u].others :
          /\ closer' = [closer EXCEPT ![u].others = closer[u].others \ {v}]
          /\ \/ /\ user[v].links[i] # Nil
                /\ user' = [user EXCEPT ![v].links[i] = Nil]
                /\ Reset(user[v].links[i])
             \/ UNCHANGED <<user, cr, pc>>
    BY <1>5 DEF CloserOther, Removes
  <2>2. i \in Users
    BY <1>1 DEF UserT
  <2> HIDE DEF i
  <2> DEFINE e == user[v].links[i]
  <2>3. \A w \in 1..Len(user) : \A s : Comes(w, s) => Comes(w, s)'
    BY <1>1, <1>2, <2>1 DEF Comes
  <2>4. CASE UNCHANGED <<user, cr, pc>>
    <3>1. ASSUME NEW d \in 1..Len(cr), AttendedTo(d)
          PROVE  AttendedTo(d)'
      <4>1. cr[d].owner \in 1..Len(user)
        BY Pointers
      <4> QED BY <2>3, <2>4, <3>1, <4>1 DEF AttendedTo, Listed, Comes
    <3>2. RecordsStay /\ PcsStay /\ Len(cr') = Len(cr)
      BY <2>4, SameStays
    <3>3. HandlerFree'
      BY <1>1, <2>4, HandlerFreeStays
    <3> QED BY <2>4, <3>1, <3>2, <3>3, AttendedNext, OwnPcStays, NotItselfStays DEF PartsStay
  <2>5. CASE user' = [user EXCEPT ![v].links[i] = Nil] /\ Reset(e) /\ e # Nil
    <3>1. RecordsStay /\ PcsStay /\ Len(cr') = Len(cr)
      BY <2>5, ResetStays
    <3>2. \A w \in 1..Len(user) :
            /\ user'[w].id = user[w].id /\ user'[w].default = user[w].default
            /\ user'[w].closed = user[w].closed
            /\ \A j \in Users : ~(w = v /\ j = i) => user'[w].links[j] = user[w].links[j]
      BY <1>2, <2>5 DEF UserT
    <3>3. ASSUME NEW p \in 1..Len(pc), NEW d \in 1..Len(cr), pc[p].cr = d,
                 pc'[p].state # "closed", AttendedTo(d)
          PROVE  AttendedTo(d)'
      <4>1. /\ cr[d].owner \in 1..Len(user) /\ cr[d].peer \in Users \cup {Pipeline}
            /\ cr'[d].owner = cr[d].owner /\ cr'[d].peer = cr[d].peer
        BY <3>1, Pointers DEF RecordsStay, ConnectionT, Peers
      <4>2. cr[d].peer # Pipeline => ~(cr[d].owner = v /\ cr[d].peer = i)
        <5>1. SUFFICES ASSUME cr[d].peer # Pipeline, cr[d].owner = v, cr[d].peer = i
              PROVE  FALSE
          OBVIOUS
        <5>2. e = d
          BY <3>3, <5>1 DEF AttendedTo, Listed
        <5>3. pc'[p].state = "closed"
          BY <2>5, <3>3, <5>2, ResetCloses
        <5> QED BY <3>3, <5>3
      <4>3. Listed(d)'
        BY <3>2, <3>3, <4>1, <4>2 DEF AttendedTo, Listed
      <4>4. user'[cr[d].owner].closed => Comes(cr[d].owner, cr[d].peer)'
        BY <2>3, <3>2, <3>3, <4>1 DEF AttendedTo
      <4> QED BY <4>1, <4>3, <4>4 DEF AttendedTo, Comes
    <3>4. \A d \in 1..Len(cr) : cr[d].pc = Nil => cr'[d].pc = Nil
      <4>1. cr \in [1..Len(cr) -> ConnectionT] /\ cr' = Emptied(e)
        BY <2>5, LenProperties DEF MembershipInv, Shape, Reset
      <4> QED BY <4>1 DEF Emptied, ConnectionT
    <3> HIDE DEF e
    <3>5. Attended'
      BY <3>1, <3>3, AttendedNext
    <3>6. HandlerFree'
      BY <1>1, <3>2, <3>4, HandlerFreeStays
    <3> QED BY <3>1, <3>2, <3>5, <3>6, OwnPcStays, NotItselfStays DEF PartsStay
  <2> QED BY <2>1, <2>4, <2>5
<1> QED BY <1>3, <1>4, <1>5 DEF Closer

-----------------------------------------------------------------------------
(* Users and records that come.                                            *)
LEMMA FindSourceStays ==
  ASSUME MembershipAssumption, MembershipInv, DisconnectInv, FindSource
  PROVE  PartsStay /\ HandlerFree'
<1>1. PICK i \in Users, t \in Peers : t # i /\ (Join(i, t) \/ Rejoin(i, t))
  BY DEF FindSource
<1>2. Idle \in HandlerT
  BY DEF Idle, HandlerT, Peers, Nil
<1>3. CASE Rejoin(i, t)
  <2>1. /\ handler' = [Idle EXCEPT !.at = "found", !.source = members[i], !.target = t]
        /\ UNCHANGED <<user, cr, closer, pc>>
        /\ user[members[i]].id = i
    BY <1>3 DEF Rejoin, MembershipInv, MembersListed
  <2>2. HandlerFree'
    BY <1>1, <1>2, <2>1 DEF HandlerFree, HandlerT
  <2> QED BY <2>1, <2>2, SameStays, PlainStays
<1>4. CASE Join(i, t)
  <2> DEFINE n == Len(cr) + 1
             m == Len(user) + 1
             x == NewUser(i)
             y == NewConnection(m, Pipeline)
  <2>1. /\ user' = Append(user, x) /\ cr' = Append(cr, y)
        /\ closer' = Append(closer, NoCloser) /\ UNCHANGED pc
        /\ handler' = [Idle EXCEPT !.at = "found", !.source = m, !.target = t]
    BY <1>4 DEF Join
  <2>2. /\ x.id = i /\ y.owner = m /\ y.peer = Pipeline /\ i # Pipeline
    BY MembershipAssumption DEF NewUser, NewConnection
  <2>3. /\ cr \in Seq(ConnectionT) /\ user \in Seq(UserT) /\ closer \in Seq(CloserT)
        /\ Len(closer) = Len(user) /\ Len(cr) \in Nat /\ Len(user) \in Nat
    BY LenProperties DEF MembershipInv, Shape
  <2> HIDE DEF x, y
  <2>4. /\ Len(user') = m /\ user'[m] = x
        /\ \A u \in 1..Len(user) : user'[u] = user[u] /\ closer'[u] = closer[u]
        /\ Len(cr') = n /\ cr'[n] = y /\ \A c \in 1..Len(cr) : cr'[c] = cr[c]
    BY <2>1, <2>3
  <2>5. RecordsStay /\ PcsStay
    BY <2>1, <2>3, <2>4, Pointers DEF RecordsStay, PcsStay, DisconnectInv, OwnPc, Live
  <2>6. ASSUME NEW c \in 1..Len(cr), AttendedTo(c)
        PROVE  AttendedTo(c)'
    <3>1. cr[c].owner \in 1..Len(user) /\ cr'[c] = cr[c]
      BY <2>4, Pointers
    <3> QED BY <2>4, <2>6, <3>1 DEF AttendedTo, Listed, Comes
  <2>7. NotItself'
    <3>1. ASSUME NEW c \in 1..Len(cr')
          PROVE  cr'[c].peer # user'[cr'[c].owner].id
      <4>1. CASE c = n
        BY <2>2, <2>4, <4>1
      <4>2. CASE c # n
        <5>1. c \in 1..Len(cr)
          BY <2>3, <2>4, <4>2
        <5> QED BY <2>4, <5>1, Pointers DEF DisconnectInv, NotItself
      <4> QED BY <4>1, <4>2
    <3> QED BY <3>1 DEF NotItself
  <2>8. HandlerFree'
    <3>1. handler'.at = "found" /\ handler'.source = m /\ handler'.target = t
      BY <1>2, <2>1 DEF HandlerT
    <3> QED BY <1>1, <2>2, <2>4, <3>1 DEF HandlerFree
  <2> QED BY <2>5, <2>6, <2>7, <2>8, AttendedNext, OwnPcStays DEF PartsStay
<1> QED BY <1>1, <1>3, <1>4

LEMMA FindRecordStays ==
  ASSUME MembershipInv, DisconnectInv, FindRecord
  PROVE  PartsStay /\ HandlerFree'
<1> DEFINE u == handler.source
           t == handler.target
           e == IF t = Pipeline THEN user[u].default ELSE user[u].links[t]
           n == Len(cr) + 1
<1>1. /\ u \in 1..Len(user) /\ handler \in HandlerT /\ t \in Peers
      /\ t # user[u].id /\ UNCHANGED <<closer, pc>>
  BY DEF FindRecord, MembershipInv, Shape, HandlerPointers, HandlerT, DisconnectInv, HandlerFree
<1>2. HandlerFree'
  <2>1. PICK c : FoundRecord(c)
    BY DEF FindRecord
  <2>2. CASE handler' = Done
    BY <2>2, HandlerDone
  <2>3. CASE handler' = [handler EXCEPT !.at = "lock", !.cr = c]
    BY <1>1, <2>3, HandlerFreeAway DEF HandlerT
  <2> QED BY <2>1, <2>2, <2>3 DEF FoundRecord
<1>3. CASE UNCHANGED <<user, cr>>
  BY <1>1, <1>2, <1>3, SameStays, PlainStays
<1>4. CASE /\ e = Nil
           /\ cr' = Append(cr, NewConnection(u, t))
           /\ user' = [user EXCEPT ![u].links[t] = n]
  <2> DEFINE y == NewConnection(u, t)
  <2>1. y.owner = u /\ y.peer = t
    BY DEF NewConnection
  <2>2. /\ cr \in Seq(ConnectionT) /\ Len(cr) \in Nat
        /\ user \in [1..Len(user) -> UserT]
    BY LenProperties DEF MembershipInv, Shape
  <2>3. t # Pipeline /\ user[u].links[t] = Nil
    <3>1. user[u].default # Nil
      BY <1>1 DEF MembershipInv, UserPointers, Nil
    <3> QED BY <1>4, <3>1
  <2> HIDE DEF e, u, t, y
  <2>4. cr' = Append(cr, y)
    BY <1>4 DEF y
  <2>5. Len(cr') = n /\ cr'[n] = y /\ \A c \in 1..Len(cr) : cr'[c] = cr[c]
    BY <2>2, <2>4
  <2>6. \A w \in 1..Len(user) :
          /\ user'[w].id = user[w].id /\ user'[w].default = user[w].default
          /\ user'[w].closed = user[w].closed
          /\ \A j \in Users : ~(w = u /\ j = t) => user'[w].links[j] = user[w].links[j]
    BY <1>4, <2>2 DEF UserT
  <2>7. RecordsStay /\ PcsStay
    BY <1>1, <2>2, <2>5, Pointers DEF RecordsStay, PcsStay, DisconnectInv, OwnPc, Live
  <2>8. ASSUME NEW c \in 1..Len(cr), AttendedTo(c)
        PROVE  AttendedTo(c)'
    <3>1. /\ cr[c].owner \in 1..Len(user) /\ cr'[c] = cr[c]
          /\ cr[c].peer \in Users \cup {Pipeline}
      BY <2>5, Pointers DEF ConnectionT, Peers
    <3>2. ~(cr[c].owner = u /\ cr[c].peer = t)
      BY <2>3, <2>8 DEF AttendedTo, Listed, Nil
    <3>3. Listed(c)'
      BY <2>6, <2>8, <3>1, <3>2 DEF AttendedTo, Listed
    <3> QED BY <1>1, <2>6, <2>8, <3>1, <3>3 DEF AttendedTo, Comes
  <2>9. NotItself'
    <3>1. ASSUME NEW c \in 1..Len(cr')
          PROVE  cr'[c].peer # user'[cr'[c].owner].id
      <4>1. CASE c = n
        BY <1>1, <2>1, <2>5, <2>6, <4>1
      <4>2. CASE c # n
        <5>1. c \in 1..Len(cr)
          BY <2>2, <2>5, <4>2
        <5>2. cr'[c] = cr[c] /\ cr[c].owner \in 1..Len(user)
          BY <2>5, <5>1, Pointers
        <5> QED BY <2>6, <5>1, <5>2 DEF DisconnectInv, NotItself
      <4> QED BY <4>1, <4>2
    <3> QED BY <3>1 DEF NotItself
  <2> QED BY <1>2, <2>7, <2>8, <2>9, AttendedNext, OwnPcStays DEF PartsStay
<1> QED BY <1>3, <1>4 DEF FindRecord

-----------------------------------------------------------------------------
LEMMA DisconnectInit ==
  ASSUME Init
  PROVE  DisconnectInv
BY DEF Init, Idle, DisconnectInv, OwnPc, Attended, NotItself, HandlerFree

LEMMA DisconnectStep ==
  ASSUME MembershipAssumption, MembershipInv, DisconnectInv, [Next]_vars
  PROVE  DisconnectInv'
<1>1. CASE UNCHANGED vars
  <2>1. HandlerFree'
    BY <1>1, HandlerFreeStays DEF vars
  <2> QED BY <1>1, <2>1, SameStays, PlainStays DEF vars, PartsStay, DisconnectInv
<1>2. CASE FindSource \/ Handle
  BY <1>2, FindSourceStays, FindRecordStays, HandleRecordStays, SDPStays, ReviveStays
     DEF Handle, PartsStay, DisconnectInv
<1>3. CASE (\E i \in Users : Hangup(i)) \/ Stop \/ StopDone
  BY <1>3, CloseStays, StopDoneStays DEF PartsStay, DisconnectInv
<1>4. CASE \E u \in DOMAIN user : Closer(u) \/ Deliver(u)
  BY <1>4, CloserStays, DeliverStays DEF PartsStay, DisconnectInv
<1>5. CASE \E p \in DOMAIN pc : Fail(p) \/ Watch(p) \/ Destroy(p)
  BY <1>5, PeerConnectionStays, DestroyStays DEF PartsStay, DisconnectInv
<1> QED BY <1>1, <1>2, <1>3, <1>4, <1>5 DEF Next

LEMMA DisconnectInvariant == Spec => [](MembershipInv /\ DisconnectInv)
<1>1. Init => DisconnectInv
  BY DisconnectInit
<1>2. MembershipInv /\ DisconnectInv /\ [Next]_vars => DisconnectInv'
  BY MembershipAssumption, DisconnectStep
<1> QED BY <1>1, <1>2, MembershipInvariant, PTL DEF Spec

(* The close goroutine of a user leaves it no peer connection but orphans. *)
THEOREM ClosedUsersDisconnected == Spec => []ClosedUserDisconnected
<1>1. MembershipInv /\ DisconnectInv => ClosedUserDisconnected
  <2> SUFFICES ASSUME MembershipInv, DisconnectInv, NEW p \in DOMAIN pc,
                      Closed(cr[pc[p].cr].owner), CloserDone(cr[pc[p].cr].owner),
                      pc[p].state # "closed", ~pc[p].orphan
               PROVE  FALSE
    BY DEF ClosedUserDisconnected
  <2>1. AttendedTo(pc[p].cr)
    BY Pointers DEF DisconnectInv, Attended, Live
  <2> QED BY <2>1 DEF AttendedTo, Comes, Closed, CloserDone
<1> QED BY <1>1, DisconnectInvariant, PTL

-----------------------------------------------------------------------------
(* Channel.Stop.  PcOwn: the peer connection of a record was made for it.  *)
(* StopInv: once it has begun, only a message that was on its way lets a   *)
(* user in that is open; its records start without peer connections, and a *)
(* record that waits for an answer is not its.  What is connected is thus  *)
(* that of closed users, whose goroutines close it.                        *)
PcOwn ==
  \A c \in 1..Len(cr) :
    cr[c].pc # Nil => cr[c].pc \in 1..Len(pc) /\ pc[cr[c].pc].cr = c

OpenOwner(c) == ~user[cr[c].owner].closed

StopInv ==
  stop # "no" =>
    /\ handler = Idle => \A u \in 1..Len(user) : user[u].closed
    /\ handler.at \in {"found", "lock"} =>
         \A c \in 1..Len(cr) : OpenOwner(c) => cr[c].pc = Nil
    /\ handler.at = "sdp" /\ handler.pc # Nil /\ Initiates(handler.cr)
         => ~OpenOwner(handler.cr)
    /\ \A p \in 1..Len(pc) : pc[p].state = "connected" => ~OpenOwner(pc[p].cr)

-----------------------------------------------------------------------------
(* What a step leaves of the records: only c gets a peer connection, a new *)
(* one of its own, and nobody leaves.                                      *)
RecordsKept(c) ==
  /\ Len(cr') \in Nat /\ Len(pc') \in Nat
  /\ Len(cr') >= Len(cr) /\ Len(pc') >= Len(pc)
  /\ \A d \in 1..Len(cr) :
       /\ cr'[d].owner = cr[d].owner /\ cr'[d].peer = cr[d].peer
       /\ \/ cr'[d].pc \in {cr[d].pc, Nil}
          \/ d = c /\ cr'[d].pc \in 1..Len(pc') /\ pc'[cr'[d].pc].cr = d
  /\ \A d \in 1..Len(cr') : d \in 1..Len(cr) \/ cr'[d].pc = Nil
  /\ \A p \in 1..Len(pc) : pc'[p].cr = pc[p].cr
UsersOn ==
  /\ Len(user') \in Nat /\ Len(user') >= Len(user)
  /\ \A u \in 1..Len(user) :
       user'[u].id = user[u].id /\ (user[u].closed => user'[u].closed)

(* No peer connection gets connected but those of closed users.            *)
Connects ==
  \A p \in 1..Len(pc') :
    pc'[p].state = "connected" =>
      p \in 1..Len(pc) /\ (pc[p].state = "connected" \/ ~OpenOwner(pc[p].cr))

LEMMA PcOwnNext ==
  ASSUME MembershipInv, PcOwn, NEW c, RecordsKept(c)
  PROVE  PcOwn'
<1> SUFFICES ASSUME NEW d \in 1..Len(cr'), cr'[d].pc # Nil
             PROVE  cr'[d].pc \in 1..Len(pc') /\ pc'[cr'[d].pc].cr = d
  BY DEF PcOwn
<1>1. d \in 1..Len(cr)
  BY DEF RecordsKept
<1>2. CASE cr'[d].pc = cr[d].pc
  <2>1. cr[d].pc \in 1..Len(pc) /\ pc[cr[d].pc].cr = d
    BY <1>1, <1>2 DEF PcOwn
  <2>2. cr[d].pc \in 1..Len(pc')
    BY <2>1, Pointers DEF RecordsKept
  <2> QED BY <1>2, <2>1, <2>2 DEF RecordsKept
<1> QED BY <1>1, <1>2 DEF RecordsKept

(* A step that lets nobody in: the handler does not start to look for a    *)
(* record, and one that has a record and an SDP has what StopInv says.     *)
LEMMA StopNext ==
  ASSUME MembershipInv, StopInv, stop # "no", NEW c, RecordsKept(c), UsersOn, Connects,
         Len(user') = Len(user),
         handler' = Idle => handler = Idle,
         handler'.at \in {"found", "lock"} => handler.at \in {"found", "lock"} /\ c = Nil,
         handler'.at = "sdp" /\ handler'.pc # Nil =>
           \E d \in 1..Len(cr) :
             /\ handler'.cr = d
             /\ Initiates(d) => ~OpenOwner(d)
  PROVE  StopInv'
<1>1. /\ \A d \in 1..Len(cr) : /\ cr[d].owner \in 1..Len(user)
                               /\ cr'[d].owner = cr[d].owner /\ cr'[d].peer = cr[d].peer
      /\ Nil \notin 1..Len(cr)
  BY Pointers DEF RecordsKept, Nil
<1>2. \A d \in 1..Len(cr) : ~OpenOwner(d) => ~OpenOwner(d)'
  BY <1>1 DEF OpenOwner, UsersOn
<1>3. \A d \in 1..Len(cr) : Initiates(d)' => Initiates(d)
  BY <1>1 DEF Initiates, UsersOn
<1>4. handler' = Idle => \A u \in 1..Len(user') : user'[u].closed
  BY DEF StopInv, UsersOn
<1>5. ASSUME handler'.at \in {"found", "lock"}, NEW d \in 1..Len(cr'), OpenOwner(d)'
      PROVE  cr'[d].pc = Nil
  <2>1. CASE d \in 1..Len(cr)
    <3>1. cr[d].pc = Nil
      BY <1>2, <1>5, <2>1 DEF StopInv
    <3> QED BY <1>1, <1>5, <2>1, <3>1 DEF RecordsKept
  <2> QED BY <2>1 DEF RecordsKept
<1>6. (handler.at = "sdp" /\ handler.pc # Nil /\ Initiates(handler.cr)
         => ~OpenOwner(handler.cr))'
  <2> SUFFICES ASSUME handler'.at = "sdp", handler'.pc # Nil, NEW d \in 1..Len(cr),
                      handler'.cr = d, Initiates(d)', Initiates(d) => ~OpenOwner(d)
               PROVE  ~OpenOwner(d)'
    BY DEF Initiates, OpenOwner
  <2> QED BY <1>2, <1>3
<1>7. (\A p \in 1..Len(pc) : pc[p].state = "connected" => ~OpenOwner(pc[p].cr))'
  <2> SUFFICES ASSUME NEW p \in 1..Len(pc'), pc'[p].state = "connected"
               PROVE  user'[cr'[pc'[p].cr].owner].closed
    BY DEF OpenOwner
  <2>1. p \in 1..Len(pc) /\ ~OpenOwner(pc[p].cr)
    BY DEF Connects, StopInv
  <2>2. pc'[p].cr = pc[p].cr /\ pc[p].cr \in 1..Len(cr)
    BY <2>1, Pointers DEF RecordsKept
  <2> QED BY <1>2, <2>1, <2>2 DEF OpenOwner
<1>8. handler'.at \in {"found", "lock"} =>
        \A d \in 1..Len(cr') : OpenOwner(d)' => cr'[d].pc = Nil
  BY <1>5
<1> QED BY <1>4, <1>6, <1>7, <1>8 DEF StopInv

-----------------------------------------------------------------------------
(* The ways a step changes the records.                                    *)
LEMMA CloseStates ==
  ASSUME NEW k \in Seq(PeerConnectionT), NEW p
  PROVE  \A q \in 1..Len(k) : Close(k, p)[q].state \in {k[q].state, "closed"}
<1>1. k \in [1..Len(k) -> PeerConnectionT] /\ DOMAIN k = 1..Len(k)
  BY LenProperties
<1>2. CASE Close(k, p) = k
  BY <1>2
<1>3. CASE Close(k, p) = [k EXCEPT ![p].state = "closed", ![p].destroys = ~ChannelClosed]
  BY <1>1, <1>3 DEF PeerConnectionT
<1> QED BY <1>2, <1>3 DEF Close

(* pc without a callback, or with.                                         *)
Alike(k) ==
  /\ k \in Seq(PeerConnectionT) /\ Len(k) = Len(pc)
  /\ \A p \in 1..Len(pc) : k[p].cr = pc[p].cr /\ k[p].state \in {pc[p].state, "closed"}

LEMMA PcAlike ==
  ASSUME MembershipInv PROVE Alike(pc)
BY DEF MembershipInv, Shape, Alike

LEMMA CloseAlike ==
  ASSUME MembershipInv, NEW k, Alike(k), NEW p
  PROVE  Alike(Close(k, p))
BY CloseShape, CloseStates DEF Alike

LEMMA TouchedAlike ==
  ASSUME MembershipInv, DisconnectInv, NEW p,
         NEW k \in {[pc EXCEPT ![p].destroys = TRUE], [pc EXCEPT ![p].destroys = FALSE]}
  PROVE  Alike(k)
<1>1. pc \in [1..Len(pc) -> PeerConnectionT] /\ DOMAIN pc = 1..Len(pc) /\ Len(pc) \in Nat
  BY LenProperties DEF MembershipInv, Shape
<1>2. ASSUME NEW q \in 1..Len(pc)
      PROVE  k[q] \in PeerConnectionT /\ k[q].cr = pc[q].cr /\ k[q].state = pc[q].state
  <2>1. CASE k = [pc EXCEPT ![p].destroys = TRUE]
    BY <1>1, <2>1 DEF PeerConnectionT
  <2>2. CASE k = [pc EXCEPT ![p].destroys = FALSE]
    BY <1>1, <2>2 DEF PeerConnectionT
  <2> QED BY <2>1, <2>2
<1>3. k \in [1..Len(pc) -> PeerConnectionT]
  BY <1>1, <1>2
<1> QED BY <1>1, <1>2, <1>3, FunctionSeq DEF Alike

(* Records that stay as they are or lose their peer connection.            *)
LEMMA AlikeKept ==
  ASSUME MembershipInv, Alike(pc'), cr' = cr \/ \E c : cr' \in Released(c)
  PROVE  RecordsKept(Nil) /\ Connects
<1>1. cr \in [1..Len(cr) -> ConnectionT] /\ Len(cr) \in Nat /\ DOMAIN cr = 1..Len(cr)
  BY LenProperties DEF MembershipInv, Shape
<1>2. Len(pc) \in Nat /\ Len(pc') = Len(pc)
  BY Pointers DEF Alike
<1>3. Len(cr') = Len(cr)
  <2>1. ASSUME NEW c, cr' \in Released(c) PROVE Len(cr') = Len(cr)
    <3>1. cr' \in Changed(cr, c, 0, 0)
      BY <2>1 DEF Released, Changed, Emptied, Nil
    <3> QED BY <3>1, ChangedShape DEF MembershipInv, Shape
  <2> QED BY <2>1
<1>4. \A d \in 1..Len(cr) : /\ cr'[d].owner = cr[d].owner /\ cr'[d].peer = cr[d].peer
                            /\ cr'[d].pc \in {cr[d].pc, Nil}
  <2>1. ASSUME NEW c, cr' = Emptied(c), NEW d \in 1..Len(cr)
        PROVE  /\ cr'[d].owner = cr[d].owner /\ cr'[d].peer = cr[d].peer
               /\ cr'[d].pc \in {cr[d].pc, Nil}
    BY <1>1, <2>1 DEF Emptied, ConnectionT
  <2>2. ASSUME NEW c, cr' = [cr EXCEPT ![c].pc = Nil], NEW d \in 1..Len(cr)
        PROVE  /\ cr'[d].owner = cr[d].owner /\ cr'[d].peer = cr[d].peer
               /\ cr'[d].pc \in {cr[d].pc, Nil}
    BY <1>1, <2>2 DEF ConnectionT
  <2> QED BY <2>1, <2>2 DEF Released
<1>5. RecordsKept(Nil)
  BY <1>1, <1>2, <1>3, <1>4 DEF RecordsKept, Alike
<1>6. Connects
  BY <1>2 DEF Connects, Alike
<1> QED BY <1>5, <1>6

LEMMA CreateKept ==
  ASSUME MembershipInv, NEW c \in 1..Len(cr), NEW k, Alike(k), Create(c, k, "new")
  PROVE  RecordsKept(c) /\ Connects
<1> DEFINE n == Len(pc) + 1
           e == NewPeerConnection(c, "new")
<1>1. /\ cr \in [1..Len(cr) -> ConnectionT] /\ cr \in Seq(ConnectionT)
      /\ Len(cr) \in Nat /\ Len(pc) \in Nat /\ n \in Nat /\ c \in Nat
  BY LenProperties DEF MembershipInv, Shape
<1>2. e \in PeerConnectionT /\ e.cr = c /\ e.state = "new"
  BY <1>1 DEF NewPeerConnection, PeerConnectionT, Closed, Listed
<1>3. pc' = Append(k, e) /\ cr' = [cr EXCEPT ![c].pc = n] /\ n = Len(pc) + 1
      /\ k \in Seq(PeerConnectionT) /\ Len(k) = Len(pc)
  BY DEF Create, Alike
<1> HIDE DEF e, n
<1>4. /\ Len(pc') = n
      /\ \A p \in 1..n : pc'[p] = IF p = n THEN e ELSE k[p]
  BY <1>1, <1>2, <1>3, AppendProperties
<1>5. /\ Len(cr') = Len(cr)
      /\ \A d \in 1..Len(cr) :
           /\ cr'[d].owner = cr[d].owner /\ cr'[d].peer = cr[d].peer
           /\ cr'[d].pc = IF d = c THEN n ELSE cr[d].pc
  <2>1. cr' \in Changed(cr, c, n, 0) /\ 0 \in Nat
    BY <1>3 DEF Changed
  <2>2. Len(cr') = Len(cr)
    BY <1>1, <2>1, RecordsAreOK, ChangedOK
  <2> QED BY <1>1, <1>3, <2>2 DEF ConnectionT
<1>6. \A p \in 1..n : p \in 1..Len(pc) \/ p = n
  BY <1>1, <1>3
<1>7. n \in 1..n /\ \A p \in 1..Len(pc) : p \in 1..n /\ p # n
  BY <1>1, <1>3
<1>8. \A p \in 1..Len(pc) : pc'[p] = k[p]
  BY <1>4, <1>7
<1>9. RecordsKept(c)
  BY <1>1, <1>2, <1>3, <1>4, <1>5, <1>7, <1>8 DEF RecordsKept, Alike
<1>10. Connects
  BY <1>2, <1>4, <1>6, <1>8 DEF Connects, Alike
<1> QED BY <1>9, <1>10

LEMMA UsersStay ==
  ASSUME MembershipInv, NEW c, RecordsKept(c),
         \/ UNCHANGED user
         \/ \E U : CloseUsers(U)
         \/ \E v, i : \E n \in 0..Len(cr') : user' = [user EXCEPT ![v].links[i] = n]
  PROVE  UsersOn /\ Len(user') = Len(user)
<1>1. Len(user) \in Nat
  BY Pointers
<1>2. CASE UNCHANGED user
  BY <1>1, <1>2 DEF UsersOn
<1>3. ASSUME NEW U, CloseUsers(U) PROVE UsersOn /\ Len(user') = Len(user)
  <2>1. /\ Len(user') = Len(user)
        /\ \A u \in 1..Len(user) :
             user'[u].id = user[u].id /\ user'[u].closed = (user[u].closed \/ u \in U)
    BY <1>3, CloseUsersShape DEF MembershipInv
  <2>2. \A u \in 1..Len(user) : user[u].closed => user'[u].closed
    BY <2>1, Zenon
  <2> QED BY <1>1, <2>1, <2>2 DEF UsersOn
<1>4. ASSUME NEW v, NEW i, NEW n \in 0..Len(cr'), user' = [user EXCEPT ![v].links[i] = n]
      PROVE  UsersOn /\ Len(user') = Len(user)
  <2>1. UsersKept
    BY <1>4, LinkOK DEF SetsLink, RecordsKept
  <2> QED BY <1>1, <2>1 DEF UsersKept, UsersOn
<1> QED BY <1>2, <1>3, <1>4

(* The handler goes on undisturbed or has done with its message.           *)
LEMMA QuietStep ==
  ASSUME MembershipInv, PcOwn, StopInv, NEW c, RecordsKept(c), stop # "no" => Connects,
         UsersOn, Len(user') = Len(user),
         \/ UNCHANGED handler /\ c = Nil
         \/ handler' = Done \/ handler' = Ended,
         stop = "no" => stop' = "no"
  PROVE  PcOwn' /\ StopInv'
<1>1. PcOwn'
  BY PcOwnNext
<1>2. CASE stop = "no"
  BY <1>1, <1>2 DEF StopInv
<1>3. CASE stop # "no" /\ UNCHANGED handler /\ c = Nil
  <2>1. handler.at = "sdp" => handler.cr \in 1..Len(cr)
    BY DEF MembershipInv, HandlerPointers
  <2>2. handler'.at = "sdp" /\ handler'.pc # Nil =>
          \E d \in 1..Len(cr) : handler'.cr = d /\ (Initiates(d) => ~OpenOwner(d))
    BY <1>3, <2>1 DEF StopInv
  <2> QED BY <1>1, <1>3, <2>2, StopNext
<1>4. CASE stop # "no" /\ (handler' = Done \/ handler' = Ended)
  <2>1. handler' = Ended /\ Ended.at = "ended" /\ Idle.at = "idle"
    BY <1>4 DEF Done, WsUp, Ended, Idle
  <2>2. handler' # Idle
    BY <2>1
  <2> QED BY <1>1, <1>4, <2>1, <2>2, StopNext
<1> QED BY <1>2, <1>3, <1>4

-----------------------------------------------------------------------------
(* The steps.                                                              *)
LEMMA FindSourceStops ==
  ASSUME MembershipInv, PcOwn, StopInv, FindSource
  PROVE  PcOwn' /\ StopInv'
<1>1. PICK i \in Users, t \in Peers : Join(i, t) \/ Rejoin(i, t)
  BY DEF FindSource
<1>2. handler = Idle
  BY DEF FindSource
<1>3. UNCHANGED <<pc, stop>>
  BY <1>1 DEF Join, Rejoin
<1>4. /\ cr \in Seq(ConnectionT) /\ user \in Seq(UserT)
      /\ Len(cr) \in Nat /\ Len(user) \in Nat /\ Len(pc) \in Nat
  BY LenProperties DEF MembershipInv, Shape
<1>5. CASE Rejoin(i, t)
  <2>1. RecordsKept(Nil)
    BY <1>3, <1>4, <1>5 DEF Rejoin, RecordsKept
  <2>2. PcOwn'
    BY <2>1, PcOwnNext
  <2>3. stop = "no"
    BY <1>2, <1>5 DEF Rejoin, StopInv, MembershipInv, MembersListed, Closed
  <2> QED BY <1>3, <2>2, <2>3 DEF StopInv
<1>6. CASE Join(i, t)
  <2> DEFINE n == Len(cr) + 1
             m == Len(user) + 1
             x == NewUser(i)
             y == NewConnection(m, Pipeline)
  <2>1. /\ user' = Append(user, x) /\ cr' = Append(cr, y)
        /\ handler' = [Idle EXCEPT !.at = "found", !.source = m, !.target = t]
        /\ y.pc = Nil
    BY <1>6 DEF Join, NewConnection
  <2> HIDE DEF x, y
  <2>2. /\ Len(user') = m /\ \A u \in 1..Len(user) : user'[u] = user[u]
        /\ Len(cr') = n /\ cr'[n] = y /\ \A c \in 1..Len(cr) : cr'[c] = cr[c]
    BY <1>4, <2>1
  <2>3. \A c \in 1..n : c \in 1..Len(cr) \/ c = n
    BY <1>4
  <2>4. RecordsKept(Nil)
    BY <1>3, <1>4, <2>1, <2>2, <2>3 DEF RecordsKept
  <2>5. PcOwn'
    BY <2>4, PcOwnNext
  <2>6. ASSUME stop # "no" PROVE StopInv'
    <3>1. \A c \in 1..Len(cr) : /\ user[cr[c].owner].closed
                                /\ user'[cr'[c].owner] = user[cr[c].owner]
      BY <1>2, <2>2, <2>6, Pointers DEF StopInv
    <3>2. handler'.at = "found"
      BY <2>1 DEF Idle
    <3>3. handler' # Idle
      BY <3>2 DEF Idle
    <3>4. \A c \in 1..Len(cr') : OpenOwner(c)' => cr'[c].pc = Nil
      BY <2>1, <2>2, <2>3, <3>1 DEF OpenOwner
    <3>5. (\A p \in 1..Len(pc) : pc[p].state = "connected" => ~OpenOwner(pc[p].cr))'
      BY <1>3, <3>1, Pointers DEF OpenOwner
    <3> QED BY <3>2, <3>3, <3>4, <3>5 DEF StopInv
  <2> QED BY <1>3, <2>5, <2>6 DEF StopInv
<1> QED BY <1>1, <1>5, <1>6

LEMMA FindRecordStops ==
  ASSUME MembershipInv, PcOwn, StopInv, FindRecord
  PROVE  PcOwn' /\ StopInv'
<1> DEFINE u == handler.source
           t == handler.target
           n == Len(cr) + 1
           y == NewConnection(u, t)
<1>1. handler.at = "found" /\ handler \in HandlerT /\ UNCHANGED <<pc, stop>>
  BY DEF FindRecord, MembershipInv, Shape
<1>2. \/ UNCHANGED <<user, cr>>
      \/ cr' = Append(cr, y) /\ user' = [user EXCEPT ![u].links[t] = n]
  BY DEF FindRecord
<1>3. PICK c : FoundRecord(c)
  BY DEF FindRecord
<1>4. /\ cr \in Seq(ConnectionT) /\ Len(cr) \in Nat /\ Len(pc) \in Nat
      /\ y.pc = Nil
  BY LenProperties DEF MembershipInv, Shape, NewConnection
<1> HIDE DEF y
<1>6. RecordsKept(Nil) /\ (UNCHANGED user \/ n \in 0..Len(cr'))
  <2>1. UNCHANGED cr => RecordsKept(Nil)
    BY <1>1, <1>4 DEF RecordsKept
  <2>2. cr' = Append(cr, y) => RecordsKept(Nil) /\ n \in 0..Len(cr')
    <3>1. ASSUME cr' = Append(cr, y)
          PROVE  Len(cr') = n /\ cr'[n] = y /\ \A d \in 1..Len(cr) : cr'[d] = cr[d]
      BY <1>4, <3>1
    <3>2. \A d \in 1..n : d \in 1..Len(cr) \/ d = n
      BY <1>4
    <3> QED BY <1>1, <1>4, <3>1, <3>2 DEF RecordsKept
  <2> QED BY <1>2, <2>1, <2>2
<1>7. UsersOn /\ Len(user') = Len(user)
  BY <1>2, <1>6, UsersStay
<1>8. Connects
  BY <1>1 DEF Connects
<1>9. CASE handler' = Done
  BY <1>1, <1>6, <1>7, <1>8, <1>9, QuietStep
<1>10. CASE handler' = [handler EXCEPT !.at = "lock", !.cr = c]
  <2>1. handler'.at = "lock"
    BY <1>1, <1>10 DEF HandlerT
  <2>2. handler' # Idle
    BY <2>1 DEF Idle
  <2>3. PcOwn'
    BY <1>6, PcOwnNext
  <2>4. stop # "no" => StopInv'
    BY <1>1, <1>6, <1>7, <1>8, <2>1, <2>2, StopNext
  <2> QED BY <1>1, <2>3, <2>4 DEF StopInv
<1> QED BY <1>3, <1>9, <1>10 DEF FoundRecord

(* A handler that goes on past the SDP.                                    *)
LEMMA AwayStep ==
  ASSUME MembershipInv, PcOwn, StopInv, RecordsKept(Nil), stop # "no" => Connects,
         UNCHANGED <<user, stop>>, handler'.at \in {"resurrect", "revive"}
  PROVE  PcOwn' /\ StopInv'
<1>1. PcOwn'
  BY PcOwnNext
<1>2. UsersOn /\ Len(user') = Len(user) /\ handler' # Idle
  BY UsersStay DEF Idle
<1>3. stop # "no" => StopInv'
  BY <1>2, StopNext
<1> QED BY <1>1, <1>3 DEF StopInv

LEMMA HandleRecordStops ==
  ASSUME MembershipInv, DisconnectInv, PcOwn, StopInv, HandleRecord
  PROVE  PcOwn' /\ StopInv'
<1> DEFINE c == handler.cr
<1>1. c \in 1..Len(cr) /\ handler.at = "lock" /\ handler \in HandlerT /\ UNCHANGED <<user, stop>>
  BY HandlerRecord DEF HandleRecord
<1>2. UsersOn /\ Len(user') = Len(user) /\ UNCHANGED stop
  BY <1>1, UsersStay, AlikeKept DEF UsersOn, MembershipInv, Shape
<1>3. ASSUME Alike(pc'), cr' = cr \/ \E d : cr' \in Released(d), handler' = Done
      PROVE  PcOwn' /\ StopInv'
  BY <1>2, <1>3, AlikeKept, QuietStep
<1>4. CASE Reset(c) /\ handler' = Done
  BY <1>3, <1>4, PcAlike, CloseAlike DEF Reset, Released
<1>5. ASSUME NEW clear \in BOOLEAN, NEW k, NEW r,
             k = IF clear THEN Close(pc, cr[c].pc) ELSE pc,
             r = IF clear THEN [cr EXCEPT ![c].pc = Nil] ELSE cr,
             Ignored(c, k, r) \/ Renegotiate(c, k, r) \/ GotSDP(c, k, r)
      PROVE  PcOwn' /\ StopInv'
  <2>1. Alike(k) /\ (r = cr \/ r \in Released(c))
    BY <1>5, PcAlike, CloseAlike DEF Released
  <2>2. CASE Ignored(c, k, r)
    BY <1>3, <2>1, <2>2 DEF Ignored
  <2>3. CASE Renegotiate(c, k, r)
    <3>1. Create(c, k, "new") /\ handler' = Done
      BY <2>3 DEF Renegotiate
    <3> HIDE DEF c
    <3>2. RecordsKept(c) /\ Connects
      BY <1>1, <2>1, <3>1, CreateKept
    <3> QED BY <1>2, <3>1, <3>2, QuietStep
  <2>4. CASE GotSDP(c, k, r)
    <3>1. RecordsKept(Nil) /\ Connects
      BY <2>1, <2>4, AlikeKept DEF GotSDP
    <3>2. handler'.at = "sdp" /\ handler'.pc = cr[c].pc /\ handler'.cr = c
      BY <1>1, <2>4 DEF GotSDP, HandlerT
    <3>3. stop # "no" /\ handler'.pc # Nil => ~OpenOwner(c)
      BY <1>1, <3>2 DEF StopInv
    <3>4. PcOwn'
      BY <3>1, PcOwnNext
    <3>5. handler' # Idle
      BY <3>2 DEF Idle
    <3> HIDE DEF c
    <3>6. stop # "no" => StopInv'
      BY <1>1, <1>2, <3>1, <3>2, <3>3, <3>5, StopNext
    <3> QED BY <1>2, <3>4, <3>6 DEF StopInv
  <2> QED BY <1>5, <2>2, <2>3, <2>4
<1> QED BY <1>4, <1>5 DEF HandleRecord

LEMMA SDPStops ==
  ASSUME MembershipInv, DisconnectInv, PcOwn, StopInv, SDPCreates \/ SDPApplies
  PROVE  PcOwn' /\ StopInv'
<1> DEFINE c == handler.cr
           p == handler.pc
<1>1. /\ c \in 1..Len(cr) /\ handler.at = "sdp" /\ handler \in HandlerT
      /\ UNCHANGED <<user, stop>> /\ Len(pc) \in Nat /\ Len(user) \in Nat
  BY HandlerRecord, Pointers DEF SDPCreates, SDPApplies
<1>2. UsersOn /\ Len(user') = Len(user) /\ UNCHANGED stop
  BY <1>1 DEF UsersOn
<1>3. CASE SDPCreates
  <2> HIDE DEF c
  <2>1. RecordsKept(c) /\ Connects
    BY <1>1, <1>3, PcAlike, CreateKept DEF SDPCreates, c
  <2>2. CASE handler' = Done
    BY <1>2, <2>1, <2>2, QuietStep
  <2>3. CASE ~Initiates(c) /\ handler' = [handler EXCEPT !.pc = Len(pc) + 1]
    <3>1. handler'.at = "sdp" /\ handler'.cr = c
      BY <1>1, <2>3 DEF HandlerT, c
    <3>2. handler' # Idle
      BY <3>1 DEF Idle
    <3>3. PcOwn'
      BY <2>1, PcOwnNext
    <3>4. stop # "no" => StopInv'
      BY <1>1, <1>2, <2>1, <2>3, <3>1, <3>2, StopNext
    <3> QED BY <1>2, <3>3, <3>4 DEF StopInv
  <2> QED BY <1>3, <2>2, <2>3 DEF SDPCreates, c
<1>4. CASE SDPApplies
  <2>1. CASE Reset(c) /\ handler' = Done
    <3>1. Alike(pc') /\ cr' \in Released(c)
      BY <2>1, PcAlike, CloseAlike DEF Reset, Released
    <3> QED BY <1>2, <2>1, <3>1, AlikeKept, QuietStep
  <2>2. CASE /\ pc[p].state # "closed"
             /\ Initiates(c) \/ WsUp
             /\ pc' = IF pc[p].state = "new" /\ cr[c].pc = p
                      THEN [pc EXCEPT ![p].state = "connected"] ELSE pc
             /\ UNCHANGED cr
             /\ handler' = IF handler.target = Pipeline THEN Done
                           ELSE [handler EXCEPT !.at = "resurrect"]
    <3>1. RecordsKept(Nil) /\ (stop # "no" => Connects)
      <4>1. CASE pc' = pc
        BY <2>2, <4>1, PcAlike, AlikeKept
      <4>2. CASE /\ cr[c].pc = p
                 /\ pc' = [pc EXCEPT ![p].state = "connected"]
        <5>1. p # Nil
          BY <1>4 DEF SDPApplies
        <5>2. p \in 1..Len(pc) /\ pc[p].cr = c
          BY <1>1, <4>2, <5>1 DEF PcOwn
        <5>3. pc \in [1..Len(pc) -> PeerConnectionT]
          BY LenProperties DEF MembershipInv, Shape
        <5>4. /\ Len(pc') = Len(pc)
              /\ \A q \in 1..Len(pc) : pc'[q].cr = pc[q].cr
          BY <2>2, <4>2, TouchedStays DEF Touched, Live
        <5>5. \A q \in 1..Len(pc) : q # p => pc'[q] = pc[q]
          BY <4>2, <5>3
        <5>6. stop # "no" => ~OpenOwner(c)
          BY <1>1, <2>2, <5>1 DEF StopInv, WsUp
        <5>7. stop # "no" => Connects
          BY <5>2, <5>4, <5>5, <5>6 DEF Connects
        <5>8. RecordsKept(Nil)
          BY <1>1, <2>2, <5>4, Pointers DEF RecordsKept
        <5> QED BY <5>7, <5>8
      <4> QED BY <2>2, <4>1, <4>2
    <3>2. CASE handler' = Done
      BY <1>2, <3>1, <3>2, QuietStep
    <3>3. CASE handler' = [handler EXCEPT !.at = "resurrect"]
      <4>1. handler'.at = "resurrect"
        BY <1>1, <3>3 DEF HandlerT
      <4> QED BY <1>1, <3>1, <4>1, AwayStep
    <3> QED BY <2>2, <3>2, <3>3
  <2> QED BY <1>4, <2>1, <2>2 DEF SDPApplies
<1> QED BY <1>3, <1>4

LEMMA ReviveStops ==
  ASSUME MembershipInv, DisconnectInv, PcOwn, StopInv, Resurrect \/ Revive
  PROVE  PcOwn' /\ StopInv'
<1> DEFINE c == handler.cr
<1>1. /\ c \in 1..Len(cr) /\ handler \in HandlerT
      /\ UNCHANGED <<user, stop>> /\ Len(user) \in Nat
  BY HandlerRecord, Pointers DEF Resurrect, Revive
<1>2. UsersOn /\ Len(user') = Len(user) /\ UNCHANGED stop
  BY <1>1 DEF UsersOn
<1>3. UNCHANGED <<cr, pc>> => RecordsKept(Nil) /\ Connects
  BY PcAlike, AlikeKept
<1>4. CASE handler' = Done
  <2>1. CASE UNCHANGED <<cr, pc>>
    BY <1>2, <1>3, <1>4, <2>1, QuietStep
  <2>2. CASE Create(c, pc, "new")
    <3> HIDE DEF c
    <3>1. RecordsKept(c) /\ Connects
      BY <1>1, <2>2, PcAlike, CreateKept
    <3> QED BY <1>2, <1>4, <3>1, QuietStep
  <2> QED BY <2>1, <2>2 DEF Resurrect, Revive
<1>5. ASSUME NEW e, handler' = [handler EXCEPT !.at = "revive", !.cr = e], Resurrect
      PROVE  PcOwn' /\ StopInv'
  <2>1. handler'.at = "revive" /\ UNCHANGED <<cr, pc>>
    BY <1>1, <1>5 DEF HandlerT, Resurrect
  <2> QED BY <1>1, <1>3, <2>1, AwayStep
<1> QED BY <1>4, <1>5 DEF Resurrect, Revive

(* A peer connection that fails, is given up or is destroyed.              *)
LEMMA PeerConnectionStops ==
  ASSUME MembershipInv, DisconnectInv, PcOwn, StopInv,
         NEW p \in DOMAIN pc, Fail(p) \/ Watch(p) \/ Destroy(p)
  PROVE  PcOwn' /\ StopInv'
<1>1. UNCHANGED <<handler, stop>>
  BY DEF Fail, Watch, Destroy
<1>2. ASSUME Alike(pc'), cr' = cr \/ \E d : cr' \in Released(d),
             UNCHANGED user \/ \E U : CloseUsers(U)
      PROVE  PcOwn' /\ StopInv'
  <2>1. RecordsKept(Nil) /\ Connects
    BY <1>2, AlikeKept
  <2>2. UsersOn /\ Len(user') = Len(user)
    BY <1>2, <2>1, UsersStay
  <2> QED BY <1>1, <2>1, <2>2, QuietStep
<1>3. CASE Fail(p)
  BY <1>2, <1>3, TouchedAlike DEF Fail
<1>4. CASE Watch(p)
  BY <1>2, <1>4, PcAlike, CloseAlike DEF Watch
<1>5. CASE Destroy(p)
  <2> DEFINE k == [pc EXCEPT ![p].destroys = FALSE]
             c == pc[p].cr
  <2>1. Alike(k)
    BY TouchedAlike
  <2>2. CASE pc' = k /\ UNCHANGED <<user, cr>>
    BY <1>2, <2>1, <2>2
  <2>3. CASE /\ pc' = Close(k, cr[c].pc) /\ cr' = Emptied(c)
             /\ UNCHANGED user \/ \E U : CloseUsers(U)
    <3>1. Alike(pc') /\ cr' \in Released(c)
      BY <2>1, <2>3, CloseAlike DEF Released
    <3> QED BY <1>2, <2>3, <3>1
  <2> QED BY <1>5, <2>2, <2>3 DEF Destroy
<1> QED BY <1>3, <1>4, <1>5

LEMMA CloserStops ==
  ASSUME MembershipInv, DisconnectInv, PcOwn, StopInv, NEW u \in DOMAIN user, Closer(u)
  PROVE  PcOwn' /\ StopInv'
<1>1. UNCHANGED <<handler, stop>> /\ Len(cr) \in Nat
  BY Pointers DEF Closer, CloserOwn, CloserCopies, CloserOther
<1>2. UNCHANGED <<cr, pc>> \/ \E c : Reset(c)
  BY DEF Closer, CloserOwn, CloserCopies, CloserOther
<1>3. Alike(pc') /\ (cr' = cr \/ \E c : cr' \in Released(c))
  BY <1>2, PcAlike, CloseAlike DEF Reset, Released
<1>4. RecordsKept(Nil) /\ Connects
  BY <1>3, AlikeKept
<1>5. UNCHANGED user \/ \E v, i : user' = [user EXCEPT ![v].links[i] = Nil]
  BY DEF Closer, CloserOwn, CloserCopies, CloserOther
<1>6. Nil \in 0..Len(cr')
  BY <1>1, <1>4 DEF RecordsKept, Nil
<1>7. UsersOn /\ Len(user') = Len(user)
  BY <1>4, <1>5, <1>6, UsersStay
<1> QED BY <1>1, <1>4, <1>7, QuietStep

LEMMA DeliverStops ==
  ASSUME MembershipInv, DisconnectInv, PcOwn, StopInv, NEW u \in DOMAIN user, Deliver(u)
  PROVE  PcOwn' /\ StopInv'
<1>1. PICK c : cr' = [cr EXCEPT ![c].bound = u]
  BY DEF Deliver
<1>2. UNCHANGED <<user, pc, handler, stop>> /\ u \in Nat
  BY LenProperties DEF Deliver, MembershipInv, Shape
<1>3. Len(cr') = Len(cr)
  <2>1. cr' \in Changed(cr, c, 0, u)
    BY <1>1 DEF Changed
  <2> QED BY <1>2, <2>1, ChangedOK, RecordsAreOK
<1>4. cr \in [1..Len(cr) -> ConnectionT] /\ Len(cr) \in Nat /\ Len(pc) \in Nat
  BY LenProperties DEF MembershipInv, Shape
<1>5. \A d \in 1..Len(cr) :
        /\ cr'[d].owner = cr[d].owner /\ cr'[d].peer = cr[d].peer /\ cr'[d].pc = cr[d].pc
  BY <1>1, <1>4 DEF ConnectionT
<1>6. RecordsKept(Nil) /\ Connects
  BY <1>2, <1>3, <1>4, <1>5 DEF RecordsKept, Connects
<1>7. UsersOn /\ Len(user') = Len(user)
  BY <1>2, <1>6, UsersStay
<1> QED BY <1>2, <1>6, <1>7, QuietStep

LEMMA HangupStops ==
  ASSUME MembershipInv, DisconnectInv, PcOwn, StopInv, NEW i \in Users, Hangup(i)
  PROVE  PcOwn' /\ StopInv'
<1>1. UNCHANGED <<cr, pc, handler, stop>> /\ \E U : CloseUsers(U)
  BY DEF Hangup
<1>2. RecordsKept(Nil) /\ Connects
  BY <1>1, PcAlike, AlikeKept
<1>3. UsersOn /\ Len(user') = Len(user)
  BY <1>1, <1>2, UsersStay
<1> QED BY <1>1, <1>2, <1>3, QuietStep

(* Stop gets at every open user, as all are in the channel.                *)
LEMMA ChannelStops ==
  ASSUME MembershipInv, DisconnectInv, PcOwn, StopInv, Stop
  PROVE  PcOwn' /\ StopInv'
<1>1. /\ stop = "no" /\ stop' = "users" /\ CloseUsers(MemberRecords)
      /\ UNCHANGED <<cr, pc>> /\ handler' \in {handler, Ended}
  BY DEF Stop
<1>2. RecordsKept(Nil)
  BY <1>1, PcAlike, AlikeKept
<1>3. PcOwn'
  BY <1>2, PcOwnNext
<1>4. /\ Len(user') = Len(user)
      /\ \A u \in 1..Len(user) : user'[u].closed = (user[u].closed \/ u \in MemberRecords)
  BY <1>1, CloseUsersShape DEF MembershipInv
<1>5. \A u \in 1..Len(user) : user[u].closed \/ u \in MemberRecords
  <2> SUFFICES ASSUME NEW u \in 1..Len(user), ~user[u].closed
               PROVE  u \in MemberRecords
    OBVIOUS
  <2>1. user[u].id \in Users /\ members[user[u].id] = u /\ u # Nil
    BY <1>1, UserTyped DEF MembershipInv, OpenAgree, Nil
  <2> QED BY <2>1 DEF MemberRecords
<1>6. \A u \in 1..Len(user) : user'[u].closed
  BY <1>4, <1>5, Zenon
<1>7. \A c \in 1..Len(cr) : ~OpenOwner(c)'
  BY <1>1, <1>6, Pointers DEF OpenOwner
<1>8. handler'.at = "sdp" => handler'.cr \in 1..Len(cr)
  BY <1>1 DEF Ended, Idle, MembershipInv, HandlerPointers
<1>9. \A u \in 1..Len(user') : user'[u].closed
  BY <1>4, <1>6
<1>10. handler'.at = "sdp" => ~OpenOwner(handler.cr)'
  BY <1>1, <1>7, <1>8 DEF OpenOwner
<1>11. (\A p \in 1..Len(pc) : pc[p].state = "connected" => ~OpenOwner(pc[p].cr))'
  BY <1>1, <1>7, Pointers DEF OpenOwner
<1>12. \A c \in 1..Len(cr') : ~OpenOwner(c)'
  BY <1>1, <1>7
<1> QED BY <1>3, <1>9, <1>10, <1>11, <1>12 DEF StopInv

LEMMA StopDoneStops ==
  ASSUME MembershipInv, DisconnectInv, PcOwn, StopInv, StopDone
  PROVE  PcOwn' /\ StopInv'
<1>1. /\ pc' = [p \in DOMAIN pc |-> [pc[p] EXCEPT !.destroys = FALSE]]
      /\ UNCHANGED <<user, cr>> /\ stop # "no"
      /\ handler' = handler \/ handler' = Ended
  BY DEF StopDone
<1>2. pc \in [1..Len(pc) -> PeerConnectionT] /\ DOMAIN pc = 1..Len(pc) /\ Len(pc) \in Nat
  BY LenProperties DEF MembershipInv, Shape
<1>3. \A p \in 1..Len(pc) : /\ pc'[p] \in PeerConnectionT /\ pc'[p].cr = pc[p].cr
                            /\ pc'[p].state = pc[p].state
  BY <1>1, <1>2 DEF PeerConnectionT
<1>4. pc' \in [1..Len(pc) -> PeerConnectionT]
  BY <1>1, <1>2, <1>3
<1>5. Alike(pc')
  BY <1>2, <1>3, <1>4, FunctionSeq DEF Alike
<1>6. RecordsKept(Nil) /\ Connects
  BY <1>1, <1>5, AlikeKept
<1>7. UsersOn /\ Len(user') = Len(user)
  BY <1>1, <1>6, UsersStay
<1> QED BY <1>1, <1>6, <1>7, QuietStep

LEMMA StopInvStep ==
  ASSUME MembershipAssumption, MembershipInv, DisconnectInv, PcOwn, StopInv, [Next]_vars
  PROVE  PcOwn' /\ StopInv'
<1>1. CASE UNCHANGED vars
  BY <1>1 DEF vars, PcOwn, StopInv, OpenOwner, Initiates
<1>2. CASE FindSource \/ Handle
  BY <1>2, FindSourceStops, FindRecordStops, HandleRecordStops, SDPStops, ReviveStops
     DEF Handle
<1>3. CASE (\E i \in Users : Hangup(i)) \/ Stop \/ StopDone
  BY <1>3, HangupStops, ChannelStops, StopDoneStops
<1>4. CASE \E u \in DOMAIN user : Closer(u) \/ Deliver(u)
  BY <1>4, CloserStops, DeliverStops
<1>5. CASE \E p \in DOMAIN pc : Fail(p) \/ Watch(p) \/ Destroy(p)
  BY <1>5, PeerConnectionStops
<1> QED BY <1>1, <1>2, <1>3, <1>4, <1>5 DEF Next

LEMMA StopInvariant ==
  Spec => [](MembershipInv /\ DisconnectInv /\ PcOwn /\ StopInv)
<1>1. Init => PcOwn /\ StopInv
  BY DEF Init, PcOwn, StopInv
<1>2. /\ MembershipInv /\ DisconnectInv /\ PcOwn /\ StopInv /\ [Next]_vars
      => (PcOwn /\ StopInv)'
  BY MembershipAssumption, StopInvStep
<1> QED BY <1>1, <1>2, DisconnectInvariant, PTL DEF Spec

(* When Channel.Stop and all it left running have ended, no peer connection *)
(* is open but orphans, for any number of users: one that came meanwhile    *)
(* got no offer answered, and its watchers end what is not connected.       *)
THEOREM ChannelStopCloses == Spec => []StopCloses
<1>1. MembershipInv /\ DisconnectInv /\ StopInv => StopCloses
  <2> SUFFICES ASSUME MembershipInv, DisconnectInv, StopInv, ChannelClosed, Quiet,
                      NEW p \in DOMAIN pc, pc[p].state # "closed", ~pc[p].orphan
               PROVE  FALSE
    BY DEF StopCloses
  <2>1. /\ p \in 1..Len(pc) /\ pc[p] \in PeerConnectionT
        /\ pc[p].cr \in 1..Len(cr) /\ cr[pc[p].cr].owner \in DOMAIN user
    BY Pointers
  <2>2. cr[pc[p].cr].pc = p /\ AttendedTo(pc[p].cr)
    BY <2>1 DEF DisconnectInv, OwnPc, Attended, Live
  <2>3. pc[p].state = "connected"
    BY <2>1, <2>2 DEF Quiet, PeerConnectionT
  <2>4. user[cr[pc[p].cr].owner].closed
    BY <2>1, <2>3 DEF StopInv, OpenOwner, ChannelClosed
  <2> QED BY <2>1, <2>2, <2>4 DEF AttendedTo, Comes, Quiet, Closed, CloserDone
<1> QED BY <1>1, StopInvariant, PTL

(***************************************************************************)
(* The types.  Beyond MembershipInv and PcOwn they say that the numbers in *)
(* the goroutines and the handler are those of records, and the bounds.    *)
(***************************************************************************)
HandlerNumbers ==
  /\ handler.source \in 0..Len(user) /\ handler.cr \in 0..Len(cr)
  /\ handler.pc \in 0..Len(pc)

NumbersInv ==
  /\ Len(cr) <= MaxConns /\ Len(pc) <= MaxPcs
  /\ \A c \in 1..Len(cr) : cr[c].bound \in 0..Len(user)
  /\ \A u \in 1..Len(user) : closer[u].others \subseteq 1..Len(user)
  /\ HandlerNumbers
  /\ stop \in {"no", "users", "closed"}

LEMMA NumbersType ==
  ASSUME MembershipInv, PcOwn, NumbersInv
  PROVE  TypeOK
<1>1. /\ Len(cr) \in Nat /\ Len(pc) \in Nat /\ Len(user) \in Nat
      /\ DOMAIN pc = 1..Len(pc) /\ DOMAIN user = 1..Len(user) /\ DOMAIN cr = 1..Len(cr)
      /\ DOMAIN closer = 1..Len(user)
      /\ user \in [1..Len(user) -> UserT] /\ cr \in [1..Len(cr) -> ConnectionT]
      /\ pc \in [1..Len(pc) -> PeerConnectionT] /\ closer \in [1..Len(user) -> CloserT]
  BY LenProperties DEF MembershipInv, Shape
<1>2. members \in [Users -> UserRecords \cup {Nil}]
  BY <1>1 DEF MembershipInv, Shape, MembersListed, UserRecords
<1>3. user \in Seq(User)
  <2>1. ASSUME NEW u \in 1..Len(user) PROVE user[u] \in User
    <3>1. user[u] \in UserT /\ user[u].default \in 1..Len(cr)
          /\ \A i \in Users : user[u].links[i] \in 0..Len(cr)
      BY <1>1 DEF MembershipInv, UserPointers
    <3>2. user[u].links \in [Users -> ConnRecords \cup {Nil}]
      BY <1>1, <3>1 DEF UserT, ConnRecords, Nil
    <3> QED BY <1>1, <3>1, <3>2 DEF UserT, User, ConnRecords
  <2>2. user \in [1..Len(user) -> User]
    BY <1>1, <2>1
  <2> QED BY <1>1, <2>2, FunctionSeq
<1>4. cr \in Seq(Connection)
  <2>1. ASSUME NEW c \in 1..Len(cr) PROVE cr[c] \in Connection
    <3>1. /\ cr[c] \in ConnectionT /\ cr[c].owner \in 1..Len(user)
          /\ cr[c].bound \in 0..Len(user)
          /\ cr[c].pc # Nil => cr[c].pc \in 1..Len(pc)
      BY <1>1 DEF MembershipInv, OwnerPointers, NumbersInv, PcOwn
    <3> QED BY <1>1, <3>1 DEF ConnectionT, Connection, UserRecords, Pcs, Nil
  <2>2. cr \in [1..Len(cr) -> Connection]
    BY <1>1, <2>1
  <2> QED BY <1>1, <2>2, FunctionSeq
<1>5. pc \in Seq(PeerConnection)
  <2>1. ASSUME NEW p \in 1..Len(pc) PROVE pc[p] \in PeerConnection
    <3>1. pc[p] \in PeerConnectionT /\ pc[p].cr \in 1..Len(cr)
      BY <1>1 DEF MembershipInv, PcPointers
    <3> QED BY <1>1, <3>1 DEF PeerConnectionT, PeerConnection, ConnRecords
  <2>2. pc \in [1..Len(pc) -> PeerConnection]
    BY <1>1, <2>1
  <2> QED BY <1>1, <2>2, FunctionSeq
<1>6. ASSUME NEW u \in 1..Len(user)
      PROVE  closer[u] \in [at : {"none", "own", "others"},
                            own : SUBSET Peers, others : SUBSET UserRecords]
  <2>1. closer[u] \in CloserT /\ closer[u].others \subseteq UserRecords
    BY <1>1 DEF NumbersInv, UserRecords
  <2> QED BY <2>1 DEF CloserT
<1>7. handler \in Handler
  BY <1>1 DEF MembershipInv, Shape, NumbersInv, HandlerNumbers, HandlerT, Handler,
              UserRecords, ConnRecords, Pcs, Nil
<1> QED BY <1>1, <1>2, <1>3, <1>4, <1>5, <1>6, <1>7 DEF TypeOK, NumbersInv

(* No new record, at most one peer connection more; what a record is bound *)
(* to is a user record.                                                    *)
NumbersKept ==
  /\ Len(cr') = Len(cr)
  /\ Len(pc') \in Nat /\ Len(pc') >= Len(pc) /\ Len(pc') <= MaxPcs
  /\ \A c \in 1..Len(cr) : cr'[c].bound \in 0..Len(user)

LEMMA BoundShape ==
  ASSUME MembershipInv, NEW c, NEW n \in Nat, NEW b \in Nat, NEW r \in Changed(cr, c, n, b)
  PROVE  Len(r) = Len(cr) /\ \A d \in 1..Len(cr) : r[d].bound \in {cr[d].bound, b}
<1>1. cr \in [1..Len(cr) -> ConnectionT] /\ cr \in Seq(ConnectionT)
  BY LenProperties DEF MembershipInv, Shape
<1>2. Len(r) = Len(cr)
  BY <1>1, ChangedShape
<1>3. ASSUME NEW d \in 1..Len(cr) PROVE r[d].bound \in {cr[d].bound, b}
  <2>1. CASE r = [cr EXCEPT ![c].pc = n]
    BY <1>1, <2>1 DEF ConnectionT
  <2>2. CASE r = [cr EXCEPT ![c].bound = b]
    BY <1>1, <2>2 DEF ConnectionT
  <2>3. CASE r = [cr EXCEPT ![c].pc = n, ![c].bound = b]
    BY <1>1, <2>3 DEF ConnectionT
  <2> QED BY <2>1, <2>2, <2>3 DEF Changed
<1> QED BY <1>2, <1>3

LEMMA ChangedNumbers ==
  ASSUME MembershipAssumption, MembershipInv, NumbersInv, Len(pc') = Len(pc),
         \/ cr' = cr
         \/ \E c : \E b \in 0..Len(user) : cr' \in Changed(cr, c, 0, b)
  PROVE  NumbersKept
<1>1. Len(cr) \in Nat /\ Len(pc) \in Nat /\ Len(user) \in Nat /\ MaxPcs \in Nat
  BY Pointers DEF MembershipAssumption
<1>2. CASE cr' = cr
  BY <1>1, <1>2 DEF NumbersKept, NumbersInv
<1>3. ASSUME NEW c, NEW b \in 0..Len(user), cr' \in Changed(cr, c, 0, b) PROVE NumbersKept
  <2>1. 0 \in Nat /\ b \in Nat
    BY <1>1
  <2>2. Len(cr') = Len(cr) /\ \A d \in 1..Len(cr) : cr'[d].bound \in {cr[d].bound, b}
    BY <1>3, <2>1, BoundShape
  <2> QED BY <1>1, <2>2 DEF NumbersKept, NumbersInv
<1> QED BY <1>2, <1>3

LEMMA ResetNumbers ==
  ASSUME MembershipAssumption, MembershipInv, NumbersInv, NEW c,
         cr' = Emptied(c), Len(pc') = Len(pc)
  PROVE  NumbersKept
<1>1. cr' \in Changed(cr, c, 0, 0) /\ 0 \in 0..Len(user)
  BY Pointers DEF Emptied, Changed, Nil
<1> QED BY <1>1, ChangedNumbers

LEMMA CloseNumbers ==
  ASSUME MembershipInv, NEW k, Alike(k), NEW p
  PROVE  Len(Close(k, p)) = Len(pc) /\ Alike(Close(k, p))
<1>1. Alike(Close(k, p))
  BY CloseAlike
<1> QED BY <1>1 DEF Alike

LEMMA CreateNumbers ==
  ASSUME MembershipAssumption, MembershipInv, NumbersInv, NEW c \in 1..Len(cr),
         NEW k, Alike(k), Create(c, k, "new")
  PROVE  NumbersKept /\ Len(pc') = Len(pc) + 1
<1> DEFINE e == NewPeerConnection(c, "new")
<1>1. Len(cr) \in Nat /\ Len(pc) \in Nat /\ Len(user) \in Nat /\ MaxPcs \in Nat
  BY Pointers DEF MembershipAssumption
<1>2. e \in PeerConnectionT
  <2>1. c \in Nat
    BY <1>1
  <2> QED BY <2>1 DEF NewPeerConnection, PeerConnectionT, Closed, Listed
<1>3. pc' = Append(k, e) /\ k \in Seq(PeerConnectionT) /\ Len(k) = Len(pc) /\ Len(k) < MaxPcs
      /\ cr' = [cr EXCEPT ![c].pc = Len(pc) + 1]
  BY DEF Create, Alike
<1> HIDE DEF e
<1>4. Len(pc') = Len(pc) + 1
  BY <1>1, <1>2, <1>3, AppendProperties
<1>5. cr' \in Changed(cr, c, Len(pc) + 1, 0) /\ Len(pc) + 1 \in Nat /\ 0 \in Nat
  BY <1>1, <1>3 DEF Changed
<1>6. Len(cr') = Len(cr) /\ \A d \in 1..Len(cr) : cr'[d].bound \in {cr[d].bound, 0}
  BY <1>5, BoundShape
<1> QED BY <1>1, <1>3, <1>4, <1>6 DEF NumbersKept, NumbersInv

(* What the handler and the goroutines refer to.                           *)
LEMMA HandlerNumbered ==
  ASSUME MembershipInv, NumbersInv, Len(user') \in Nat, Len(cr') \in Nat, Len(pc') \in Nat,
         Len(user') >= Len(user), Len(cr') >= Len(cr), Len(pc') >= Len(pc),
         handler' \in {handler, Idle, Ended}
  PROVE  HandlerNumbers'
<1>1. Len(cr) \in Nat /\ Len(pc) \in Nat /\ Len(user) \in Nat
  BY Pointers
<1> QED BY <1>1 DEF NumbersInv, HandlerNumbers, Idle, Ended, Nil

LEMMA NumbersNext ==
  ASSUME MembershipAssumption, MembershipInv, NumbersInv, NumbersKept,
         Len(user') = Len(user),
         \/ closer' = closer
         \/ \A u \in 1..Len(user) : closer'[u].others \subseteq 1..Len(user),
         handler' \in {handler, Idle, Ended} \/ HandlerNumbers',
         stop' \in {"no", "users", "closed"}
  PROVE  NumbersInv'
<1>1. Len(cr) \in Nat /\ Len(pc) \in Nat /\ Len(user) \in Nat
  BY Pointers
<1>2. HandlerNumbers'
  BY <1>1, HandlerNumbered DEF NumbersKept
<1> QED BY <1>1, <1>2 DEF NumbersInv, NumbersKept

LEMMA FindSourceNumbers ==
  ASSUME MembershipAssumption, MembershipInv, NumbersInv, FindSource
  PROVE  NumbersInv'
<1>1. PICK i \in Users, t \in Peers : Join(i, t) \/ Rejoin(i, t)
  BY DEF FindSource
<1>2. /\ cr \in Seq(ConnectionT) /\ user \in Seq(UserT) /\ closer \in Seq(CloserT)
      /\ Len(cr) \in Nat /\ Len(user) \in Nat /\ Len(pc) \in Nat /\ MaxConns \in Nat
      /\ Len(closer) = Len(user) /\ UNCHANGED <<pc, stop>>
  BY <1>1, LenProperties DEF MembershipInv, Shape, MembershipAssumption, Join, Rejoin
<1>3. CASE Rejoin(i, t)
  <2>1. members[i] \in 1..Len(user)
    BY <1>3 DEF Rejoin, MembershipInv, MembersListed
  <2>2. /\ UNCHANGED <<user, cr, closer>>
        /\ handler'.source = members[i] /\ handler'.cr = 0 /\ handler'.pc = 0
    BY <1>3 DEF Rejoin, Idle, Nil
  <2> QED BY <1>2, <2>1, <2>2 DEF NumbersInv, HandlerNumbers
<1>4. CASE Join(i, t)
  <2> DEFINE n == Len(cr) + 1
             m == Len(user) + 1
             x == NewUser(i)
             y == NewConnection(m, Pipeline)
             z == NoCloser
  <2>1. /\ user' = Append(user, x) /\ cr' = Append(cr, y) /\ closer' = Append(closer, z)
        /\ handler'.source = m /\ handler'.cr = 0 /\ handler'.pc = 0
        /\ y.bound = 0 /\ z.others = {} /\ Len(cr) < MaxConns
    BY <1>4 DEF Join, NewConnection, NoCloser, Idle, Nil
  <2> HIDE DEF x, y, z
  <2>2. /\ Len(user') = m
        /\ Len(cr') = n /\ cr'[n] = y /\ \A c \in 1..Len(cr) : cr'[c] = cr[c]
        /\ closer'[m] = z /\ \A u \in 1..Len(user) : closer'[u] = closer[u]
    BY <1>2, <2>1
  <2>3. /\ \A c \in 1..n : c \in 1..Len(cr) \/ c = n
        /\ \A u \in 1..m : u \in 1..Len(user) \/ u = m
        /\ 1..Len(user) \subseteq 1..m /\ 0..Len(user) \subseteq 0..m
        /\ n <= MaxConns /\ m \in 0..m /\ 0 \in 0..m /\ 0 \in 0..n /\ 0 \in 0..Len(pc)
    BY <1>2, <2>1
  <2>4. \A c \in 1..Len(cr') : cr'[c].bound \in 0..Len(user')
    BY <2>1, <2>2, <2>3 DEF NumbersInv
  <2>5. \A u \in 1..Len(user') : closer'[u].others \subseteq 1..Len(user')
    BY <2>1, <2>2, <2>3 DEF NumbersInv
  <2>6. HandlerNumbers'
    BY <1>2, <2>1, <2>2, <2>3 DEF HandlerNumbers
  <2> QED BY <1>2, <2>2, <2>3, <2>4, <2>5, <2>6 DEF NumbersInv
<1> QED BY <1>1, <1>3, <1>4

LEMMA FindRecordNumbers ==
  ASSUME MembershipAssumption, MembershipInv, MembershipInv', NumbersInv, FindRecord
  PROVE  NumbersInv'
<1> DEFINE u == handler.source
           t == handler.target
           n == Len(cr) + 1
           y == NewConnection(u, t)
<1>1. /\ handler.at = "found" /\ handler \in HandlerT /\ UNCHANGED <<pc, stop, closer>>
      /\ cr \in Seq(ConnectionT) /\ Len(cr) \in Nat /\ Len(pc) \in Nat /\ Len(user) \in Nat
      /\ MaxConns \in Nat
  BY Pointers DEF FindRecord, MembershipInv, Shape, MembershipAssumption
<1>2. \/ UNCHANGED <<user, cr>>
      \/ /\ cr' = Append(cr, y) /\ user' = [user EXCEPT ![u].links[t] = n]
         /\ Len(cr) < MaxConns
  BY DEF FindRecord
<1>3. PICK c : FoundRecord(c)
  BY DEF FindRecord
<1>4. Len(user') = Len(user)
  <2>1. CASE UNCHANGED user
    BY <2>1
  <2>2. CASE user' = [user EXCEPT ![u].links[t] = n]
    <3>1. DOMAIN user' = DOMAIN user
      BY <2>2
    <3>2. DOMAIN user = 1..Len(user) /\ DOMAIN user' = 1..Len(user') /\ Len(user') \in Nat
      BY LenProperties DEF MembershipInv, Shape
    <3> QED BY <1>1, <3>1, <3>2
  <2> QED BY <1>2, <2>1, <2>2
<1>5. y.bound = 0
  BY DEF NewConnection, Nil
<1> HIDE DEF y
<1>6. /\ Len(cr') \in Nat /\ Len(cr') >= Len(cr) /\ Len(cr') <= MaxConns
      /\ \A d \in 1..Len(cr') : cr'[d].bound \in 0..Len(user)
  <2>1. CASE UNCHANGED cr
    BY <1>1, <2>1 DEF NumbersInv
  <2>2. CASE cr' = Append(cr, y) /\ Len(cr) < MaxConns
    <3>1. /\ Len(cr') = n /\ cr'[n] = y /\ \A d \in 1..Len(cr) : cr'[d] = cr[d]
          /\ \A d \in 1..n : d \in 1..Len(cr) \/ d = n
          /\ 0 \in 0..Len(user) /\ n \in Nat /\ n <= MaxConns /\ n >= Len(cr)
      BY <1>1, <2>2
    <3>2. \A d \in 1..n : cr'[d].bound \in 0..Len(user)
      BY <1>5, <3>1 DEF NumbersInv
    <3> QED BY <3>1, <3>2
  <2> QED BY <1>2, <2>1, <2>2
<1>7. HandlerNumbers'
  <2>1. CASE handler' \in {Idle, Ended}
    BY <1>1, <1>4, <1>6, <2>1, HandlerNumbered
  <2>2. CASE handler' = [handler EXCEPT !.at = "lock", !.cr = c]
    <3>1. handler'.at = "lock" /\ handler'.cr = c /\ handler'.source = u /\ handler'.pc = handler.pc
      BY <1>1, <2>2 DEF HandlerT
    <3>2. handler'.cr \in 1..Len(cr')
      BY <3>1 DEF MembershipInv, HandlerPointers
    <3> QED BY <1>1, <1>4, <1>6, <3>1, <3>2 DEF NumbersInv, HandlerNumbers
  <2> QED BY <1>3, <2>1, <2>2 DEF FoundRecord, Done
<1> QED BY <1>1, <1>4, <1>6, <1>7 DEF NumbersInv

LEMMA HandleRecordNumbers ==
  ASSUME MembershipAssumption, MembershipInv, PcOwn, NumbersInv, HandleRecord
  PROVE  NumbersInv'
<1> DEFINE c == handler.cr
<1>1. /\ c \in 1..Len(cr) /\ handler \in HandlerT /\ handler.source \in 1..Len(user)
      /\ UNCHANGED <<members, user, closer, stop>>
      /\ Len(cr) \in Nat /\ Len(pc) \in Nat /\ Len(user) \in Nat
  BY HandlerRecord, Pointers DEF HandleRecord
<1>2. cr[c].pc \in 0..Len(pc)
  <2>1. cr[c].pc # Nil => cr[c].pc \in 1..Len(pc)
    BY <1>1 DEF PcOwn
  <2> QED BY <1>1, <2>1 DEF Nil
<1>3. ASSUME NEW clear \in BOOLEAN, NEW k, NEW r,
             k = IF clear THEN Close(pc, cr[c].pc) ELSE pc,
             r = IF clear THEN [cr EXCEPT ![c].pc = Nil] ELSE cr,
             Ignored(c, k, r) \/ Renegotiate(c, k, r) \/ GotSDP(c, k, r)
      PROVE  NumbersInv'
  <2>1. Alike(k) /\ Len(k) = Len(pc)
    BY <1>3, PcAlike, CloseNumbers
  <2>2. r = cr \/ \E d : \E b \in 0..Len(user) : r \in Changed(cr, d, 0, b)
    <3>1. [cr EXCEPT ![c].pc = Nil] \in Changed(cr, c, 0, 0) /\ 0 \in 0..Len(user)
      BY <1>1 DEF Changed, Nil
    <3> QED BY <1>3, <3>1
  <2>3. CASE Ignored(c, k, r)
    <3>1. NumbersKept
      BY <2>1, <2>2, <2>3, ChangedNumbers DEF Ignored
    <3> QED BY <1>1, <2>3, <3>1, NumbersNext DEF Ignored, Done, NumbersInv
  <2>4. CASE Renegotiate(c, k, r)
    <3>1. NumbersKept
      BY <1>1, <2>1, <2>4, CreateNumbers DEF Renegotiate
    <3> QED BY <1>1, <2>4, <3>1, NumbersNext DEF Renegotiate, Done, NumbersInv
  <2>5. CASE GotSDP(c, k, r)
    <3>1. NumbersKept
      BY <2>1, <2>2, <2>5, ChangedNumbers DEF GotSDP
    <3>2. handler'.pc = cr[c].pc /\ handler'.cr = c /\ handler'.source = handler.source
      BY <1>1, <2>5 DEF GotSDP, HandlerT
    <3>3. HandlerNumbers'
      BY <1>1, <1>2, <3>1, <3>2 DEF NumbersKept, HandlerNumbers
    <3> QED BY <1>1, <3>1, <3>3, NumbersNext DEF NumbersInv
  <2> QED BY <1>3, <2>3, <2>4, <2>5
<1>4. CASE Reset(c) /\ handler' = Done
  <2>1. NumbersKept
    BY <1>4, PcAlike, CloseNumbers, ResetNumbers DEF Reset
  <2> QED BY <1>1, <1>4, <2>1, NumbersNext DEF Done, NumbersInv
<1> QED BY <1>3, <1>4 DEF HandleRecord

LEMMA ConnectedLen ==
  ASSUME MembershipInv, NEW p, pc' \in {pc, [pc EXCEPT ![p].state = "connected"]}
  PROVE  Len(pc') = Len(pc)
<1>1. RecordsOK(cr, pc')
  BY RecordsAreOK, ConnectedOK
<1>2. DOMAIN pc' = DOMAIN pc
  OBVIOUS
<1>3. Len(pc) \in Nat /\ Len(pc') \in Nat /\ DOMAIN pc = 1..Len(pc) /\ DOMAIN pc' = 1..Len(pc')
  BY <1>1, LenProperties DEF RecordsOK, MembershipInv, Shape
<1> QED BY <1>2, <1>3

LEMMA SDPNumbers ==
  ASSUME MembershipAssumption, MembershipInv, NumbersInv, SDPCreates \/ SDPApplies
  PROVE  NumbersInv'
<1> DEFINE c == handler.cr
           p == handler.pc
<1>1. /\ c \in 1..Len(cr) /\ handler \in HandlerT /\ handler.source \in 1..Len(user)
      /\ UNCHANGED <<members, user, closer, stop>>
      /\ Len(cr) \in Nat /\ Len(pc) \in Nat /\ Len(user) \in Nat
  BY HandlerRecord, Pointers DEF SDPCreates, SDPApplies
<1>2. CASE SDPCreates
  <2>1. NumbersKept /\ Len(pc') = Len(pc) + 1
    BY <1>1, <1>2, PcAlike, CreateNumbers DEF SDPCreates
  <2>2. CASE handler' = Done
    BY <1>1, <2>1, <2>2, NumbersNext DEF Done, NumbersInv
  <2>3. CASE handler' = [handler EXCEPT !.pc = Len(pc) + 1]
    <3>1. handler'.pc = Len(pc) + 1 /\ handler'.cr = c /\ handler'.source = handler.source
      BY <1>1, <2>3 DEF HandlerT
    <3>2. HandlerNumbers'
      BY <1>1, <2>1, <3>1 DEF NumbersKept, HandlerNumbers
    <3> QED BY <1>1, <2>1, <3>2, NumbersNext DEF NumbersInv
  <2> QED BY <1>2, <2>2, <2>3 DEF SDPCreates
<1>3. CASE SDPApplies
  <2>1. CASE Reset(c) /\ handler' = Done
    <3>1. NumbersKept
      BY <2>1, PcAlike, CloseNumbers, ResetNumbers DEF Reset
    <3> QED BY <1>1, <2>1, <3>1, NumbersNext DEF Done, NumbersInv
  <2>2. CASE /\ pc' \in {pc, [pc EXCEPT ![p].state = "connected"]}
             /\ UNCHANGED cr
             /\ handler' = IF handler.target = Pipeline THEN Done
                           ELSE [handler EXCEPT !.at = "resurrect"]
    <3>1. NumbersKept /\ Len(pc') = Len(pc)
      BY <2>2, ConnectedLen, ChangedNumbers
    <3>2. CASE handler' \in {Idle, Ended}
      BY <1>1, <3>1, <3>2, NumbersNext DEF NumbersInv
    <3>3. CASE handler' = [handler EXCEPT !.at = "resurrect"]
      <4>1. handler'.pc = p /\ handler'.cr = c /\ handler'.source = handler.source
        BY <1>1, <3>3 DEF HandlerT
      <4>2. HandlerNumbers'
        BY <1>1, <2>2, <3>1, <4>1 DEF NumbersInv, HandlerNumbers
      <4> QED BY <1>1, <3>1, <4>2, NumbersNext DEF NumbersInv
    <3> QED BY <2>2, <3>2, <3>3 DEF Done
  <2> QED BY <1>3, <2>1, <2>2 DEF SDPApplies
<1> QED BY <1>2, <1>3

LEMMA ReviveNumbers ==
  ASSUME MembershipAssumption, MembershipInv, MembershipInv', NumbersInv, Resurrect \/ Revive
  PROVE  NumbersInv'
<1>1. /\ handler.cr \in 1..Len(cr) /\ handler \in HandlerT /\ handler.source \in 1..Len(user)
      /\ UNCHANGED <<members, user, closer, stop>>
      /\ Len(cr) \in Nat /\ Len(pc) \in Nat /\ Len(user) \in Nat
  BY HandlerRecord, Pointers DEF Resurrect, Revive
<1>2. CASE UNCHANGED <<cr, pc>> /\ handler' = Done
  <2>1. NumbersKept
    BY <1>2, ChangedNumbers
  <2> QED BY <1>1, <1>2, <2>1, NumbersNext DEF Done, NumbersInv
<1>3. CASE Resurrect /\ handler' # Done
  <2>1. PICK c : handler' = [handler EXCEPT !.at = "revive", !.cr = c]
    BY <1>3 DEF Resurrect
  <2>2. NumbersKept
    BY <1>3, ChangedNumbers DEF Resurrect
  <2>3. /\ handler'.at = "revive" /\ handler'.pc = handler.pc
        /\ handler'.source = handler.source
    BY <1>1, <2>1 DEF HandlerT
  <2>4. handler'.cr \in 1..Len(cr') /\ UNCHANGED pc
    BY <1>3, <2>3 DEF MembershipInv, HandlerPointers, Resurrect
  <2>5. HandlerNumbers'
    BY <1>1, <2>2, <2>3, <2>4 DEF NumbersKept, NumbersInv, HandlerNumbers
  <2> QED BY <1>1, <2>2, <2>5, NumbersNext DEF NumbersInv
<1>4. CASE Revive /\ Create(handler.cr, pc, "new")
  <2>1. NumbersKept
    BY <1>1, <1>4, PcAlike, CreateNumbers
  <2> QED BY <1>1, <1>4, <2>1, NumbersNext DEF Revive, Done, NumbersInv
<1> QED BY <1>2, <1>3, <1>4 DEF Resurrect, Revive

(* A user that is closed gets a goroutine that has copied nothing yet.     *)
LEMMA CloseUsersNumbers ==
  ASSUME MembershipInv, NumbersInv, NEW U, CloseUsers(U)
  PROVE  /\ Len(user') = Len(user)
         /\ \A u \in 1..Len(user) : closer'[u].others \subseteq 1..Len(user)
<1>1. Len(user') = Len(user)
  BY CloseUsersShape DEF MembershipInv
<1>2. ASSUME NEW u \in 1..Len(user) PROVE closer'[u].others \subseteq 1..Len(user)
  <2>1. u \in DOMAIN closer
    BY LenProperties DEF MembershipInv, Shape
  <2>2. closer'[u].others = {} \/ closer'[u] = closer[u]
    BY <2>1 DEF CloseUsers
  <2> QED BY <2>2 DEF NumbersInv
<1> QED BY <1>1, <1>2

LEMMA StopNumbers ==
  ASSUME MembershipAssumption, MembershipInv, NumbersInv,
         (\E i \in Users : Hangup(i)) \/ Stop \/ StopDone
  PROVE  NumbersInv'
<1>1. ASSUME NEW U, CloseUsers(U), UNCHANGED <<cr, pc>>, handler' \in {handler, Idle, Ended},
             stop' \in {stop, "users"}
      PROVE  NumbersInv'
  <2>1. NumbersKept
    BY <1>1, ChangedNumbers
  <2> QED BY <1>1, <2>1, CloseUsersNumbers, NumbersNext DEF NumbersInv
<1>2. ASSUME NEW i \in Users, Hangup(i) PROVE NumbersInv'
  BY <1>1, <1>2 DEF Hangup
<1>3. CASE Stop
  BY <1>1, <1>3 DEF Stop
<1>4. CASE StopDone
  <2>1. Len(pc') = Len(pc)
    <3>1. DOMAIN pc' = DOMAIN pc /\ DOMAIN pc = 1..Len(pc) /\ Len(pc) \in Nat
      BY <1>4, Pointers DEF StopDone
    <3>2. \A p \in 1..Len(pc) : pc'[p] \in PeerConnectionT
      BY <1>4, Pointers DEF StopDone, PeerConnectionT
    <3>3. pc' \in [1..Len(pc) -> PeerConnectionT]
      BY <1>4, <3>1, <3>2 DEF StopDone
    <3> QED BY <3>1, <3>3, FunctionSeq
  <2>2. NumbersKept
    BY <1>4, <2>1, ChangedNumbers DEF StopDone
  <2> QED BY <1>4, <2>2, NumbersNext DEF StopDone
<1> QED BY <1>2, <1>3, <1>4

LEMMA PeerConnectionNumbers ==
  ASSUME MembershipAssumption, MembershipInv, DisconnectInv, NumbersInv,
         NEW p \in DOMAIN pc, Fail(p) \/ Watch(p) \/ Destroy(p)
  PROVE  NumbersInv'
<1>1. CASE Fail(p) \/ Watch(p)
  <2>1. Len(pc') = Len(pc)
    <3>1. CASE Fail(p)
      BY <3>1, TouchedAlike DEF Fail, Alike
    <3>2. CASE Watch(p)
      BY <3>2, PcAlike, CloseNumbers DEF Watch
    <3> QED BY <1>1, <3>1, <3>2
  <2>2. NumbersKept
    BY <1>1, <2>1, ChangedNumbers DEF Fail, Watch
  <2> QED BY <1>1, <2>2, NumbersNext DEF Fail, Watch, NumbersInv
<1>2. CASE Destroy(p)
  <2> DEFINE k == [pc EXCEPT ![p].destroys = FALSE]
             c == pc[p].cr
             u == cr[c].owner
  <2>1. Alike(k) /\ Len(k) = Len(pc)
    BY TouchedAlike DEF Alike
  <2> HIDE DEF k
  <2>2. Len(Close(k, cr[c].pc)) = Len(pc)
    BY <2>1, CloseNumbers
  <2>3. UNCHANGED <<handler, stop>>
    BY <1>2 DEF Destroy
  <2>4. CASE pc' = k /\ UNCHANGED <<members, user, cr, closer>>
    <3>1. NumbersKept
      BY <2>1, <2>4, ChangedNumbers
    <3> QED BY <2>3, <2>4, <3>1, NumbersNext DEF NumbersInv
  <2>5. CASE /\ pc' = Close(k, cr[c].pc) /\ cr' = Emptied(c)
             /\ UNCHANGED <<user, closer>> \/ CloseUsers({u})
    <3>1. NumbersKept
      BY <2>2, <2>5, ResetNumbers
    <3> QED BY <2>3, <2>5, <3>1, CloseUsersNumbers, NumbersNext DEF NumbersInv
  <2> QED BY <1>2, <2>4, <2>5 DEF Destroy, k
<1> QED BY <1>1, <1>2

LEMMA CloserNumbers ==
  ASSUME MembershipAssumption, MembershipInv, MembershipInv', NumbersInv,
         NEW u \in DOMAIN user, Closer(u)
  PROVE  NumbersInv'
<1>1. /\ u \in 1..Len(user) /\ DOMAIN closer = 1..Len(user) /\ DOMAIN user = 1..Len(user)
      /\ \A v \in 1..Len(user) : closer[v] \in CloserT
      /\ \A v \in 1..Len(user) : closer[v].others \subseteq 1..Len(user)
  BY LenProperties, Pointers DEF MembershipInv, Shape, NumbersInv
<1>2. ASSUME NEW O \in SUBSET (1..Len(user)), NEW x,
             \/ closer' = [closer EXCEPT ![u].own = x]
             \/ closer' = [closer EXCEPT ![u].others = O]
             \/ closer' = [closer EXCEPT ![u].at = "others", ![u].others = O]
      PROVE  \A v \in 1..Len(user) : closer'[v].others \subseteq 1..Len(user)
  <2> SUFFICES ASSUME NEW v \in 1..Len(user) PROVE closer'[v].others \subseteq 1..Len(user)
    OBVIOUS
  <2>1. closer'[v].others \in {closer[v].others, O}
    <3>1. CASE closer' = [closer EXCEPT ![u].own = x]
      BY <1>1, <3>1 DEF CloserT
    <3>2. CASE closer' = [closer EXCEPT ![u].others = O]
      BY <1>1, <3>2 DEF CloserT
    <3>3. CASE closer' = [closer EXCEPT ![u].at = "others", ![u].others = O]
      BY <1>1, <3>3 DEF CloserT
    <3> QED BY <1>2, <3>1, <3>2, <3>3
  <2> QED BY <1>1, <2>1
<1>3. \A c : Reset(c) => NumbersKept
  BY PcAlike, CloseNumbers, ResetNumbers DEF Reset
<1>4. UNCHANGED <<cr, pc>> => NumbersKept
  BY ChangedNumbers
<1>5. CASE CloserOwn(u)
  <2>1. PICK t \in closer[u].own :
          LET c == IF t = Pipeline THEN user[u].default ELSE user[u].links[t] IN
          /\ IF c = Nil THEN UNCHANGED <<cr, pc>> ELSE Reset(c)
          /\ closer' = [closer EXCEPT ![u].own = closer[u].own \ {t}]
    BY <1>5 DEF CloserOwn
  <2>2. NumbersKept
    BY <1>3, <1>4, <2>1
  <2>3. \A v \in 1..Len(user) : closer'[v].others \subseteq 1..Len(user)
    BY <1>2, <2>1
  <2> QED BY <1>5, <2>2, <2>3, NumbersNext DEF CloserOwn, NumbersInv
<1>6. CASE CloserCopies(u)
  <2> DEFINE O == {v \in MemberRecords : user[v].id # user[u].id}
  <2>1. O \in SUBSET (1..Len(user))
    BY DEF MemberRecords, MembershipInv, MembersListed
  <2>2. closer' = [closer EXCEPT ![u].at = "others", ![u].others = O]
    BY <1>6 DEF CloserCopies
  <2> HIDE DEF O
  <2>3. \A v \in 1..Len(user) : closer'[v].others \subseteq 1..Len(user)
    BY <1>2, <2>1, <2>2
  <2> QED BY <1>4, <1>6, <2>3, NumbersNext DEF CloserCopies, NumbersInv
<1>7. CASE CloserOther(u)
  <2> DEFINE c(v) == user[v].links[user[u].id]
  <2>1. PICK v \in closer[u].others :
          /\ closer' = [closer EXCEPT ![u].others = closer[u].others \ {v}]
          /\ \/ /\ user' = [user EXCEPT ![v].links[user[u].id] = Nil]
                /\ Reset(c(v))
             \/ UNCHANGED <<user, cr, pc>>
    BY <1>7 DEF CloserOther
  <2>2. closer[u].others \ {v} \in SUBSET (1..Len(user))
    BY <1>1
  <2>3. \A w \in 1..Len(user) : closer'[w].others \subseteq 1..Len(user)
    BY <1>2, <2>1, <2>2
  <2>4. NumbersKept
    BY <1>3, <1>4, <2>1
  <2>5. Len(user') = Len(user)
    <3>1. DOMAIN user' = DOMAIN user
      BY <2>1
    <3>2. DOMAIN user' = 1..Len(user') /\ Len(user') \in Nat /\ Len(user) \in Nat
      BY LenProperties DEF MembershipInv, Shape
    <3> QED BY <1>1, <3>1, <3>2
  <2> QED BY <1>7, <2>3, <2>4, <2>5, NumbersNext DEF CloserOther, NumbersInv
<1> QED BY <1>5, <1>6, <1>7 DEF Closer

LEMMA NumbersStep ==
  ASSUME MembershipAssumption, MembershipInv, DisconnectInv, PcOwn, NumbersInv, [Next]_vars
  PROVE  NumbersInv'
<1>1. MembershipInv'
  BY MembershipStep
<1>2. CASE UNCHANGED vars
  BY <1>2 DEF vars, NumbersInv, HandlerNumbers
<1>3. CASE FindSource \/ Handle
  BY <1>1, <1>3, FindSourceNumbers, FindRecordNumbers, HandleRecordNumbers, SDPNumbers,
     ReviveNumbers DEF Handle
<1>4. CASE (\E i \in Users : Hangup(i)) \/ Stop \/ StopDone
  BY <1>4, StopNumbers
<1>5. ASSUME NEW u \in DOMAIN user, Deliver(u) PROVE NumbersInv'
  <2>1. PICK c : cr' = [cr EXCEPT ![c].bound = u]
    BY <1>5 DEF Deliver
  <2>2. u \in 0..Len(user) /\ cr' \in Changed(cr, c, 0, u)
    BY <2>1, Pointers DEF Changed
  <2>3. NumbersKept
    BY <1>5, <2>2, ChangedNumbers DEF Deliver
  <2> QED BY <1>5, <2>3, NumbersNext DEF Deliver, NumbersInv
<1>6. ASSUME NEW u \in DOMAIN user, Closer(u) PROVE NumbersInv'
  BY <1>1, <1>6, CloserNumbers
<1>7. CASE \E p \in DOMAIN pc : Fail(p) \/ Watch(p) \/ Destroy(p)
  BY <1>7, PeerConnectionNumbers
<1> QED BY <1>2, <1>3, <1>4, <1>5, <1>6, <1>7 DEF Next

(* Every record, peer connection, goroutine and message refers to records  *)
(* and peer connections that exist (handleWebRTCSignalMessage, channel.go, *)
(* destroy, connectionrecord.go, and close, userrecord.go): however often  *)
(* users come and go, none follows a pointer to what was never made.       *)
THEOREM MembershipTypes == Spec => []TypeOK
<1>1. Init => NumbersInv
  BY MembershipAssumption DEF Init, NumbersInv, HandlerNumbers, Idle, Nil, MembershipAssumption
<1>2. MembershipInv /\ DisconnectInv /\ PcOwn /\ NumbersInv /\ [Next]_vars => NumbersInv'
  BY MembershipAssumption, NumbersStep
<1>3. MembershipInv /\ PcOwn /\ NumbersInv => TypeOK
  BY NumbersType
<1> QED BY <1>1, <1>2, <1>3, StopInvariant, PTL DEF Spec
=============================================================================
