------------------------------ MODULE P2PProof ------------------------------
(***************************************************************************)
(* Proofs about P2P: the types, that a target whose connection has no data *)
(* channel yet has all streams pending, and that a target on an open data  *)
(* channel was told of the streams and has the callbacks for them.         *)
(*                                                                         *)
(* Quiet(t), under which the two properties are stated, says that nobody   *)
(* is about to announce to t.  The inductive invariant says what holds     *)
(* while somebody is: what is not yet so, an announcer will do, and the    *)
(* places it may be at until then are enumerated by HandlerWill and        *)
(* WorkerWill.                                                             *)
(***************************************************************************)
EXTENDS P2P, FiniteSets, FiniteSetTheorems, SequenceTheorems, TLAPS

StreamRecord == [kind : Kinds, token : Tokens, linked : BOOLEAN]

Connected == [known : BOOLEAN, pc : {0} \cup Conns, made : {0} \cup Conns,
              open : {0} \cup Conns]

Announcing ==
  [at : {"idle", "check", "pend", "register"}, on : Targets \cup {None},
   todo : SUBSET DOMAIN rec, stream : DOMAIN rec \cup {None}, announce : SUBSET Tokens]

(* The streams of the source, and those that an announcer has yet to look  *)
(* at or is at.                                                            *)
Live == Range(ctl[Source].streams)

AtStream(a) == announcer[a].at \in {"pend", "register"}

(* The values of the connections and controllers.                          *)
CtlType ==
  /\ conn \in [Users -> Connected]
  /\ ctl \in [Users -> Controller]
  /\ \A c \in Users : \A f \in {ctl[c].streams, ctl[c].pending} : \A id \in DOMAIN f :
       f[id] \in DOMAIN rec /\ f[id][2] = id
  /\ \A t \in Targets : \A k \in DOMAIN ctl[t].callbacks :
       ctl[t].callbacks[k].source \in DOMAIN rec \cup {None}

(* Those of the stream records and of the source's messages.               *)
RecType ==
  /\ DOMAIN rec \subseteq Records
  /\ \A r \in DOMAIN rec : rec[r] \in StreamRecord /\ r[1] <= lists
  /\ heard \in 0..MaxMessages /\ lists \in Nat
  /\ checked \subseteq Conns
  /\ IsFiniteSet(checked) /\ lists + Cardinality(checked) <= heard

(* And those of the announcers.                                            *)
AnnounceType ==
  /\ handler \in [at : {"idle", "run"}, added : SUBSET DOMAIN rec, targets : SUBSET Targets]
  /\ worker \in [at : {"idle", "wait", "run"}, on : Targets \cup {None},
                 streams : SUBSET DOMAIN rec]
  /\ announcer \in [Announcers -> Announcing]
  /\ binds \in [Targets -> SUBSET [dataChannel : Conns, added : SUBSET DOMAIN rec]]
  /\ receiverCh \in Seq(Targets)
  /\ told \in [Targets -> SUBSET Tokens]
  /\ since \in [Targets -> 0..MaxMessages]

Types == CtlType /\ RecType /\ AnnounceType

(* A data channel is open only while it is that of the controller and of   *)
(* the peer connection.                                                    *)
ConnInv ==
  \A c \in Users :
    /\ conn[c].open \in {0, conn[c].pc}
    /\ conn[c].open # 0 => ctl[c].dataChannel = conn[c].open
    /\ conn[c].pc # 0 => conn[c].known

(* An announcer that does nothing has nothing left, and one that does is   *)
(* at a target and at a stream record.                                     *)
AnnouncerInv ==
  \A a \in Announcers :
    /\ announcer[a].at = "idle" => announcer[a] = Idle
    /\ announcer[a].at # "idle" => announcer[a].on \in Targets
    /\ AtStream(a) => announcer[a].stream \in DOMAIN rec

(* The source's p2p lock: the streams stay while the handler or the worker *)
(* announces them.                                                         *)
HandlerInv ==
  /\ handler.at = "idle" => announcer[Handler] = Idle
  /\ handler.at = "run" =>
       /\ worker.at # "run"
       /\ handler.added \subseteq Live
       /\ announcer[Handler].todo \subseteq Live
       /\ AtStream(Handler) => announcer[Handler].stream \in Live

WorkerInv ==
  /\ worker.at # "idle" => worker.on \in Targets
  /\ worker.at # "run" => announcer[Worker] = Idle
  /\ worker.at = "run" =>
       /\ worker.streams \subseteq Live
       /\ announcer[Worker].todo \subseteq Live
       /\ AtStream(Worker) => announcer[Worker].stream \in Live
       /\ announcer[Worker].at # "idle" => announcer[Worker].on = worker.on

(* The target's p2p lock: its controller keeps its data channel while a    *)
(* goroutine of bind announces, which has nothing to wait for then.        *)
BindInv ==
  \A t \in Targets :
    announcer[t].at # "idle" =>
      /\ announcer[t].on = t
      /\ ctl[t].dataChannel # 0
      /\ announcer[t].at # "pend"

(* Once the worker has seen a data channel, its target has one until that  *)
(* is reset; the target's record is locked, so there is no new connection. *)
WorkerSaw ==
  worker.at = "run" /\ (announcer[Worker].at = "register" \/ announcer[Worker].announce # {}) =>
    ctl[worker.on].dataChannel # 0 \/ conn[worker.on].pc = 0

Roles == ConnInv /\ AnnouncerInv /\ HandlerInv /\ WorkerInv /\ BindInv /\ WorkerSaw

-----------------------------------------------------------------------------
(* Somebody is about to announce stream s to t, and is not past the check  *)
(* of the data channel or has it and is about to do what at says.          *)
Doing(a, t, s, at) ==
  /\ announcer[a].on = t
  /\ s \in announcer[a].todo \/ (announcer[a].at = at /\ announcer[a].stream = s)

HandlerWill(t, s, at) ==
  \/ handler.at = "run" /\ s \in handler.added /\ t \in handler.targets
  \/ Doing(Handler, t, s, at)

(* The worker announces all streams to t.                                  *)
WorkerComes(t) == t \in Range(receiverCh) \/ (worker.at = "wait" /\ worker.on = t)

WorkerWill(t, s, at) ==
  \/ WorkerComes(t)
  \/ worker.at = "run" /\ worker.on = t /\ (s \in worker.streams \/ Doing(Worker, t, s, at))

PendedIn(k, s) == s[2] \in DOMAIN k.pending /\ k.pending[s[2]] = s

Pended(t, s) == PendedIn(ctl[t], s)

PendInv ==
  \A t \in Targets :
    conn[t].pc # 0 /\ ctl[t].dataChannel = 0 =>
      \A s \in Live : Pended(t, s) \/ HandlerWill(t, s, "pend") \/ WorkerWill(t, s, "pend")

(* A token that is to be announced has its callback, unless the target has *)
(* been reset: then it has no connection, or the worker comes for the new  *)
(* one, which waits for the handler but has no new one while it announces. *)
AnnounceInv ==
  \A a \in Announcers : \A t \in Targets :
    announcer[a].at # "idle" /\ announcer[a].on = t =>
      \/ announcer[a].announce \subseteq DOMAIN ctl[t].callbacks
      \/ a \in {Handler, Worker} /\ conn[t].pc = 0
      \/ a = Handler /\ WorkerComes(t)

(* The callback of a token is there or is going to be.                     *)
Registered(t, s) == rec[s].token \in DOMAIN ctl[t].callbacks

RegisterInv ==
  \A t \in Targets : \A s \in Live :
    CanSend(t) /\ rec[s].linked =>
      /\ rec[s].token \in told[t] =>
           Registered(t, s) \/ HandlerWill(t, s, "register") \/ WorkerWill(t, s, "register")
      /\ s[1] > since[t] => Registered(t, s) \/ HandlerWill(t, s, "register")

(* What was registered for a stream was announced, or is about to be.      *)
ToldInv ==
  \A t \in Targets : \A s \in Live :
    /\ CanSend(t) /\ rec[s].linked /\ s[1] > since[t]
    /\ Registered(t, s) /\ ctl[t].callbacks[rec[s].token].source = s
    => \/ rec[s].token \in told[t]
       \/ \E a \in Announcers :
            announcer[a].on = t /\ rec[s].token \in announcer[a].announce

Inv == Types /\ Roles /\ PendInv /\ AnnounceInv /\ RegisterInv /\ ToldInv

-----------------------------------------------------------------------------
(* Facts about the operators. *)

LEMMA PartialDef ==
  ASSUME NEW S, NEW T, NEW f
  PROVE  f \in PartialFunctions(S, T) <=> DOMAIN f \subseteq S /\ f \in [DOMAIN f -> T]
<1>1. f \in PartialFunctions(S, T) => DOMAIN f \subseteq S /\ f \in [DOMAIN f -> T]
  <2>1. SUFFICES ASSUME NEW D \in SUBSET S, f \in [D -> T]
                 PROVE  DOMAIN f \subseteq S /\ f \in [DOMAIN f -> T]
    BY DEF PartialFunctions
  <2> QED BY <2>1
<1>2. DOMAIN f \subseteq S /\ f \in [DOMAIN f -> T] => f \in PartialFunctions(S, T)
  BY DEF PartialFunctions
<1> QED BY <1>1, <1>2

LEMMA InRange ==
  ASSUME NEW f, NEW x
  PROVE  x \in Range(f) <=> \E i \in DOMAIN f : f[i] = x
BY DEF Range

LEMMA EmptyPartial ==
  ASSUME NEW S, NEW T
  PROVE  /\ <<>> \in PartialFunctions(S, T)
         /\ DOMAIN <<>> = {}
         /\ Range(<<>>) = {}
<1>1. <<>> \in Seq({}) /\ Len(<<>>) = 0
  OBVIOUS
<1>2. DOMAIN <<>> = 1..0 /\ 1..0 = {}
  BY <1>1
<1>3. <<>> = [i \in {} |-> i]
  BY <1>2
<1>4. <<>> \in [{} -> T]
  BY <1>3
<1> QED BY <1>2, <1>4, PartialDef, InRange

LEMMA FillDef ==
  ASSUME NEW f, NEW g
  PROVE  /\ DOMAIN Fill(f, g) = DOMAIN f \cup DOMAIN g
         /\ \A x \in DOMAIN f : Fill(f, g)[x] = f[x]
         /\ \A x \in DOMAIN g \ DOMAIN f : Fill(f, g)[x] = g[x]
BY DEF Fill

LEMMA FillPartial ==
  ASSUME NEW S, NEW T, NEW f \in PartialFunctions(S, T), NEW g \in PartialFunctions(S, T)
  PROVE  Fill(f, g) \in PartialFunctions(S, T)
<1>1. /\ DOMAIN f \subseteq S /\ \A x \in DOMAIN f : f[x] \in T
      /\ DOMAIN g \subseteq S /\ \A x \in DOMAIN g : g[x] \in T
  BY PartialDef
<1>2. Fill(f, g) = [x \in DOMAIN Fill(f, g) |-> Fill(f, g)[x]]
  BY DEF Fill
<1>3. \A x \in DOMAIN Fill(f, g) : Fill(f, g)[x] \in T
  BY <1>1 DEF Fill
<1>4. Fill(f, g) \in [DOMAIN Fill(f, g) -> T]
  BY <1>2, <1>3
<1> QED BY <1>1, <1>4, FillDef, PartialDef

LEMMA SinglePartial ==
  ASSUME NEW S, NEW T, NEW i \in S, NEW v \in T
  PROVE  [x \in {i} |-> v] \in PartialFunctions(S, T)
BY PartialDef

LEMMA RangeAppend ==
  ASSUME NEW S, NEW q \in Seq(S), NEW x \in S
  PROVE  Append(q, x) \in Seq(S) /\ Range(Append(q, x)) = Range(q) \cup {x}
<1>1. /\ Append(q, x) \in Seq(S) /\ Len(q) \in Nat /\ Len(Append(q, x)) = Len(q) + 1
      /\ DOMAIN q = 1..Len(q) /\ DOMAIN Append(q, x) = 1..(Len(q) + 1)
      /\ \A i \in 1..Len(q) : Append(q, x)[i] = q[i]
      /\ Append(q, x)[Len(q) + 1] = x
  OBVIOUS
<1>2. ASSUME NEW y \in Range(q) PROVE y \in Range(Append(q, x))
  <2>1. PICK i \in DOMAIN q : q[i] = y
    BY <1>2, InRange
  <2>2. i \in DOMAIN Append(q, x) /\ Append(q, x)[i] = y
    BY <1>1, <2>1
  <2> QED BY <2>2, InRange
<1>3. ASSUME NEW y \in Range(Append(q, x)), y # x PROVE y \in Range(q)
  <2>1. PICK i \in DOMAIN Append(q, x) : Append(q, x)[i] = y
    BY <1>3, InRange
  <2>2. i \in DOMAIN q /\ q[i] = y
    BY <1>1, <1>3, <2>1
  <2> QED BY <2>2, InRange
<1>4. x \in Range(Append(q, x))
  <2>1. Len(q) + 1 \in DOMAIN Append(q, x) /\ Append(q, x)[Len(q) + 1] = x
    BY <1>1
  <2> QED BY <2>1, InRange
<1> QED BY <1>1, <1>2, <1>3, <1>4

LEMMA RangeTail ==
  ASSUME NEW S, NEW q \in Seq(S), q # <<>>
  PROVE  /\ Head(q) \in S /\ Tail(q) \in Seq(S)
         /\ Range(q) = Range(Tail(q)) \cup {Head(q)}
<1>1. Head(q) \in S /\ Tail(q) \in Seq(S) /\ Len(q) \in Nat \ {0} /\ Head(q) = q[1]
      /\ Len(Tail(q)) = Len(q) - 1 /\ DOMAIN q = 1..Len(q) /\ DOMAIN Tail(q) = 1..Len(Tail(q))
      /\ \A i \in 1..Len(Tail(q)) : Tail(q)[i] = q[i + 1]
  OBVIOUS
<1>2. ASSUME NEW x \in Range(q), x # Head(q) PROVE x \in Range(Tail(q))
  <2>1. PICK i \in DOMAIN q : q[i] = x
    BY <1>2, InRange
  <2>2. i - 1 \in DOMAIN Tail(q) /\ Tail(q)[i - 1] = x
    BY <1>1, <1>2, <2>1
  <2> QED BY <2>2, InRange
<1>3. ASSUME NEW x \in Range(Tail(q)) PROVE x \in Range(q)
  <2>1. PICK i \in DOMAIN Tail(q) : Tail(q)[i] = x
    BY <1>3, InRange
  <2>2. i + 1 \in DOMAIN q /\ q[i + 1] = x
    BY <1>1, <2>1
  <2> QED BY <2>2, InRange
<1>4. Head(q) \in Range(q)
  <2>1. 1 \in DOMAIN q /\ q[1] = Head(q)
    BY <1>1
  <2> QED BY <2>1, InRange
<1> QED BY <1>2, <1>3, <1>4

LEMMA ConnNumbers ==
  /\ Conns \subseteq Nat \ {0}
  /\ \A c \in Users : \A n \in Nat : n + 1 <= MaxConns[c] => n + 1 \in Conns
<1>1. ASSUME NEW c \in Users PROVE MaxConns[c] \in Nat
  BY P2PAssumption
<1>2. Conns \subseteq Nat \ {0}
  <2>1. SUFFICES ASSUME NEW n \in Conns PROVE n \in Nat \ {0}
    OBVIOUS
  <2>2. PICK c \in Users : n \in 1..MaxConns[c]
    BY DEF Conns
  <2> QED BY <1>1, <2>2
<1>3. ASSUME NEW c \in Users, NEW n \in Nat, n + 1 <= MaxConns[c] PROVE n + 1 \in Conns
  <2>1. n + 1 \in 1..MaxConns[c]
    BY <1>1, <1>3
  <2> QED BY <2>1 DEF Conns
<1> QED BY <1>2, <1>3

LEMMA NewControllerType == NewController \in Controller
BY EmptyPartial DEF NewController, Controller

-----------------------------------------------------------------------------
(* The types. *)

(* One connection and one controller of the right types.                   *)
CtlOK(c, k) ==
  /\ k \in Controller
  /\ \A f \in {k.streams, k.pending} : \A id \in DOMAIN f : f[id] \in DOMAIN rec /\ f[id][2] = id
  /\ c \in Targets => \A x \in DOMAIN k.callbacks : k.callbacks[x].source \in DOMAIN rec \cup {None}

LEMMA CtlTypeDef ==
  CtlType <=> /\ conn \in [Users -> Connected]
              /\ ctl \in [Users -> Controller]
              /\ \A c \in Users : CtlOK(c, ctl[c])
BY DEF CtlType, CtlOK, Users

LEMMA CtlTypeStep ==
  ASSUME CtlType, NEW c \in Users, NEW k, CtlOK(c, k),
         ctl' = [ctl EXCEPT ![c] = k],
         conn' \in [Users -> Connected], UNCHANGED rec
  PROVE  CtlType'
<1>1. ctl' \in [Users -> Controller]
  BY CtlTypeDef DEF CtlOK
<1>2. ASSUME NEW d \in Users PROVE CtlOK(d, ctl'[d])
  BY CtlTypeDef
<1>3. ASSUME NEW d \in Users PROVE CtlOK(d, ctl[d])'
  BY <1>2 DEF CtlOK
<1> QED BY <1>1, <1>3, CtlTypeDef DEF CtlType, CtlOK, Users

(* A change of the connections alone.                                      *)
LEMMA ConnTypeStep ==
  ASSUME CtlType, conn' \in [Users -> Connected], UNCHANGED <<ctl, rec>>
  PROVE  CtlType'
BY DEF CtlType

(* Of the announcers, one at a time.                                       *)
LEMMA AnnouncerTypeStep ==
  ASSUME AnnounceType, NEW a \in Announcers, NEW v \in Announcing,
         announcer' = [announcer EXCEPT ![a] = v],
         UNCHANGED <<rec, handler, binds, receiverCh>>,
         worker' = worker \/ worker' = WorkerIdle,
         told' \in [Targets -> SUBSET Tokens], since' = since
  PROVE  AnnounceType'
<1>1. announcer' \in [Announcers -> Announcing]
  BY DEF AnnounceType
<1>2. Announcing' = Announcing
  BY DEF Announcing
<1>3. WorkerIdle \in [at : {"idle", "wait", "run"}, on : Targets \cup {None},
                      streams : SUBSET DOMAIN rec]
  BY DEF WorkerIdle
<1> QED BY <1>1, <1>2, <1>3 DEF AnnounceType

LEMMA IdleType == Idle \in Announcing
BY DEF Idle, Announcing

LEMMA StartType ==
  ASSUME NEW t \in Targets, NEW S \in SUBSET DOMAIN rec
  PROVE  AnnounceStreams(t, S) \in Announcing
BY DEF AnnounceStreams, Announcing

LEMMA MemberUsers ==
  /\ \A t \in Targets : t \in Users /\ t \in Announcers /\ t # Source /\ t # Handler /\ t # Worker
  /\ Source \in Users /\ Handler \in Announcers /\ Worker \in Announcers /\ Handler # Worker
BY P2PAssumption DEF Users, Announcers

LEMMA InitTypes == Init => Types
<1> SUFFICES ASSUME Init PROVE Types
  OBVIOUS
<1>1. CtlType
  <2>1. conn \in [Users -> Connected]
    BY DEF Init, Connected
  <2>2. ctl \in [Users -> Controller]
    BY NewControllerType DEF Init
  <2>3. ASSUME NEW c \in Users PROVE CtlOK(c, ctl[c])
    BY <2>2, EmptyPartial DEF Init, NewController, CtlOK
  <2> QED BY <2>1, <2>2, <2>3, CtlTypeDef
<1>2. RecType
  <2>1. DOMAIN rec = {}
    BY EmptyPartial DEF Init
  <2>2. IsFiniteSet(checked) /\ Cardinality(checked) = 0
    BY FS_EmptySet DEF Init
  <2> QED BY <2>1, <2>2, P2PAssumption DEF Init, RecType
<1>3. AnnounceType
  <2>1. announcer \in [Announcers -> Announcing]
    BY IdleType DEF Init
  <2>2. <<>> \in Seq(Targets)
    OBVIOUS
  <2> QED BY <2>1, <2>2, P2PAssumption DEF Init, AnnounceType, HandlerIdle, WorkerIdle
<1> QED BY <1>1, <1>2, <1>3 DEF Types

LEMMA BindTypes ==
  ASSUME Types, NEW c \in Users, NEW n \in Conns, Bind(c, n),
         conn' \in [Users -> Connected], UNCHANGED rec
  PROVE  /\ CtlType'
         /\ binds' \in [Targets -> SUBSET [dataChannel : Conns, added : SUBSET DOMAIN rec]]
<1> DEFINE k == [ctl[c] EXCEPT !.dataChannel = n, !.pending = <<>>]
           b == [dataChannel |-> n, added |-> Range(ctl[c].pending)]
<1>1. ctl[c] \in Controller /\ CtlOK(c, ctl[c])
  BY CtlTypeDef DEF Types
<1>2. <<>> \in PartialFunctions(Ids, Records)
  BY EmptyPartial
<1>3. k \in Controller
  BY <1>1, <1>2 DEF Controller
<1>4. CtlOK(c, k)
  <2>1. k.streams = ctl[c].streams /\ k.pending = <<>> /\ k.callbacks = ctl[c].callbacks
    BY <1>1 DEF Controller
  <2> HIDE DEF k
  <2> QED BY <1>1, <1>3, <2>1, EmptyPartial DEF CtlOK
<1>5. ctl' = [ctl EXCEPT ![c] = k]
  BY <1>1 DEF Bind
<1>6. CtlType'
  <2> HIDE DEF k
  <2> QED BY <1>4, <1>5, CtlTypeStep DEF Types
<1>7. b \in [dataChannel : Conns, added : SUBSET DOMAIN rec]
  BY <1>1, InRange DEF CtlOK
<1>8. binds' = binds \/ binds' = [binds EXCEPT ![c] = @ \cup {b}]
  BY DEF Bind
<1> HIDE DEF b
<1> QED BY <1>6, <1>7, <1>8 DEF Types, AnnounceType

LEMMA ConnectionTypes ==
  ASSUME Types, NEW c \in Users, Connection(c)
  PROVE  Types'
<1>t. /\ conn \in [Users -> Connected] /\ ctl[c] \in Controller
      /\ conn[c].pc \in {0} \cup Conns /\ conn[c].made \in Nat
  <2>1. CtlType
    BY DEF Types
  <2>2. conn[c] \in Connected
    BY <2>1, CtlTypeDef
  <2>3. ctl[c] \in Controller /\ conn \in [Users -> Connected]
    BY <2>1, CtlTypeDef
  <2>4. conn[c].pc \in {0} \cup Conns /\ conn[c].made \in {0} \cup Conns
    BY <2>2 DEF Connected
  <2>5. conn[c].made \in Nat
    <3>1. \A n \in {0} \cup Conns : n \in Nat
      BY ConnNumbers
    <3> QED BY <2>4, <3>1
  <2> QED BY <2>3, <2>4, <2>5
<1>1. CASE Connect(c)
  <2>1. conn[c].made + 1 \in Conns
    BY <1>t, <1>1, ConnNumbers DEF Connect
  <2>2. conn' \in [Users -> Connected]
    BY <1>t, <1>1, <2>1 DEF Connect, Connected
  <2>3. /\ CtlType'
        /\ binds' \in [Targets -> SUBSET [dataChannel : Conns, added : SUBSET DOMAIN rec]]
    <3>1. CASE Bind(c, conn[c].made + 1)
      BY <1>1, <2>1, <2>2, <3>1, BindTypes DEF Connect, sourceVars
    <3>2. CASE UNCHANGED <<ctl, binds>>
      BY <1>1, <2>2, <3>2, ConnTypeStep DEF Connect, sourceVars, Types, AnnounceType
    <3> QED BY <1>1, <3>1, <3>2 DEF Connect
  <2>4. receiverCh' \in Seq(Targets)
    BY <1>1, RangeAppend DEF Connect, Types, AnnounceType, Users
  <2> QED BY <1>1, <2>3, <2>4 DEF Connect, Types, RecType, AnnounceType, Announcing,
                                  sourceVars, announceVars, historyVars
<1>2. CASE OnDataChannel(c)
  <2>1. /\ CtlType'
        /\ binds' \in [Targets -> SUBSET [dataChannel : Conns, added : SUBSET DOMAIN rec]]
    BY <1>t, <1>2, BindTypes DEF OnDataChannel, sourceVars
  <2> QED BY <1>2, <2>1 DEF OnDataChannel, Types, RecType, AnnounceType, Announcing,
                            sourceVars, announceVars, historyVars
<1>3. CASE Opens(c)
  <2>1. conn' \in [Users -> Connected]
    BY <1>t, <1>3 DEF Opens, Connected
  <2>2. CtlType'
    BY <1>3, <2>1, ConnTypeStep DEF Opens, Types, sourceVars
  <2>3. told' \in [Targets -> SUBSET Tokens] /\ since' \in [Targets -> 0..MaxMessages]
    <3>1. lists \in 0..MaxMessages
      BY FS_CardinalityType, P2PAssumption DEF Types, RecType
    <3> QED BY <1>3, <3>1 DEF Opens, Types, AnnounceType, historyVars
  <2> QED BY <1>3, <2>2, <2>3 DEF Opens, Types, RecType, AnnounceType, Announcing,
                                  sourceVars, announceVars
<1>4. CASE Clear(c)
  <2>1. conn' \in [Users -> Connected]
    BY <1>t, <1>4 DEF Clear, Connected
  <2>2. CtlType'
    BY <1>4, <2>1, ConnTypeStep DEF Clear, Types, sourceVars
  <2> QED BY <1>4, <2>2 DEF Clear, Types, RecType, AnnounceType, Announcing,
                            sourceVars, announceVars, historyVars
<1>5. CASE Reset(c)
  <2>1. conn' \in [Users -> Connected]
    BY <1>t, <1>5 DEF Reset, Connected
  <2>2. CtlOK(c, NewController)
    BY NewControllerType, EmptyPartial DEF CtlOK, NewController
  <2>3. CtlType'
    BY <1>5, <2>1, <2>2, CtlTypeStep DEF Reset, Types, sourceVars
  <2> QED BY <1>5, <2>3 DEF Reset, Types, RecType, AnnounceType, Announcing,
                            sourceVars, announceVars, historyVars
<1> QED BY <1>1, <1>2, <1>3, <1>4, <1>5 DEF Connection

(* What an announcer is at. *)
LEMMA AnnouncerAt ==
  ASSUME Types, AnnouncerInv, NEW a \in Announcers, announcer[a].at # "idle"
  PROVE  /\ announcer[a] \in Announcing
         /\ announcer[a].on \in Targets
         /\ ctl[announcer[a].on] \in Controller
         /\ AtStream(a) => /\ announcer[a].stream \in DOMAIN rec
                           /\ announcer[a].stream \in Records
                           /\ announcer[a].stream[2] \in Ids
                           /\ rec[announcer[a].stream] \in StreamRecord
<1>1. announcer[a] \in Announcing /\ announcer[a].on \in Targets
      /\ (AtStream(a) => announcer[a].stream \in DOMAIN rec)
  BY DEF Types, AnnounceType, AnnouncerInv
<1>2. announcer[a].on \in Users
  BY <1>1, MemberUsers
<1> QED BY <1>1, <1>2 DEF Types, CtlType, RecType, Records

LEMMA AnnounceTypes ==
  ASSUME Types, AnnouncerInv, NEW a \in Announcers, Announce(a)
  PROVE  Types'
<1> DEFINE t == announcer[a].on
           s == announcer[a].stream
<1>i. announcer[a].at # "idle"
  BY DEF Announce, Check, Pend, Register, Send
<1>t. /\ announcer[a] \in Announcing /\ t \in Targets /\ t \in Users
      /\ ctl[t] \in Controller /\ CtlOK(t, ctl[t])
  BY <1>i, AnnouncerAt, MemberUsers, CtlTypeDef DEF Types
<1>1. CASE Check(a)
  <2>1. PICK x \in announcer[a].todo :
          announcer' = [announcer EXCEPT ![a] = [@ EXCEPT
            !.at = IF ctl[t].dataChannel = 0 THEN "pend" ELSE "register",
            !.todo = announcer[a].todo \ {x}, !.stream = x]]
    BY <1>1 DEF Check
  <2> DEFINE v == [announcer[a] EXCEPT
            !.at = IF ctl[t].dataChannel = 0 THEN "pend" ELSE "register",
            !.todo = announcer[a].todo \ {x}, !.stream = x]
  <2>2. v \in Announcing
    BY <1>t DEF Announcing
  <2>3. announcer' = [announcer EXCEPT ![a] = v]
    BY <2>1
  <2> HIDE DEF v
  <2>4. AnnounceType'
    BY <1>1, <2>2, <2>3, AnnouncerTypeStep DEF Check, sourceVars, historyVars, Types, AnnounceType
  <2> QED BY <1>1, <2>4 DEF Check, Types, CtlType, RecType, sourceVars
<1>2. CASE Pend(a)
  <2> DEFINE v == [announcer[a] EXCEPT !.at = "check", !.stream = None]
             p == [id \in {s[2]} |-> s]
             k == [ctl[t] EXCEPT !.pending = Fill(p, ctl[t].pending)]
  <2>s. s \in DOMAIN rec /\ s \in Records /\ s[2] \in Ids
    BY <1>i, <1>2, AnnouncerAt DEF Pend, AtStream
  <2>1. v \in Announcing
    BY <1>t DEF Announcing
  <2>2. announcer' = [announcer EXCEPT ![a] = v] /\ ctl' = [ctl EXCEPT ![t] = k]
    BY <1>2 DEF Pend
  <2>3. p \in PartialFunctions(Ids, Records) /\ DOMAIN p = {s[2]} /\ p[s[2]] = s
    BY <2>s, SinglePartial
  <2>4. /\ Fill(p, ctl[t].pending) \in PartialFunctions(Ids, Records)
        /\ DOMAIN Fill(p, ctl[t].pending) = {s[2]} \cup DOMAIN ctl[t].pending
        /\ Fill(p, ctl[t].pending)[s[2]] = s
        /\ \A id \in DOMAIN ctl[t].pending \ {s[2]} :
             Fill(p, ctl[t].pending)[id] = ctl[t].pending[id]
    <3> DEFINE old == ctl[t].pending
               id == s[2]
    <3>1. old \in PartialFunctions(Ids, Records)
      BY <1>t DEF Controller
    <3>2. p \in PartialFunctions(Ids, Records) /\ DOMAIN p = {id} /\ p[id] = s
      BY <2>3
    <3> HIDE DEF p, s, id, old
    <3>3. Fill(p, old) \in PartialFunctions(Ids, Records)
      BY <3>1, <3>2, FillPartial
    <3>4. /\ DOMAIN Fill(p, old) = {id} \cup DOMAIN old
          /\ Fill(p, old)[id] = s
          /\ \A i \in DOMAIN old \ {id} : Fill(p, old)[i] = old[i]
      <4>1. /\ DOMAIN Fill(p, old) = DOMAIN p \cup DOMAIN old
            /\ \A y \in DOMAIN p : Fill(p, old)[y] = p[y]
            /\ \A y \in DOMAIN old \ DOMAIN p : Fill(p, old)[y] = old[y]
        BY FillDef
      <4> QED BY <3>2, <4>1
    <3> QED BY <3>3, <3>4 DEF old, id
  <2> HIDE DEF p
  <2>5. k \in Controller /\ k.pending = Fill(p, ctl[t].pending)
        /\ k.streams = ctl[t].streams /\ k.callbacks = ctl[t].callbacks
    BY <1>t, <2>4 DEF Controller
  <2> HIDE DEF v, k
  <2>6. CtlOK(t, k)
    <3>1. ASSUME NEW id \in DOMAIN k.pending PROVE k.pending[id] \in DOMAIN rec /\ k.pending[id][2] = id
      <4>1. CASE id = s[2]
        BY <2>s, <2>4, <2>5, <4>1
      <4>2. CASE id # s[2]
        BY <1>t, <2>4, <2>5, <4>2 DEF CtlOK
      <4> QED BY <4>1, <4>2
    <3> QED BY <1>t, <2>5, <3>1 DEF CtlOK
  <2>7. CtlType'
    BY <1>t, <1>2, <2>2, <2>6, CtlTypeStep DEF Pend, sourceVars, Types, CtlType
  <2>8. AnnounceType'
    BY <1>2, <2>1, <2>2, AnnouncerTypeStep DEF Pend, sourceVars, historyVars, Types, AnnounceType
  <2> QED BY <1>2, <2>7, <2>8 DEF Pend, Types, RecType, sourceVars
<1>3. CASE Register(a)
  <2> DEFINE key == rec[s].token
             c == [dataChannel |-> ctl[t].dataChannel,
                   source |-> IF rec[s].linked THEN s ELSE None]
             p == [y \in {key} |-> c]
             k == [ctl[t] EXCEPT !.callbacks = Fill(ctl[t].callbacks, p)]
             v == [announcer[a] EXCEPT !.at = "check", !.stream = None,
                     !.announce = IF key \notin DOMAIN ctl[t].callbacks
                                THEN announcer[a].announce \cup {key} ELSE announcer[a].announce]
  <2>s. s \in DOMAIN rec /\ s \in Records /\ rec[s] \in StreamRecord
    BY <1>i, <1>3, AnnouncerAt DEF Register, AtStream
  <2>1. v \in Announcing
    BY <1>t, <2>s DEF Announcing, StreamRecord
  <2>2. announcer' = [announcer EXCEPT ![a] = v] /\ ctl' = [ctl EXCEPT ![t] = k]
    BY <1>3 DEF Register
  <2>3. p \in PartialFunctions(Tokens, P2PRecord) /\ DOMAIN p = {key} /\ p[key] = c
        /\ c.source \in DOMAIN rec \cup {None}
    <3>1. c \in P2PRecord /\ key \in Tokens /\ c.source \in DOMAIN rec \cup {None}
      BY <1>t, <2>s DEF P2PRecord, StreamRecord, Controller
    <3> HIDE DEF c, key
    <3> QED BY <3>1, SinglePartial
  <2>4. /\ Fill(ctl[t].callbacks, p) \in PartialFunctions(Tokens, P2PRecord)
        /\ DOMAIN Fill(ctl[t].callbacks, p) = {key} \cup DOMAIN ctl[t].callbacks
        /\ \A y \in DOMAIN ctl[t].callbacks : Fill(ctl[t].callbacks, p)[y] = ctl[t].callbacks[y]
        /\ key \notin DOMAIN ctl[t].callbacks => Fill(ctl[t].callbacks, p)[key] = c
    <3>1. ctl[t].callbacks \in PartialFunctions(Tokens, P2PRecord)
      BY <1>t DEF Controller
    <3> HIDE DEF p, c, key, t, s
    <3> DEFINE old == ctl[t].callbacks
    <3> HIDE DEF old
    <3>a. old \in PartialFunctions(Tokens, P2PRecord) /\ p \in PartialFunctions(Tokens, P2PRecord)
      BY <2>3, <3>1 DEF old
    <3>2. key \notin DOMAIN ctl[t].callbacks => key \in DOMAIN p \ DOMAIN ctl[t].callbacks
      BY <2>3
    <3>3. /\ Fill(old, p) \in PartialFunctions(Tokens, P2PRecord)
          /\ DOMAIN Fill(old, p) = DOMAIN old \cup DOMAIN p
          /\ \A y \in DOMAIN old : Fill(old, p)[y] = old[y]
          /\ \A y \in DOMAIN p \ DOMAIN old : Fill(old, p)[y] = p[y]
      BY <3>a, FillDef, FillPartial
    <3> QED BY <2>3, <3>2, <3>3 DEF old
  <2> HIDE DEF p
  <2>5. k \in Controller /\ k.callbacks = Fill(ctl[t].callbacks, p)
        /\ k.streams = ctl[t].streams /\ k.pending = ctl[t].pending
    BY <1>t, <2>4 DEF Controller
  <2> HIDE DEF v, k, c, key
  <2>6. CtlOK(t, k)
    BY <1>t, <2>s, <2>3, <2>4, <2>5 DEF CtlOK
  <2>7. CtlType'
    BY <1>t, <1>3, <2>2, <2>6, CtlTypeStep DEF Register, sourceVars, Types, CtlType
  <2>8. AnnounceType'
    BY <1>3, <2>1, <2>2, AnnouncerTypeStep DEF Register, sourceVars, historyVars, Types, AnnounceType
  <2> QED BY <1>3, <2>7, <2>8 DEF Register, Types, RecType, sourceVars
<1>4. CASE Send(a)
  <2>1. told' \in [Targets -> SUBSET Tokens]
    BY <1>t, <1>4 DEF Send, Types, AnnounceType, Announcing
  <2>2. AnnounceType'
    BY <1>4, <2>1, IdleType, AnnouncerTypeStep DEF Send, sourceVars, Types
  <2> QED BY <1>4, <2>2 DEF Send, Types, CtlType, RecType, sourceVars
<1> QED BY <1>1, <1>2, <1>3, <1>4 DEF Announce

-----------------------------------------------------------------------------
(* A message of the source. *)

(* What a list changes: the stream records that are there stay as they are *)
(* or lose their connection, and the new ones are for the handler.         *)
ListEffect ==
  /\ DOMAIN rec \subseteq DOMAIN rec' /\ DOMAIN rec' \subseteq Records
  /\ \A r \in DOMAIN rec' : rec'[r] \in StreamRecord /\ r[1] <= lists'
  /\ \A r \in DOMAIN rec : rec'[r] = rec[r] \/ ~rec'[r].linked
  /\ \E k \in Controller :
       /\ ctl' = [ctl EXCEPT ![Source] = k]
       /\ k.dataChannel = ctl[Source].dataChannel /\ k.pending = ctl[Source].pending
       /\ \A id \in DOMAIN k.streams : k.streams[id] \in DOMAIN rec' /\ k.streams[id][2] = id
       /\ \A s \in Range(k.streams) :
            \/ s \in Live
            \/ /\ s[1] = lists + 1 /\ lists' = lists + 1
               /\ handler'.at = "run" /\ s \in handler'.added
       /\ \/ handler' = handler
          \/ /\ handler' \in [at : {"run"}, added : SUBSET DOMAIN rec', targets : {Targets}]
             /\ handler'.added \subseteq Range(k.streams)

LEMMA ListStep ==
  ASSUME Types, NEW list \in Lists, NEW handshake \in BOOLEAN,
         lists + 1 <= MaxMessages,
         HandleAnnounceStreams(list, handshake)
  PROVE  ListEffect
<1> DEFINE src == ctl[Source]
           kept == {id \in DOMAIN list \cap DOMAIN src.streams : ~Refused(list, id)}
           fresh == DOMAIN list \ DOMAIN src.streams
           added == {<<lists + 1, id>> : id \in fresh}
           streams == [id \in kept \cup fresh |->
                         IF id \in kept THEN src.streams[id] ELSE <<lists + 1, id>>]
           stays(r) == r \notin Range(src.streams)
                         \/ (r[2] \in kept /\ list[r[2]].token = rec[r].token)
           tokens == {list[id].token : id \in fresh}
           waits == [k \in tokens |-> [dataChannel |-> src.dataChannel, source |-> None]]
           new == [src EXCEPT !.handshake = handshake, !.streams = streams,
                              !.callbacks = Fill(src.callbacks, waits)]
<1>s. src \in Controller /\ CtlOK(Source, src) /\ lists \in Nat
  BY CtlTypeDef, MemberUsers DEF Types, RecType
<1>l. /\ DOMAIN list \subseteq Ids
      /\ \A id \in DOMAIN list : list[id].kind \in Kinds /\ list[id].token \in Tokens
  <2>1. list \in PartialFunctions(Ids, [kind : Kinds, token : Tokens])
    BY P2PAssumption
  <2>2. DOMAIN list \subseteq Ids /\ list \in [DOMAIN list -> [kind : Kinds, token : Tokens]]
    BY <2>1, PartialDef
  <2>3. \A id \in DOMAIN list : list[id] \in [kind : Kinds, token : Tokens]
    BY <2>2
  <2> QED BY <2>2, <2>3
<1>a. /\ lists' = lists + 1
      /\ rec' = [r \in DOMAIN rec \cup added |->
           IF r \in added
           THEN [kind |-> list[r[2]].kind, token |-> list[r[2]].token, linked |-> TRUE]
           ELSE IF stays(r) THEN rec[r]
           ELSE [rec[r] EXCEPT !.linked = FALSE,
                               !.token = IF r[2] \in kept THEN list[r[2]].token ELSE rec[r].token]]
      /\ ctl' = [ctl EXCEPT ![Source] = new]
      /\ handler' = IF added = {} /\ DOMAIN src.streams \subseteq kept THEN handler
                    ELSE [at |-> "run", added |-> added, targets |-> Targets]
  BY DEF HandleAnnounceStreams
<1>f. /\ fresh \subseteq DOMAIN list /\ kept \subseteq DOMAIN list
      /\ kept \subseteq DOMAIN src.streams /\ fresh \subseteq Ids /\ kept \subseteq Ids
  BY <1>l
<1>d. \A r \in added : r = <<lists + 1, r[2]>> /\ r[1] = lists + 1 /\ r[2] \in fresh
  OBVIOUS
<1> HIDE DEF kept, fresh, stays
<1>r. DOMAIN rec \cap added = {}
  <2>1. \A r \in DOMAIN rec : r[1] <= lists
    BY DEF Types, RecType
  <2> QED BY <1>s, <1>d, <2>1
<1>1. DOMAIN rec' = DOMAIN rec \cup added
  BY <1>a
<1>b. DOMAIN rec' \subseteq Records /\ \A r \in DOMAIN rec' : r[1] <= lists'
  <2>1. \A r \in added : r \in Records /\ r[1] = lists + 1
    BY <1>s, <1>f, P2PAssumption DEF Records
  <2>2. \A r \in DOMAIN rec : r \in Records /\ r[1] <= lists /\ r[1] \in Nat
    BY DEF Types, RecType, Records
  <2>3. lists' = lists + 1
    BY <1>a
  <2> HIDE DEF added
  <2> QED BY <1>s, <1>1, <2>1, <2>2, <2>3
<1>2. \A r \in DOMAIN rec' : rec'[r] \in StreamRecord
  <2> SUFFICES ASSUME NEW r \in DOMAIN rec \cup added PROVE rec'[r] \in StreamRecord
    BY <1>1
  <2>1. CASE r \in added
    <3>1. rec'[r] = [kind |-> list[r[2]].kind, token |-> list[r[2]].token, linked |-> TRUE]
      BY <1>a, <2>1
    <3>2. r[2] \in DOMAIN list
      BY <1>d, <1>f, <2>1
    <3> QED BY <1>l, <3>1, <3>2 DEF StreamRecord
  <2>2. CASE r \notin added /\ stays(r)
    BY <1>a, <2>2 DEF Types, RecType
  <2>3. CASE r \notin added /\ ~stays(r)
    <3>1. rec[r] \in StreamRecord
      BY <2>3 DEF Types, RecType
    <3>2. rec'[r] = [rec[r] EXCEPT !.linked = FALSE,
                       !.token = IF r[2] \in kept THEN list[r[2]].token ELSE rec[r].token]
      BY <1>a, <2>3
    <3>3. r[2] \in kept => list[r[2]].token \in Tokens
      BY <1>l, <1>f
    <3> QED BY <3>1, <3>2, <3>3 DEF StreamRecord
  <2> QED BY <2>1, <2>2, <2>3
<1>3. \A r \in DOMAIN rec : rec'[r] = rec[r] \/ ~rec'[r].linked
  <2> SUFFICES ASSUME NEW r \in DOMAIN rec, ~stays(r) PROVE ~rec'[r].linked
    BY <1>a, <1>r
  <2>1. rec[r] \in StreamRecord /\ r \notin added
    BY <1>r DEF Types, RecType
  <2>2. rec'[r] = [rec[r] EXCEPT !.linked = FALSE,
                     !.token = IF r[2] \in kept THEN list[r[2]].token ELSE rec[r].token]
    BY <1>a, <2>1
  <2> QED BY <2>1, <2>2 DEF StreamRecord
<1>4. /\ DOMAIN streams = kept \cup fresh
      /\ \A id \in kept : streams[id] = src.streams[id]
      /\ \A id \in fresh \ kept : streams[id] = <<lists + 1, id>>
      /\ fresh \cap kept = {}
  BY DEF fresh, kept
<1>5. \A id \in DOMAIN streams : streams[id] \in DOMAIN rec' /\ streams[id][2] = id
  <2> SUFFICES ASSUME NEW id \in kept \cup fresh
               PROVE  streams[id] \in DOMAIN rec' /\ streams[id][2] = id
    BY <1>4
  <2>1. CASE id \in kept
    BY <1>s, <1>f, <1>1, <1>4, <2>1 DEF CtlOK
  <2>2. CASE id \in fresh
    BY <1>1, <1>4, <2>2
  <2> QED BY <2>1, <2>2
<1>6. \A s \in Range(streams) : s \in Live \/ s \in added
  <2> SUFFICES ASSUME NEW id \in kept \cup fresh PROVE streams[id] \in Live \/ streams[id] \in added
    <3> HIDE DEF streams, added
    <3> QED BY <1>4, InRange
  <2>1. CASE id \in kept
    BY <1>f, <1>4, <2>1, InRange DEF Live
  <2>2. CASE id \in fresh
    BY <1>4, <2>2
  <2> QED BY <2>1, <2>2
<1>7. added \subseteq Range(streams)
  <2> SUFFICES ASSUME NEW id \in fresh PROVE <<lists + 1, id>> \in Range(streams)
    OBVIOUS
  <2> QED BY <1>4, InRange
<1>8. streams \in PartialFunctions(Ids, Records)
  <2>1. DOMAIN streams \subseteq Ids /\ \A id \in DOMAIN streams : streams[id] \in Records
    <3> HIDE DEF streams
    <3> QED BY <1>b, <1>4, <1>5, <1>f
  <2>2. streams \in [DOMAIN streams -> Records]
    BY <2>1
  <2> HIDE DEF streams
  <2> QED BY <2>1, <2>2, PartialDef
<1>9. Fill(src.callbacks, waits) \in PartialFunctions(Tokens, P2PRecord)
  <2>1. tokens \subseteq Tokens
    BY <1>l, <1>f
  <2>2. [dataChannel |-> src.dataChannel, source |-> None] \in P2PRecord
    BY <1>s DEF Controller, P2PRecord
  <2> HIDE DEF tokens
  <2>3. waits \in PartialFunctions(Tokens, P2PRecord)
    BY <2>1, <2>2, PartialDef
  <2>4. src.callbacks \in PartialFunctions(Tokens, P2PRecord)
    BY <1>s DEF Controller
  <2> HIDE DEF waits, src
  <2> QED BY <2>3, <2>4, FillPartial
<1> HIDE DEF streams, added, waits, tokens
<1>10. /\ new \in Controller /\ new.streams = streams
       /\ new.dataChannel = src.dataChannel /\ new.pending = src.pending
  BY <1>s, <1>8, <1>9 DEF Controller
<1> HIDE DEF new
<1>11. \/ handler' = handler /\ added = {}
       \/ /\ handler' = [at |-> "run", added |-> added, targets |-> Targets]
          /\ handler' \in [at : {"run"}, added : SUBSET DOMAIN rec', targets : {Targets}]
          /\ handler'.added = added /\ handler'.at = "run"
  BY <1>a, <1>1
<1>12. \A s \in Range(new.streams) :
         \/ s \in Live
         \/ /\ s[1] = lists + 1 /\ lists' = lists + 1
            /\ handler'.at = "run" /\ s \in handler'.added
  BY <1>a, <1>d, <1>6, <1>10, <1>11
<1>13. \/ handler' = handler
       \/ /\ handler' \in [at : {"run"}, added : SUBSET DOMAIN rec', targets : {Targets}]
          /\ handler'.added \subseteq Range(new.streams)
  BY <1>7, <1>10, <1>11
<1> QED BY <1>a, <1>1, <1>b, <1>2, <1>3, <1>5, <1>10, <1>12, <1>13 DEF ListEffect

(* What a message changes: nothing of a target.                            *)
MessageEffect ==
  /\ UNCHANGED <<conn, worker, announcer, receiverCh, historyVars>>
  /\ handler.at = "idle" /\ worker.at # "run"
  /\ \A t \in Targets : ctl'[t] = ctl[t]
  /\ ctl'[Source].dataChannel = ctl[Source].dataChannel
  /\ \A r \in DOMAIN rec : r \in DOMAIN rec' /\ (rec'[r] = rec[r] \/ ~rec'[r].linked)
  /\ \A s \in Live' :
       \/ s \in Live
       \/ /\ s \notin DOMAIN rec
          /\ handler'.at = "run" /\ s \in handler'.added /\ handler'.targets = Targets
  /\ handler' = handler \/ (handler'.at = "run" /\ handler'.added \subseteq Live')

LEMMA ListMessage ==
  ASSUME Types, ListEffect, lists' = lists + 1, handler.at = "idle",
         UNCHANGED <<conn, heard, worker, announcer, binds, receiverCh, historyVars>>
  PROVE  /\ CtlType' /\ AnnounceType'
         /\ \A t \in Targets : ctl'[t] = ctl[t]
         /\ ctl'[Source].dataChannel = ctl[Source].dataChannel
         /\ \A s \in Live' :
              \/ s \in Live
              \/ /\ s \notin DOMAIN rec
                 /\ handler'.at = "run" /\ s \in handler'.added /\ handler'.targets = Targets
         /\ handler' = handler \/ (handler'.at = "run" /\ handler'.added \subseteq Live')
<1>t. /\ ctl \in [Users -> Controller] /\ \A c \in Users : CtlOK(c, ctl[c])
      /\ lists \in Nat /\ \A r \in DOMAIN rec : r[1] <= lists /\ r[1] \in Nat
  <2>1. \A r \in DOMAIN rec : r[1] \in Nat
    BY DEF Types, RecType, Records
  <2> QED BY <2>1, CtlTypeDef DEF Types, RecType
<1>k. PICK k \in Controller :
       /\ ctl' = [ctl EXCEPT ![Source] = k]
       /\ k.dataChannel = ctl[Source].dataChannel /\ k.pending = ctl[Source].pending
       /\ \A id \in DOMAIN k.streams : k.streams[id] \in DOMAIN rec' /\ k.streams[id][2] = id
       /\ \A s \in Range(k.streams) :
            \/ s \in Live
            \/ /\ s[1] = lists + 1 /\ lists' = lists + 1
               /\ handler'.at = "run" /\ s \in handler'.added
       /\ \/ handler' = handler
          \/ /\ handler' \in [at : {"run"}, added : SUBSET DOMAIN rec', targets : {Targets}]
             /\ handler'.added \subseteq Range(k.streams)
  BY DEF ListEffect
<1>d. DOMAIN rec \subseteq DOMAIN rec'
  BY DEF ListEffect
<1>1. ctl'[Source] = k /\ \A t \in Targets : ctl'[t] = ctl[t]
  BY <1>t, <1>k, MemberUsers
<1>2. CtlType'
  <2>1. ctl' \in [Users -> Controller]
    BY <1>t, <1>k
  <2>2. ASSUME NEW c \in Users PROVE CtlOK(c, ctl[c])'
    <3>1. CASE c = Source
      BY <1>t, <1>k, <1>1, <1>d, <3>1, MemberUsers DEF CtlOK
    <3>2. CASE c \in Targets
      <4>1. CtlOK(c, ctl[c]) /\ ctl'[c] = ctl[c]
        BY <1>t, <1>1, <3>2
      <4> QED BY <1>d, <4>1 DEF CtlOK
    <3> QED BY <3>1, <3>2 DEF Users
  <2>3. conn' \in [Users -> Connected]
    BY DEF Types, CtlType
  <2> QED BY <2>1, <2>2, <2>3, MemberUsers DEF CtlType, CtlOK
<1>3. AnnounceType'
  <2>1. handler' \in [at : {"idle", "run"}, added : SUBSET DOMAIN rec', targets : SUBSET Targets]
    <3>1. CASE handler' = handler
      BY <1>d, <3>1 DEF Types, AnnounceType
    <3>2. CASE handler' \in [at : {"run"}, added : SUBSET DOMAIN rec', targets : {Targets}]
      BY <3>2
    <3> QED BY <1>k, <3>1, <3>2
  <2>2. worker' \in [at : {"idle", "wait", "run"}, on : Targets \cup {None},
                     streams : SUBSET DOMAIN rec']
    BY <1>d DEF Types, AnnounceType
  <2>3. announcer' \in [Announcers -> Announcing']
    <3>1. Announcing \subseteq Announcing'
      BY <1>d DEF Announcing
    <3> QED BY <3>1 DEF Types, AnnounceType
  <2>4. binds' \in [Targets -> SUBSET [dataChannel : Conns, added : SUBSET DOMAIN rec']]
    <3>1. [dataChannel : Conns, added : SUBSET DOMAIN rec]
            \subseteq [dataChannel : Conns, added : SUBSET DOMAIN rec']
      BY <1>d
    <3> QED BY <3>1 DEF Types, AnnounceType
  <2> QED BY <2>1, <2>2, <2>3, <2>4 DEF Types, AnnounceType, historyVars
<1>4. Live' = Range(k.streams)
  BY <1>1 DEF Live
<1>5. handler.at = "idle" /\ (handler' # handler => handler'.at = "run" /\ handler'.targets = Targets)
  BY <1>k
<1> QED BY <1>t, <1>k, <1>1, <1>2, <1>3, <1>4, <1>5

LEMMA LivesRecorded ==
  ASSUME Types
  PROVE  \A s \in Live : s \in DOMAIN rec /\ s \in Records /\ rec[s] \in StreamRecord
<1>1. CtlOK(Source, ctl[Source])
  BY CtlTypeDef, MemberUsers DEF Types
<1>2. ASSUME NEW s \in Live PROVE s \in DOMAIN rec
  <2>1. PICK id \in DOMAIN ctl[Source].streams : ctl[Source].streams[id] = s
    BY <1>2, InRange DEF Live
  <2> QED BY <1>1, <2>1 DEF CtlOK
<1> QED BY <1>2 DEF Types, RecType

LEMMA MessageStep ==
  ASSUME Types, NEW d \in Conns, P2PMessage(d)
  PROVE  Types' /\ MessageEffect
<1>m. PICK m \in Message : HandleP2PMessage(d, m)
  BY DEF P2PMessage
<1>u. /\ UNCHANGED <<conn, heard, worker, announcer, binds, receiverCh, historyVars>>
      /\ handler.at = "idle" /\ worker.at # "run"
      /\ d \in checked /\ checked' = checked \ {d}
  BY <1>m DEF HandleP2PMessage, P2PFree
<1>c. /\ IsFiniteSet(checked') /\ Cardinality(checked') = Cardinality(checked) - 1
      /\ Cardinality(checked) \in Nat /\ Cardinality(checked') \in Nat
      /\ lists \in Nat /\ heard \in Nat /\ lists + Cardinality(checked) <= heard
      /\ lists + 1 <= MaxMessages
  <2>1. IsFiniteSet(checked) /\ lists \in Nat /\ heard \in 0..MaxMessages
        /\ lists + Cardinality(checked) <= heard
    BY DEF Types, RecType
  <2>2. IsFiniteSet(checked') /\ Cardinality(checked') = Cardinality(checked) - 1
    BY <1>u, <2>1, FS_RemoveElement
  <2>3. Cardinality(checked) \in Nat /\ Cardinality(checked') \in Nat
    BY <2>1, <2>2, FS_CardinalityType
  <2> QED BY <2>1, <2>2, <2>3, P2PAssumption
<1>s. ctl \in [Users -> Controller] /\ ctl[Source] \in Controller /\ CtlOK(Source, ctl[Source])
  BY CtlTypeDef, MemberUsers DEF Types
<1>1. CASE UNCHANGED <<ctl, rec, lists, handler>>
  <2>1. RecType'
    BY <1>u, <1>c, <1>1 DEF Types, RecType
  <2> QED BY <1>u, <1>1, <2>1 DEF Types, CtlType, AnnounceType, Announcing, MessageEffect, Live, historyVars
<1>2. CASE ctl' = [ctl EXCEPT ![Source] = [@ EXCEPT !.handshake = TRUE]] /\ UNCHANGED <<rec, lists, handler>>
  <2> DEFINE k == [ctl[Source] EXCEPT !.handshake = TRUE]
  <2>1. ctl' = [ctl EXCEPT ![Source] = k]
    BY <1>2
  <2>2. /\ k \in Controller /\ k.streams = ctl[Source].streams
        /\ k.dataChannel = ctl[Source].dataChannel
        /\ k.pending = ctl[Source].pending /\ k.callbacks = ctl[Source].callbacks
    BY <1>s DEF Controller
  <2> HIDE DEF k
  <2>3. CtlOK(Source, k)
    BY <1>s, <2>2 DEF CtlOK
  <2>4. conn' \in [Users -> Connected]
    BY <1>u DEF Types, CtlType
  <2>5. CtlType'
    BY <1>2, <2>1, <2>3, <2>4, CtlTypeStep, MemberUsers DEF Types
  <2>6. RecType'
    BY <1>u, <1>c, <1>2 DEF Types, RecType
  <2>7. AnnounceType'
    BY <1>u, <1>2 DEF Types, AnnounceType, Announcing, historyVars
  <2>8. ctl'[Source] = k /\ \A t \in Targets : ctl'[t] = ctl[t]
    BY <1>s, <2>1, MemberUsers
  <2> QED BY <1>u, <1>2, <2>2, <2>5, <2>6, <2>7, <2>8 DEF Types, MessageEffect, Live
<1>3. ASSUME m.list \in Lists, NEW h \in BOOLEAN, HandleAnnounceStreams(m.list, h)
      PROVE  Types' /\ MessageEffect
  <2>1. ListEffect
    BY <1>c, <1>3, ListStep
  <2>2. lists' = lists + 1
    BY <1>3 DEF HandleAnnounceStreams
  <2>3. /\ CtlType' /\ AnnounceType'
        /\ \A t \in Targets : ctl'[t] = ctl[t]
        /\ ctl'[Source].dataChannel = ctl[Source].dataChannel
        /\ \A s \in Live' :
             \/ s \in Live
             \/ /\ s \notin DOMAIN rec
                /\ handler'.at = "run" /\ s \in handler'.added /\ handler'.targets = Targets
        /\ handler' = handler \/ (handler'.at = "run" /\ handler'.added \subseteq Live')
    BY <1>u, <2>1, <2>2, ListMessage
  <2>4. RecType'
    BY <1>u, <1>c, <2>1, <2>2 DEF Types, RecType, ListEffect
  <2>5. \A r \in DOMAIN rec : r \in DOMAIN rec' /\ (rec'[r] = rec[r] \/ ~rec'[r].linked)
    BY <2>1 DEF ListEffect
  <2>6. Types'
    BY <2>3, <2>4 DEF Types
  <2>7. MessageEffect
    BY <1>u, <2>3, <2>5 DEF MessageEffect
  <2> QED BY <2>6, <2>7
<1>4. m.type = "announce_streams" \/ m.list # None => m.list \in Lists
  BY DEF Message
<1>5. (ctl[Source].handshake \/ m.type = "handshake") \in BOOLEAN
  BY <1>s DEF Controller
<1> QED BY <1>m, <1>1, <1>2, <1>3, <1>4, <1>5 DEF HandleP2PMessage

-----------------------------------------------------------------------------
(* The other steps. *)

LEMMA JoinTypes ==
  ASSUME Types, NEW t \in Targets, Join(t)
  PROVE  Types'
<1>1. conn' \in [Users -> Connected]
  <2>1. conn \in [Users -> Connected] /\ conn[t] \in Connected
    BY CtlTypeDef, MemberUsers DEF Types
  <2>2. [conn[t] EXCEPT !.known = TRUE] \in Connected
    BY <2>1 DEF Connected
  <2> QED BY <2>1, <2>2 DEF Join
<1>2. CtlType'
  BY <1>1, ConnTypeStep DEF Join, Types, sourceVars
<1> QED BY <1>2 DEF Join, Types, RecType, AnnounceType, Announcing, sourceVars, announceVars, historyVars

LEMMA HandleDataTypes ==
  ASSUME Types, NEW d \in Conns, HandleData(d)
  PROVE  Types'
<1>1. /\ IsFiniteSet(checked') /\ Cardinality(checked') = Cardinality(checked) + 1
      /\ Cardinality(checked) \in Nat
  BY FS_AddElement, FS_CardinalityType DEF HandleData, Types, RecType
<1>2. RecType'
  BY <1>1, P2PAssumption DEF HandleData, Types, RecType
<1> QED BY <1>2 DEF HandleData, Types, CtlType, AnnounceType, Announcing, announceVars, historyVars

(* The steps of those who announce that are not steps of announceStreams. *)
Running ==
  \/ HandlerDone \/ WorkerTakes \/ WorkerLocks \/ WorkerAnnounces \/ WorkerDone
  \/ \E t \in Targets : AnnounceTo(t) \/ BindAnnounces(t)

LEMMA RunTypes ==
  ASSUME Types, WorkerInv, Running,
         UNCHANGED <<conn, ctl, sourceVars, historyVars>>
  PROVE  Types'
<1>s. CtlType' /\ RecType'
  BY DEF Types, CtlType, RecType, sourceVars
<1>h. /\ handler \in [at : {"idle", "run"}, added : SUBSET DOMAIN rec, targets : SUBSET Targets]
      /\ worker \in [at : {"idle", "wait", "run"}, on : Targets \cup {None},
                     streams : SUBSET DOMAIN rec]
      /\ binds \in [Targets -> SUBSET [dataChannel : Conns, added : SUBSET DOMAIN rec]]
      /\ receiverCh \in Seq(Targets)
      /\ announcer \in [Announcers -> Announcing]
  BY DEF Types, AnnounceType
<1>r. rec' = rec /\ Announcing' = Announcing /\ told' = told /\ since' = since
  BY DEF sourceVars, historyVars, Announcing
<1> SUFFICES AnnounceType'
  BY <1>s DEF Types
<1>w. WorkerIdle \in [at : {"idle", "wait", "run"}, on : Targets \cup {None},
                      streams : SUBSET DOMAIN rec]
      /\ HandlerIdle \in [at : {"idle", "run"}, added : SUBSET DOMAIN rec, targets : SUBSET Targets]
  BY DEF WorkerIdle, HandlerIdle
<1>1. CASE HandlerDone
  BY <1>1, <1>r, <1>w DEF HandlerDone, Types, AnnounceType
<1>2. CASE WorkerTakes
  <2>1. Head(receiverCh) \in Targets /\ Tail(receiverCh) \in Seq(Targets)
    BY <1>2, <1>h, RangeTail DEF WorkerTakes
  <2>2. worker' \in [at : {"idle", "wait", "run"}, on : Targets \cup {None},
                     streams : SUBSET DOMAIN rec]
    BY <1>2, <1>w, <2>1 DEF WorkerTakes
  <2> QED BY <1>2, <1>r, <2>1, <2>2 DEF WorkerTakes, Types, AnnounceType
<1>3. CASE WorkerLocks
  <2>1. Live \subseteq DOMAIN rec
    BY LivesRecorded
  <2>2. worker' \in [at : {"idle", "wait", "run"}, on : Targets \cup {None},
                     streams : SUBSET DOMAIN rec]
    BY <1>3, <1>h, <2>1 DEF WorkerLocks, Live
  <2> QED BY <1>3, <1>r, <2>2 DEF WorkerLocks, Types, AnnounceType
<1>4. CASE WorkerAnnounces
  <2>1. PICK s \in worker.streams :
          /\ worker' = [worker EXCEPT !.streams = @ \ {s}]
          /\ announcer' = [announcer EXCEPT ![Worker] = AnnounceStreams(worker.on, {s})]
    BY <1>4 DEF WorkerAnnounces
  <2>2. worker.on \in Targets /\ s \in DOMAIN rec
    BY <1>4, <1>h DEF WorkerInv, WorkerAnnounces
  <2>3. announcer' \in [Announcers -> Announcing]
    BY <1>h, <2>1, <2>2, StartType
  <2>4. worker' \in [at : {"idle", "wait", "run"}, on : Targets \cup {None},
                     streams : SUBSET DOMAIN rec]
    BY <1>h, <2>1
  <2> QED BY <1>4, <1>r, <2>3, <2>4 DEF WorkerAnnounces, Types, AnnounceType
<1>5. CASE WorkerDone
  BY <1>5, <1>r, <1>w DEF WorkerDone, Types, AnnounceType
<1>6. ASSUME NEW t \in Targets, AnnounceTo(t) PROVE AnnounceType'
  <2>1. AnnounceStreams(t, handler.added) \in Announcing
    BY <1>h, StartType
  <2>2. announcer' \in [Announcers -> Announcing]
    BY <1>6, <1>h, <2>1 DEF AnnounceTo
  <2>3. handler' \in [at : {"idle", "run"}, added : SUBSET DOMAIN rec, targets : SUBSET Targets]
    BY <1>6, <1>h DEF AnnounceTo
  <2> QED BY <1>6, <1>r, <2>2, <2>3 DEF AnnounceTo, Types, AnnounceType
<1>7. ASSUME NEW t \in Targets, BindAnnounces(t) PROVE AnnounceType'
  <2>1. PICK b \in binds[t] :
       /\ binds' = [binds EXCEPT ![t] = @ \ {b}]
       /\ announcer' = IF ctl[t].dataChannel = b.dataChannel
                       THEN [announcer EXCEPT ![t] = AnnounceStreams(t, b.added)]
                       ELSE announcer
    BY <1>7 DEF BindAnnounces
  <2>2. AnnounceStreams(t, b.added) \in Announcing
    BY <1>h, StartType
  <2>3. announcer' \in [Announcers -> Announcing]
    BY <1>h, <2>1, <2>2
  <2>4. binds' \in [Targets -> SUBSET [dataChannel : Conns, added : SUBSET DOMAIN rec]]
    BY <1>h, <2>1
  <2> QED BY <1>7, <1>r, <2>3, <2>4 DEF BindAnnounces, Types, AnnounceType
<1> QED BY <1>1, <1>2, <1>3, <1>4, <1>5, <1>6, <1>7 DEF Running

LEMMA RunningFrame ==
  ASSUME Running
  PROVE  UNCHANGED <<conn, ctl, sourceVars, historyVars>>
BY DEF Running, HandlerDone, WorkerTakes, WorkerLocks, WorkerAnnounces, WorkerDone,
       AnnounceTo, BindAnnounces

LEMMA NextCases ==
  ASSUME Next
  PROVE  \/ \E t \in Targets : Join(t)
         \/ \E c \in Users : Connection(c)
         \/ \E d \in Conns : HandleData(d)
         \/ \E d \in Conns : P2PMessage(d)
         \/ \E a \in Announcers : Announce(a)
         \/ Running
BY DEF Next, HandlerSteps, WorkerSteps, Running, Announcers

LEMMA TypesNext ==
  ASSUME Types, Roles, Next
  PROVE  Types'
<1>1. ASSUME Running PROVE Types'
  BY <1>1, RunTypes, RunningFrame DEF Roles
<1> QED BY <1>1, NextCases, JoinTypes, ConnectionTypes, HandleDataTypes, MessageStep, AnnounceTypes
        DEF Roles

LEMMA TypesStutter ==
  ASSUME Types, UNCHANGED vars
  PROVE  Types'
BY DEF Types, CtlType, RecType, AnnounceType, Announcing, vars, sourceVars, announceVars, historyVars

-----------------------------------------------------------------------------
(* What the steps change, component by component. *)

(* One announcer moves on, to value v.                                     *)
Moves(a, v) == announcer'[a] = v /\ \A b \in Announcers \ {a} : announcer'[b] = announcer[b]

(* One controller gets value k.                                            *)
Sets(c, k) == ctl'[c] = k /\ \A d \in Users \ {c} : ctl'[d] = ctl[d]

LEMMA CheckStep ==
  ASSUME Types, AnnouncerInv, NEW a \in Announcers, Check(a)
  PROVE  \E x \in announcer[a].todo :
           /\ announcer[a].at = "check"
           /\ Moves(a, announcer'[a])
           /\ announcer'[a].at = IF ctl[announcer[a].on].dataChannel = 0 THEN "pend" ELSE "register"
           /\ announcer'[a].todo = announcer[a].todo \ {x} /\ announcer'[a].stream = x
           /\ announcer'[a].on = announcer[a].on /\ announcer'[a].announce = announcer[a].announce
<1>1. announcer[a] \in Announcing /\ announcer \in [Announcers -> Announcing]
  BY DEF Types, AnnounceType
<1>2. PICK x \in announcer[a].todo :
        announcer' = [announcer EXCEPT ![a] = [@ EXCEPT
          !.at = IF ctl[announcer[a].on].dataChannel = 0 THEN "pend" ELSE "register",
          !.todo = announcer[a].todo \ {x}, !.stream = x]]
  BY DEF Check
<1> QED BY <1>1, <1>2 DEF Check, Moves, Announcing

LEMMA PendStep ==
  ASSUME Types, AnnouncerInv, NEW a \in Announcers, Pend(a)
  PROVE  LET t == announcer[a].on
             s == announcer[a].stream
         IN /\ announcer[a].at = "pend"
            /\ Moves(a, announcer'[a])
            /\ announcer'[a].at = "check" /\ announcer'[a].stream = None
            /\ announcer'[a].todo = announcer[a].todo
            /\ announcer'[a].on = t /\ announcer'[a].announce = announcer[a].announce
            /\ Sets(t, ctl'[t])
            /\ ctl'[t].dataChannel = ctl[t].dataChannel
            /\ ctl'[t].streams = ctl[t].streams /\ ctl'[t].callbacks = ctl[t].callbacks
            /\ PendedIn(ctl'[t], s)
            /\ \A r \in DOMAIN rec : PendedIn(ctl[t], r) /\ r[2] # s[2] => PendedIn(ctl'[t], r)
<1> DEFINE t == announcer[a].on
           s == announcer[a].stream
           p == [id \in {s[2]} |-> s]
<1>0. announcer[a].at = "pend"
  BY DEF Pend
<1>1. /\ announcer[a] \in Announcing /\ announcer \in [Announcers -> Announcing]
      /\ ctl \in [Users -> Controller] /\ t \in Targets /\ t \in Users /\ ctl[t] \in Controller
  BY <1>0, AnnouncerAt, MemberUsers DEF Types, AnnounceType, CtlType
<1>2. Moves(a, announcer'[a]) /\ announcer'[a].at = "check" /\ announcer'[a].stream = None
      /\ announcer'[a].todo = announcer[a].todo
      /\ announcer'[a].on = t /\ announcer'[a].announce = announcer[a].announce
  BY <1>1 DEF Pend, Moves, Announcing
<1>3. /\ Sets(t, ctl'[t])
      /\ ctl'[t].dataChannel = ctl[t].dataChannel
      /\ ctl'[t].streams = ctl[t].streams /\ ctl'[t].callbacks = ctl[t].callbacks
      /\ ctl'[t].pending = Fill(p, ctl[t].pending)
  BY <1>1 DEF Pend, Sets, Controller
<1>4. DOMAIN p = {s[2]} /\ p[s[2]] = s
  OBVIOUS
<1>5. /\ DOMAIN Fill(p, ctl[t].pending) = {s[2]} \cup DOMAIN ctl[t].pending
      /\ Fill(p, ctl[t].pending)[s[2]] = s
      /\ \A id \in DOMAIN ctl[t].pending \ {s[2]} :
           Fill(p, ctl[t].pending)[id] = ctl[t].pending[id]
  <2> DEFINE old == ctl[t].pending
  <2> HIDE DEF p, s, old
  <2>1. /\ DOMAIN Fill(p, old) = DOMAIN p \cup DOMAIN old
        /\ \A y \in DOMAIN p : Fill(p, old)[y] = p[y]
        /\ \A y \in DOMAIN old \ DOMAIN p : Fill(p, old)[y] = old[y]
    BY FillDef
  <2> QED BY <1>4, <2>1 DEF old
<1> HIDE DEF p
<1>6. PendedIn(ctl'[t], s)
  BY <1>3, <1>5 DEF PendedIn
<1>7. ASSUME NEW r \in DOMAIN rec, PendedIn(ctl[t], r), r[2] # s[2]
      PROVE  PendedIn(ctl'[t], r)
  BY <1>3, <1>5, <1>7 DEF PendedIn
<1> QED BY <1>0, <1>2, <1>3, <1>6, <1>7

LEMMA RegisterStep ==
  ASSUME Types, AnnouncerInv, NEW a \in Announcers, Register(a)
  PROVE  LET t == announcer[a].on
             s == announcer[a].stream
             k == rec[s].token
         IN /\ announcer[a].at = "register"
            /\ Moves(a, announcer'[a])
            /\ announcer'[a].at = "check" /\ announcer'[a].stream = None
            /\ announcer'[a].todo = announcer[a].todo /\ announcer'[a].on = t
            /\ announcer'[a].announce =
                 announcer[a].announce \cup ({k} \ DOMAIN ctl[t].callbacks)
            /\ Sets(t, ctl'[t])
            /\ ctl'[t].dataChannel = ctl[t].dataChannel
            /\ ctl'[t].streams = ctl[t].streams /\ ctl'[t].pending = ctl[t].pending
            /\ DOMAIN ctl'[t].callbacks = {k} \cup DOMAIN ctl[t].callbacks
            /\ \A y \in DOMAIN ctl[t].callbacks : ctl'[t].callbacks[y] = ctl[t].callbacks[y]
<1> DEFINE t == announcer[a].on
           s == announcer[a].stream
           k == rec[s].token
           c == [dataChannel |-> ctl[t].dataChannel,
                 source |-> IF rec[s].linked THEN s ELSE None]
           p == [y \in {k} |-> c]
<1>0. announcer[a].at = "register"
  BY DEF Register
<1>1. /\ announcer[a] \in Announcing /\ announcer \in [Announcers -> Announcing]
      /\ ctl \in [Users -> Controller] /\ t \in Targets /\ t \in Users /\ ctl[t] \in Controller
  BY <1>0, AnnouncerAt, MemberUsers DEF Types, AnnounceType, CtlType
<1>2. /\ Moves(a, announcer'[a]) /\ announcer'[a].at = "check" /\ announcer'[a].stream = None
      /\ announcer'[a].todo = announcer[a].todo /\ announcer'[a].on = t
      /\ announcer'[a].announce = announcer[a].announce \cup ({k} \ DOMAIN ctl[t].callbacks)
  <2>1. announcer' = [announcer EXCEPT ![a] = [@ EXCEPT
          !.at = "check", !.stream = None,
          !.announce = IF k \notin DOMAIN ctl[t].callbacks
                       THEN announcer[a].announce \cup {k} ELSE announcer[a].announce]]
    BY DEF Register
  <2> HIDE DEF k, s, t
  <2>2. /\ Moves(a, announcer'[a]) /\ announcer'[a].at = "check" /\ announcer'[a].stream = None
        /\ announcer'[a].todo = announcer[a].todo /\ announcer'[a].on = announcer[a].on
        /\ announcer'[a].announce = IF k \notin DOMAIN ctl[t].callbacks
                       THEN announcer[a].announce \cup {k} ELSE announcer[a].announce
    BY <1>1, <2>1 DEF Moves, Announcing
  <2> QED BY <2>2 DEF t
<1>3. /\ Sets(t, ctl'[t])
      /\ ctl'[t].dataChannel = ctl[t].dataChannel
      /\ ctl'[t].streams = ctl[t].streams /\ ctl'[t].pending = ctl[t].pending
      /\ ctl'[t].callbacks = Fill(ctl[t].callbacks, p)
  BY <1>1 DEF Register, Sets, Controller
<1>4. DOMAIN p = {k}
  OBVIOUS
<1>5. /\ DOMAIN Fill(ctl[t].callbacks, p) = {k} \cup DOMAIN ctl[t].callbacks
      /\ \A y \in DOMAIN ctl[t].callbacks : Fill(ctl[t].callbacks, p)[y] = ctl[t].callbacks[y]
  <2> DEFINE old == ctl[t].callbacks
  <2> HIDE DEF p, k, old
  <2>1. /\ DOMAIN Fill(old, p) = DOMAIN old \cup DOMAIN p
        /\ \A y \in DOMAIN old : Fill(old, p)[y] = old[y]
    BY FillDef
  <2> QED BY <1>4, <2>1 DEF old
<1> HIDE DEF p
<1> QED BY <1>0, <1>2, <1>3, <1>5

LEMMA SendStep ==
  ASSUME Types, AnnouncerInv, NEW a \in Announcers, Send(a)
  PROVE  LET t == announcer[a].on
         IN /\ announcer[a].at = "check" /\ announcer[a].todo = {}
            /\ Moves(a, Idle)
            /\ UNCHANGED <<conn, ctl, sourceVars, handler, binds, receiverCh, since>>
            /\ \A u \in Targets \ {t} : told'[u] = told[u]
            /\ told'[t] = IF CanSend(t) THEN told[t] \cup announcer[a].announce ELSE told[t]
            /\ \/ worker' = worker
               \/ /\ a = Worker /\ worker' = WorkerIdle
                  /\ announcer[a].announce # {} /\ ~CanSend(t)
<1>1. announcer[a].at # "idle" /\ announcer[a].at = "check" /\ announcer[a].todo = {}
  BY DEF Send
<1>2. announcer \in [Announcers -> Announcing] /\ told \in [Targets -> SUBSET Tokens]
      /\ announcer[a].on \in Targets
  BY <1>1, AnnouncerAt DEF Types, AnnounceType
<1>3. Moves(a, Idle)
  BY <1>2 DEF Send, Moves
<1>4. /\ \A u \in Targets \ {announcer[a].on} : told'[u] = told[u]
      /\ told'[announcer[a].on] = IF CanSend(announcer[a].on)
                                  THEN told[announcer[a].on] \cup announcer[a].announce
                                  ELSE told[announcer[a].on]
  BY <1>2 DEF Send
<1>5. \/ worker' = worker
      \/ /\ a = Worker /\ worker' = WorkerIdle
         /\ announcer[a].announce # {} /\ ~CanSend(announcer[a].on)
  BY MemberUsers DEF Send
<1> QED BY <1>1, <1>3, <1>4, <1>5 DEF Send

(* The other steps of announceStreams tell nothing.                        *)
LEMMA AnnounceFrame ==
  ASSUME NEW a \in Announcers
  PROVE  /\ Check(a) => UNCHANGED <<conn, ctl, sourceVars, handler, worker, binds, receiverCh, historyVars>>
         /\ Pend(a) \/ Register(a) =>
              UNCHANGED <<conn, sourceVars, handler, worker, binds, receiverCh, historyVars>>
BY DEF Check, Pend, Register

(* The connections.                                                        *)
LEMMA ConnectionStep ==
  ASSUME Types, NEW c \in Users, Connection(c)
  PROVE  /\ UNCHANGED <<sourceVars, announceVars>>
         /\ \A d \in Users \ {c} : conn'[d] = conn[d] /\ ctl'[d] = ctl[d]
         /\ ctl'[c].streams = ctl[c].streams \/ ctl'[c] = NewController
         /\ \/ /\ conn[c].known /\ conn[c].pc = 0 /\ conn'[c].pc # 0
               /\ conn'[c].known /\ conn'[c].open = conn[c].open
               /\ RecordFree(c) /\ UNCHANGED historyVars
               /\ ctl'[c] = ctl[c] \/ (P2PFree(c) /\ ctl'[c].dataChannel # 0)
               /\ ctl'[c].streams = ctl[c].streams /\ ctl'[c].callbacks = ctl[c].callbacks
               /\ c # Source => Range(receiverCh') = Range(receiverCh) \cup {c}
               /\ c = Source => receiverCh' = receiverCh
            \/ /\ conn[c].pc # 0 /\ ctl[c].dataChannel # conn[c].pc
               /\ conn' = conn /\ P2PFree(c) /\ RecordFree(c)
               /\ ctl'[c].dataChannel # 0
               /\ ctl'[c].streams = ctl[c].streams /\ ctl'[c].callbacks = ctl[c].callbacks
               /\ UNCHANGED <<receiverCh, historyVars>>
            \/ /\ conn[c].open = 0 /\ conn[c].pc # 0 /\ ctl[c].dataChannel = conn[c].pc
               /\ conn'[c].pc = conn[c].pc /\ conn'[c].open = conn[c].pc
               /\ conn'[c].known = conn[c].known
               /\ \A t \in Targets \ {c} : told'[t] = told[t] /\ since'[t] = since[t]
               /\ c # Source => told'[c] = {} /\ since'[c] = lists
               /\ UNCHANGED <<ctl, receiverCh>>
            \/ /\ conn'[c].pc = 0 /\ conn'[c].open = 0 /\ conn'[c].known = conn[c].known
               /\ RecordFree(c) /\ UNCHANGED <<ctl, receiverCh, historyVars>>
            \/ /\ conn'[c].pc = 0 /\ conn'[c].open = 0 /\ conn'[c].known = conn[c].known
               /\ P2PFree(c) /\ ctl'[c] = NewController
               /\ UNCHANGED <<receiverCh, historyVars>>
<1>t. /\ conn \in [Users -> Connected] /\ conn[c] \in Connected
      /\ ctl \in [Users -> Controller] /\ ctl[c] \in Controller
      /\ told \in [Targets -> SUBSET Tokens] /\ since \in [Targets -> 0..MaxMessages]
      /\ receiverCh \in Seq(Targets)
      /\ conn[c].made \in {0} \cup Conns
  BY CtlTypeDef DEF Types, AnnounceType, Connected
<1>b. ASSUME NEW n, Bind(c, n)
      PROVE  /\ \A d \in Users \ {c} : ctl'[d] = ctl[d]
             /\ ctl'[c].dataChannel = n
             /\ ctl'[c].streams = ctl[c].streams /\ ctl'[c].callbacks = ctl[c].callbacks
  BY <1>t, <1>b DEF Bind, Controller
<1>1. CASE Connect(c)
  <2>1. conn[c].made + 1 # 0
    <3>1. \A n \in {0} \cup Conns : n \in Nat
      BY ConnNumbers
    <3>2. conn[c].made \in Nat
      BY <1>t, <3>1
    <3> QED BY <3>2
  <2>2. /\ \A d \in Users \ {c} : conn'[d] = conn[d]
        /\ conn[c].known /\ conn[c].pc = 0
        /\ conn'[c].pc = conn[c].made + 1
        /\ conn'[c].known = conn[c].known /\ conn'[c].open = conn[c].open
    BY <1>t, <1>1 DEF Connect, Connected
  <2>3. \/ ctl' = ctl
        \/ P2PFree(c) /\ Bind(c, conn[c].made + 1)
    BY <1>1 DEF Connect
  <2>4. /\ c # Source => Range(receiverCh') = Range(receiverCh) \cup {c}
        /\ c = Source => receiverCh' = receiverCh
    <3>1. c # Source => c \in Targets
      BY DEF Users
    <3> QED BY <1>t, <1>1, <3>1, RangeAppend DEF Connect
  <2>5. /\ \A d \in Users \ {c} : ctl'[d] = ctl[d]
        /\ ctl'[c] = ctl[c] \/ (P2PFree(c) /\ ctl'[c].dataChannel # 0)
        /\ ctl'[c].streams = ctl[c].streams /\ ctl'[c].callbacks = ctl[c].callbacks
    <3>1. CASE ctl' = ctl
      BY <3>1
    <3>2. CASE P2PFree(c) /\ Bind(c, conn[c].made + 1)
      BY <1>b, <2>1, <3>2
    <3> QED BY <2>3, <3>1, <3>2
  <2>6. UNCHANGED <<sourceVars, announceVars, historyVars>> /\ RecordFree(c)
    BY <1>1 DEF Connect
  <2> QED BY <2>1, <2>2, <2>4, <2>5, <2>6
<1>2. CASE OnDataChannel(c)
  <2>1. Bind(c, conn[c].pc)
    BY <1>2 DEF OnDataChannel
  <2>2. /\ \A d \in Users \ {c} : ctl'[d] = ctl[d]
        /\ ctl'[c].dataChannel = conn[c].pc
        /\ ctl'[c].streams = ctl[c].streams /\ ctl'[c].callbacks = ctl[c].callbacks
    BY <1>b, <2>1
  <2> QED BY <1>2, <2>2 DEF OnDataChannel
<1>3. CASE Opens(c)
  <2>1. c # Source => c \in Targets
    BY DEF Users
  <2>2. /\ \A d \in Users \ {c} : conn'[d] = conn[d]
        /\ conn'[c].pc = conn[c].pc /\ conn'[c].open = conn[c].pc
        /\ conn'[c].known = conn[c].known
    BY <1>t, <1>3 DEF Opens, Connected
  <2>3. /\ \A t \in Targets \ {c} : told'[t] = told[t] /\ since'[t] = since[t]
        /\ c # Source => told'[c] = {} /\ since'[c] = lists
    BY <1>t, <1>3, <2>1 DEF Opens, historyVars
  <2> QED BY <1>3, <2>2, <2>3 DEF Opens
<1>4. CASE Clear(c)
  <2>1. /\ \A d \in Users \ {c} : conn'[d] = conn[d]
        /\ conn'[c].pc = 0 /\ conn'[c].open = 0 /\ conn'[c].known = conn[c].known
    BY <1>t, <1>4 DEF Clear, Connected
  <2> QED BY <1>4, <2>1 DEF Clear
<1>5. CASE Reset(c)
  <2>1. /\ \A d \in Users \ {c} : conn'[d] = conn[d] /\ ctl'[d] = ctl[d]
        /\ conn'[c].pc = 0 /\ conn'[c].open = 0 /\ conn'[c].known = conn[c].known
        /\ ctl'[c] = NewController
    BY <1>t, <1>5 DEF Reset, Connected
  <2> QED BY <1>5, <2>1 DEF Reset
<1> QED BY <1>1, <1>2, <1>3, <1>4, <1>5 DEF Connection

-----------------------------------------------------------------------------
(* The roles of the announcers. *)

LEMMA InitRoles == Init => Roles
<1> SUFFICES ASSUME Init PROVE Roles
  OBVIOUS
<1>1. /\ \A c \in Users : /\ conn[c].pc = 0 /\ conn[c].open = 0
                          /\ ctl[c] = NewController /\ ctl[c].dataChannel = 0
      /\ \A a \in Announcers : announcer[a] = Idle /\ announcer[a].at = "idle"
      /\ handler.at = "idle" /\ worker.at = "idle"
  BY DEF Init, NewController, Idle, HandlerIdle, WorkerIdle
<1> QED BY <1>1, MemberUsers DEF Roles, ConnInv, AnnouncerInv, AtStream, HandlerInv, WorkerInv,
                               BindInv, WorkerSaw

(* Steps that leave the source's streams alone. *)
LEMMA AnnounceLive ==
  ASSUME Types, AnnouncerInv, NEW a \in Announcers, Announce(a)
  PROVE  /\ \A t \in Targets : ctl'[t].dataChannel = ctl[t].dataChannel
         /\ ctl'[Source] = ctl[Source] /\ Live' = Live
         /\ UNCHANGED <<conn, sourceVars, handler, binds, receiverCh, since>>
         /\ announcer[a].at # "idle"
<1>1. announcer[a].at # "idle" /\ UNCHANGED <<conn, sourceVars, handler, binds, receiverCh, since>>
  BY DEF Announce, Check, Pend, Register, Send, historyVars
<1>2. announcer[a].on \in Targets
  BY <1>1, AnnouncerAt
<1>3. /\ \A t \in Targets : ctl'[t].dataChannel = ctl[t].dataChannel
      /\ ctl'[Source] = ctl[Source]
  <2>1. CASE ctl' = ctl
    BY <2>1
  <2>2. CASE Pend(a)
    BY <1>2, <2>2, PendStep, MemberUsers DEF Sets
  <2>3. CASE Register(a)
    BY <1>2, <2>3, RegisterStep, MemberUsers DEF Sets
  <2> QED BY <2>1, <2>2, <2>3 DEF Announce, Check, Send
<1> QED BY <1>1, <1>3 DEF Live

(* What an announcer does next, whatever that is. *)
LEMMA AnnounceMoves ==
  ASSUME Types, AnnouncerInv, NEW a \in Announcers, Announce(a)
  PROVE  LET n == announcer'[a]
         IN /\ Moves(a, n)
            /\ n \in Announcing
            /\ n.todo \subseteq announcer[a].todo
            /\ n.at = "idle" => n = Idle
            /\ n.at # "idle" => n.on = announcer[a].on
            /\ n.at \in {"pend", "register"} => n.stream \in announcer[a].todo
            /\ n.at = "pend" => ctl[announcer[a].on].dataChannel = 0
            /\ n.at = "register" => ctl[announcer[a].on].dataChannel # 0
            /\ announcer[a].announce = {} /\ n.announce # {} => announcer[a].at = "register"
            /\ worker' = worker \/ (a = Worker /\ worker' = WorkerIdle /\ n = Idle)
<1>0. announcer'[a] \in Announcing
  <2>1. Types'
    BY AnnounceTypes
  <2>2. Announcing' = Announcing
    BY DEF Announcing, Announce, Check, Pend, Register, Send, sourceVars
  <2> QED BY <2>1, <2>2 DEF Types, AnnounceType
<1>1. CASE Check(a)
  <2>1. worker' = worker
    BY <1>1 DEF Check
  <2> QED BY <1>0, <1>1, <2>1, CheckStep
<1>2. CASE Pend(a)
  <2>1. worker' = worker
    BY <1>2 DEF Pend
  <2> QED BY <1>0, <1>2, <2>1, PendStep
<1>3. CASE Register(a)
  <2>1. worker' = worker
    BY <1>3 DEF Register
  <2> QED BY <1>0, <1>3, <2>1, RegisterStep
<1>4. CASE Send(a)
  <2>1. announcer'[a] = Idle /\ Moves(a, Idle) /\ (worker' = worker \/ (a = Worker /\ worker' = WorkerIdle))
    BY <1>4, SendStep DEF Moves
  <2> QED BY <1>0, <2>1 DEF Idle
<1> QED BY <1>1, <1>2, <1>3, <1>4 DEF Announce

LEMMA AnnounceRoles ==
  ASSUME Types, Roles, NEW a \in Announcers, Announce(a)
  PROVE  Roles'
<1> DEFINE n == announcer'[a]
<1>f. /\ \A t \in Targets : ctl'[t].dataChannel = ctl[t].dataChannel
      /\ ctl'[Source] = ctl[Source] /\ Live' = Live
      /\ conn' = conn /\ rec' = rec /\ handler' = handler
      /\ announcer[a].at # "idle"
  BY AnnounceLive DEF Roles, sourceVars
<1>n. /\ Moves(a, n) /\ n \in Announcing
      /\ n.todo \subseteq announcer[a].todo
      /\ n.at = "idle" => n = Idle
      /\ n.at # "idle" => n.on = announcer[a].on
      /\ n.at \in {"pend", "register"} => n.stream \in announcer[a].todo
      /\ n.at = "pend" => ctl[announcer[a].on].dataChannel = 0
      /\ n.at = "register" => ctl[announcer[a].on].dataChannel # 0
      /\ announcer[a].announce = {} /\ n.announce # {} => announcer[a].at = "register"
      /\ worker' = worker \/ (a = Worker /\ worker' = WorkerIdle /\ n = Idle)
  BY AnnounceMoves DEF Roles
<1>a. /\ announcer[a] \in Announcing /\ announcer[a].on \in Targets
  BY <1>f, AnnouncerAt DEF Roles
<1>m. n = announcer'[a] /\ \A b \in Announcers \ {a} : announcer'[b] = announcer[b]
  BY <1>n DEF Moves
<1> HIDE DEF n
<1>1. ConnInv'
  BY <1>f DEF Roles, ConnInv, Users
<1>2. AnnouncerInv'
  <2> SUFFICES ASSUME NEW b \in Announcers
               PROVE  /\ announcer'[b].at = "idle" => announcer'[b] = Idle
                      /\ announcer'[b].at # "idle" => announcer'[b].on \in Targets
                      /\ announcer'[b].at \in {"pend", "register"} =>
                           announcer'[b].stream \in DOMAIN rec
    BY <1>f DEF AnnouncerInv, AtStream
  <2>1. CASE b = a
    BY <1>n, <1>a, <1>m, <2>1 DEF Announcing
  <2>2. CASE b # a
    BY <1>m, <2>2 DEF Roles, AnnouncerInv, AtStream
  <2> QED BY <2>1, <2>2
<1>3. HandlerInv'
  <2>1. a = Handler => handler.at = "run"
    BY <1>f, <1>a DEF Roles, HandlerInv, Idle, Types, AnnounceType
  <2>2. worker'.at = "run" => worker.at = "run"
    BY <1>n DEF WorkerIdle
  <2>3. CASE a = Handler
    BY <1>f, <1>n, <1>m, <2>1, <2>2, <2>3 DEF Roles, HandlerInv, AtStream
  <2>4. CASE a # Handler
    BY <1>f, <1>m, <2>2, <2>4, MemberUsers DEF Roles, HandlerInv, AtStream
  <2> QED BY <2>3, <2>4
<1>4. WorkerInv'
  <2>1. CASE a = Worker
    <3>1. worker.at = "run"
      BY <1>f, <2>1 DEF Roles, WorkerInv, Idle
    <3>2. CASE worker' = worker
      BY <1>f, <1>n, <1>m, <2>1, <3>1, <3>2 DEF Roles, WorkerInv, AtStream
    <3>3. CASE worker' = WorkerIdle /\ n = Idle
      BY <1>m, <2>1, <3>3 DEF WorkerInv, WorkerIdle
    <3> QED BY <1>n, <3>2, <3>3
  <2>2. CASE a # Worker
    BY <1>f, <1>n, <1>m, <2>2, MemberUsers DEF Roles, WorkerInv, AtStream
  <2> QED BY <2>1, <2>2
<1>5. BindInv'
  <2> SUFFICES ASSUME NEW t \in Targets, announcer'[t].at # "idle"
               PROVE  /\ announcer'[t].on = t /\ ctl'[t].dataChannel # 0 /\ announcer'[t].at # "pend"
    BY DEF BindInv
  <2>1. CASE t = a
    BY <1>f, <1>n, <1>m, <2>1 DEF Roles, BindInv
  <2>2. CASE t # a
    BY <1>f, <1>m, <2>2, MemberUsers DEF Roles, BindInv
  <2> QED BY <2>1, <2>2
<1>6. WorkerSaw'
  <2> SUFFICES ASSUME worker'.at = "run",
                      announcer'[Worker].at = "register" \/ announcer'[Worker].announce # {}
               PROVE  ctl'[worker'.on].dataChannel # 0 \/ conn'[worker'.on].pc = 0
    BY DEF WorkerSaw
  <2>1. worker' = worker /\ worker.on \in Targets
    BY <1>n DEF WorkerIdle, Roles, WorkerInv
  <2>2. CASE a = Worker
    BY <1>f, <1>n, <1>m, <2>1, <2>2 DEF Roles, WorkerInv, WorkerSaw
  <2>3. CASE a # Worker
    BY <1>f, <1>m, <2>1, <2>3, MemberUsers DEF Roles, WorkerSaw
  <2> QED BY <2>2, <2>3
<1> QED BY <1>1, <1>2, <1>3, <1>4, <1>5, <1>6 DEF Roles

LEMMA ConnectionRoles ==
  ASSUME Types, Roles, NEW c \in Users, Connection(c)
  PROVE  Roles'
<1>f. /\ rec' = rec /\ handler' = handler /\ worker' = worker /\ announcer' = announcer
      /\ \A d \in Users \ {c} : conn'[d] = conn[d] /\ ctl'[d] = ctl[d]
  BY ConnectionStep DEF sourceVars, announceVars
<1>c. \/ /\ conn[c].known /\ conn[c].pc = 0 /\ conn'[c].pc # 0
         /\ conn'[c].known /\ conn'[c].open = conn[c].open
         /\ RecordFree(c)
         /\ ctl'[c] = ctl[c] \/ (P2PFree(c) /\ ctl'[c].dataChannel # 0)
         /\ ctl'[c].streams = ctl[c].streams
      \/ /\ conn[c].pc # 0 /\ ctl[c].dataChannel # conn[c].pc
         /\ conn' = conn /\ P2PFree(c) /\ RecordFree(c)
         /\ ctl'[c].dataChannel # 0
         /\ ctl'[c].streams = ctl[c].streams
      \/ /\ conn[c].open = 0 /\ conn[c].pc # 0 /\ ctl[c].dataChannel = conn[c].pc
         /\ conn'[c].pc = conn[c].pc /\ conn'[c].open = conn[c].pc
         /\ conn'[c].known = conn[c].known
         /\ ctl' = ctl
      \/ /\ conn'[c].pc = 0 /\ conn'[c].open = 0 /\ conn'[c].known = conn[c].known
         /\ RecordFree(c) /\ ctl' = ctl
      \/ /\ conn'[c].pc = 0 /\ conn'[c].open = 0 /\ conn'[c].known = conn[c].known
         /\ P2PFree(c) /\ ctl'[c] = NewController
  BY ConnectionStep
<1>n. NewController.dataChannel = 0
  BY DEF NewController
<1>1. ConnInv'
  BY <1>f, <1>c, <1>n DEF Roles, ConnInv
<1>2. AnnouncerInv'
  BY <1>f DEF Roles, AnnouncerInv, AtStream
<1>l. Live' = Live \/ (handler.at = "idle" /\ worker.at # "run")
  <2>1. CASE c = Source
    BY <1>c, <2>1 DEF Live, P2PFree
  <2>2. CASE c # Source
    BY <1>f, <2>2, MemberUsers DEF Live
  <2> QED BY <2>1, <2>2
<1>3. HandlerInv'
  BY <1>f, <1>l DEF Roles, HandlerInv, AtStream
<1>4. WorkerInv'
  BY <1>f, <1>l DEF Roles, WorkerInv, AtStream
<1>5. BindInv'
  <2> SUFFICES ASSUME NEW t \in Targets, announcer[t].at # "idle"
               PROVE  ctl'[t].dataChannel # 0
    BY <1>f DEF Roles, BindInv
  <2>1. CASE t = c
    <3>1. ~P2PFree(c) /\ ctl[c].dataChannel # 0
      BY <2>1, MemberUsers DEF P2PFree, Roles, BindInv
    <3> QED BY <1>c, <2>1, <3>1
  <2>2. CASE t # c
    BY <1>f, <2>2, MemberUsers DEF Roles, BindInv
  <2> QED BY <2>1, <2>2
<1>6. WorkerSaw'
  <2> SUFFICES ASSUME worker.at = "run", worker.on \in Targets,
                      ctl[worker.on].dataChannel # 0 \/ conn[worker.on].pc = 0
               PROVE  ctl'[worker.on].dataChannel # 0 \/ conn'[worker.on].pc = 0
    BY <1>f DEF Roles, WorkerInv, WorkerSaw
  <2>1. CASE worker.on = c
    <3>1. ~RecordFree(c)
      BY <2>1, MemberUsers DEF RecordFree
    <3> QED BY <1>c, <2>1, <3>1
  <2>2. CASE worker.on # c
    BY <1>f, <2>2, MemberUsers
  <2> QED BY <2>1, <2>2
<1> QED BY <1>1, <1>2, <1>3, <1>4, <1>5, <1>6 DEF Roles

LEMMA MessageRoles ==
  ASSUME Types, Roles, NEW d \in Conns, P2PMessage(d)
  PROVE  Roles'
<1>e. MessageEffect
  BY MessageStep
<1>u. /\ conn' = conn /\ worker' = worker /\ announcer' = announcer
      /\ handler.at = "idle" /\ worker.at # "run"
      /\ \A c \in Users : ctl'[c].dataChannel = ctl[c].dataChannel
      /\ DOMAIN rec \subseteq DOMAIN rec'
  BY <1>e DEF MessageEffect, Users
<1>1. ConnInv'
  BY <1>u DEF Roles, ConnInv
<1>2. AnnouncerInv'
  BY <1>u DEF Roles, AnnouncerInv, AtStream
<1>3. HandlerInv'
  <2>1. announcer[Handler] = Idle
    BY <1>u DEF Roles, HandlerInv
  <2>2. handler' = handler \/ (handler'.at = "run" /\ handler'.added \subseteq Live')
    BY <1>e DEF MessageEffect
  <2> QED BY <1>u, <2>1, <2>2 DEF HandlerInv, AtStream, Idle
<1>4. WorkerInv'
  BY <1>u DEF Roles, WorkerInv
<1>5. BindInv'
  BY <1>u, MemberUsers DEF Roles, BindInv
<1>6. WorkerSaw'
  BY <1>u DEF WorkerSaw
<1> QED BY <1>1, <1>2, <1>3, <1>4, <1>5, <1>6 DEF Roles

LEMMA JoinRoles ==
  ASSUME Types, Roles, NEW t \in Targets, Join(t)
  PROVE  Roles'
<1>1. /\ \A c \in Users : conn'[c].pc = conn[c].pc /\ conn'[c].open = conn[c].open
                            /\ (conn[c].known => conn'[c].known)
  <2>1. conn \in [Users -> Connected] /\ t \in Users
    BY MemberUsers DEF Types, CtlType
  <2>2. conn[t] \in Connected
    BY <2>1
  <2>3. conn' = [conn EXCEPT ![t] = [conn[t] EXCEPT !.known = TRUE]]
    BY DEF Join
  <2>4. \A c \in Users \ {t} : conn'[c] = conn[c]
    BY <2>1, <2>3
  <2>5. /\ conn'[t].pc = conn[t].pc /\ conn'[t].open = conn[t].open /\ conn'[t].known
    BY <2>1, <2>2, <2>3 DEF Connected
  <2> QED BY <2>4, <2>5
<1>2. UNCHANGED <<ctl, rec, handler, worker, announcer>>
  BY DEF Join, sourceVars, announceVars
<1>3. ConnInv'
  BY <1>1, <1>2 DEF Roles, ConnInv
<1>4. AnnouncerInv' /\ HandlerInv' /\ WorkerInv' /\ BindInv'
  BY <1>2 DEF Roles, AnnouncerInv, AtStream, HandlerInv, WorkerInv, BindInv, Live
<1>5. WorkerSaw'
  BY <1>1, <1>2, MemberUsers DEF Roles, WorkerInv, WorkerSaw
<1> QED BY <1>3, <1>4, <1>5 DEF Roles

LEMMA HandleDataRoles ==
  ASSUME Roles, NEW d \in Conns, HandleData(d)
  PROVE  Roles'
BY DEF HandleData, announceVars, Roles, ConnInv, AnnouncerInv, AtStream, HandlerInv, WorkerInv,
       BindInv, WorkerSaw, Live

(* An announcer starts: it has been idle, and now has streams to look at.  *)
LEMMA StartStep ==
  ASSUME Types, NEW a \in Announcers, NEW t, NEW S,
         announcer' = [announcer EXCEPT ![a] = AnnounceStreams(t, S)]
  PROVE  /\ Moves(a, announcer'[a])
         /\ announcer'[a].at = "check" /\ announcer'[a].on = t /\ announcer'[a].todo = S
         /\ announcer'[a].announce = {}
<1>1. announcer \in [Announcers -> Announcing]
  BY DEF Types, AnnounceType
<1> QED BY <1>1 DEF Moves, AnnounceStreams

LEMMA AnnounceToStep ==
  ASSUME Types, NEW t \in Targets, AnnounceTo(t)
  PROVE  /\ handler.at = "run" /\ announcer[Handler].at = "idle" /\ t \in handler.targets
         /\ handler'.at = "run" /\ handler'.added = handler.added
         /\ handler'.targets = handler.targets \ {t}
         /\ UNCHANGED <<worker, receiverCh>>
         /\ \/ /\ conn[t].known /\ Moves(Handler, announcer'[Handler])
               /\ announcer'[Handler].at = "check" /\ announcer'[Handler].on = t
               /\ announcer'[Handler].todo = handler.added
               /\ announcer'[Handler].announce = {}
            \/ ~conn[t].known /\ announcer' = announcer
<1>1. handler \in [at : {"idle", "run"}, added : SUBSET DOMAIN rec, targets : SUBSET Targets]
  BY DEF Types, AnnounceType
<1>2. \/ conn[t].known /\ announcer' = [announcer EXCEPT ![Handler] = AnnounceStreams(t, handler.added)]
      \/ ~conn[t].known /\ announcer' = announcer
  BY DEF AnnounceTo
<1>3. /\ handler'.at = handler.at /\ handler'.added = handler.added
      /\ handler'.targets = handler.targets \ {t}
  BY <1>1 DEF AnnounceTo
<1> QED BY <1>2, <1>3, StartStep, MemberUsers DEF AnnounceTo

LEMMA WorkerAnnouncesStep ==
  ASSUME Types, WorkerAnnounces
  PROVE  /\ worker.at = "run" /\ announcer[Worker].at = "idle"
         /\ worker'.at = "run" /\ worker'.on = worker.on
         /\ UNCHANGED <<handler, receiverCh>>
         /\ \E s \in worker.streams :
              /\ worker'.streams = worker.streams \ {s}
              /\ Moves(Worker, announcer'[Worker])
              /\ announcer'[Worker].at = "check" /\ announcer'[Worker].on = worker.on
              /\ announcer'[Worker].todo = {s}
              /\ announcer'[Worker].announce = {}
<1>1. worker \in [at : {"idle", "wait", "run"}, on : Targets \cup {None}, streams : SUBSET DOMAIN rec]
  BY DEF Types, AnnounceType
<1>2. PICK s \in worker.streams :
        /\ worker' = [worker EXCEPT !.streams = @ \ {s}]
        /\ announcer' = [announcer EXCEPT ![Worker] = AnnounceStreams(worker.on, {s})]
  BY DEF WorkerAnnounces
<1>3. worker'.at = worker.at /\ worker'.on = worker.on /\ worker'.streams = worker.streams \ {s}
  BY <1>1, <1>2
<1>4. /\ Moves(Worker, announcer'[Worker])
      /\ announcer'[Worker].at = "check" /\ announcer'[Worker].on = worker.on
      /\ announcer'[Worker].todo = {s} /\ announcer'[Worker].announce = {}
  <2> DEFINE S == {s}
             t == worker.on
  <2>1. announcer' = [announcer EXCEPT ![Worker] = AnnounceStreams(t, S)]
    BY <1>2
  <2> HIDE DEF S, t
  <2>2. /\ Moves(Worker, announcer'[Worker])
        /\ announcer'[Worker].at = "check" /\ announcer'[Worker].on = t
        /\ announcer'[Worker].todo = S /\ announcer'[Worker].announce = {}
    BY <2>1, StartStep, MemberUsers
  <2> QED BY <2>2 DEF S, t
<1>5. /\ worker.at = "run" /\ announcer[Worker].at = "idle" /\ UNCHANGED <<handler, receiverCh>>
  BY DEF WorkerAnnounces
<1> QED BY <1>3, <1>4, <1>5

LEMMA WorkerTakesStep ==
  ASSUME Types, WorkerTakes
  PROVE  /\ worker.at = "idle" /\ UNCHANGED <<handler, announcer>>
         /\ \E t \in Targets :
              /\ Range(receiverCh) = Range(receiverCh') \cup {t}
              /\ \/ conn[t].pc = 0 /\ worker'.at = "idle"
                 \/ conn[t].pc # 0 /\ worker'.at = "wait" /\ worker'.on = t
<1>1. receiverCh \in Seq(Targets)
  BY DEF Types, AnnounceType
<1>2. /\ Head(receiverCh) \in Targets
      /\ Range(receiverCh) = Range(Tail(receiverCh)) \cup {Head(receiverCh)}
  BY <1>1, RangeTail DEF WorkerTakes
<1> QED BY <1>2 DEF WorkerTakes, WorkerIdle

LEMMA WorkerLocksStep ==
  ASSUME Types, WorkerLocks
  PROVE  /\ worker.at = "wait" /\ handler.at = "idle"
         /\ worker'.at = "run" /\ worker'.on = worker.on /\ worker'.streams = Live
         /\ UNCHANGED <<handler, announcer, receiverCh>>
<1>1. worker \in [at : {"idle", "wait", "run"}, on : Targets \cup {None}, streams : SUBSET DOMAIN rec]
  BY DEF Types, AnnounceType
<1> QED BY <1>1 DEF WorkerLocks, Live

LEMMA BindAnnouncesStep ==
  ASSUME Types, NEW t \in Targets, BindAnnounces(t)
  PROVE  /\ announcer[t].at = "idle" /\ UNCHANGED <<handler, worker, receiverCh>>
         /\ \/ announcer' = announcer
            \/ /\ ctl[t].dataChannel # 0
               /\ Moves(t, announcer'[t])
               /\ announcer'[t].at = "check" /\ announcer'[t].on = t
               /\ announcer'[t].announce = {}
<1>1. PICK b \in binds[t] :
        announcer' = IF ctl[t].dataChannel = b.dataChannel
                     THEN [announcer EXCEPT ![t] = AnnounceStreams(t, b.added)]
                     ELSE announcer
  BY DEF BindAnnounces
<1>2. b.dataChannel # 0
  <2>1. b \in [dataChannel : Conns, added : SUBSET DOMAIN rec]
    BY DEF Types, AnnounceType
  <2>2. b.dataChannel \in Conns /\ 0 \notin Conns
    BY <2>1, ConnNumbers
  <2> QED BY <2>2
<1>3. announcer[t].at = "idle" /\ UNCHANGED <<handler, worker, receiverCh>>
  BY MemberUsers DEF BindAnnounces, P2PFree
<1> QED BY <1>1, <1>2, <1>3, StartStep, MemberUsers

LEMMA RunningRoles ==
  ASSUME Types, Roles, Running
  PROVE  Roles'
<1>f. conn' = conn /\ ctl' = ctl /\ rec' = rec /\ Live' = Live
  BY RunningFrame DEF sourceVars, Live
<1>1. ConnInv'
  BY <1>f DEF Roles, ConnInv
<1>i. \A a \in Announcers : announcer[a].at = "idle" => announcer[a] = Idle
  BY DEF Roles, AnnouncerInv
<1>h. worker.at \in {"idle", "wait", "run"} /\ handler.at \in {"idle", "run"}
  BY DEF Types, AnnounceType
<1>2. CASE HandlerDone
  <2>1. /\ UNCHANGED <<worker, announcer>> /\ handler'.at = "idle" /\ announcer[Handler] = Idle
    BY <1>2, <1>i, MemberUsers DEF HandlerDone, HandlerIdle
  <2> QED BY <1>1, <1>f, <2>1 DEF Roles, AnnouncerInv, AtStream, HandlerInv, WorkerInv, BindInv, WorkerSaw
<1>3. CASE WorkerTakes
  <2>1. /\ worker.at = "idle" /\ UNCHANGED <<handler, announcer>>
        /\ worker'.at = "idle" \/ (worker'.at = "wait" /\ worker'.on \in Targets)
    BY <1>3, WorkerTakesStep
  <2> QED BY <1>1, <1>f, <2>1 DEF Roles, AnnouncerInv, AtStream, HandlerInv, WorkerInv, BindInv, WorkerSaw
<1>4. CASE WorkerLocks
  <2>1. /\ worker.at = "wait" /\ handler.at = "idle"
        /\ worker'.at = "run" /\ worker'.on = worker.on /\ worker'.streams = Live
        /\ UNCHANGED <<handler, announcer>>
    BY <1>4, WorkerLocksStep
  <2>2. announcer[Worker].at = "idle" /\ announcer[Worker].todo = {} /\ announcer[Worker].announce = {}
    BY <2>1 DEF Roles, WorkerInv, Idle
  <2> QED BY <1>1, <1>f, <2>1, <2>2 DEF Roles, AnnouncerInv, AtStream, HandlerInv, WorkerInv, BindInv, WorkerSaw
<1>5. CASE WorkerDone
  <2>1. /\ UNCHANGED <<handler, announcer>> /\ worker'.at = "idle" /\ announcer[Worker] = Idle
    BY <1>5, <1>i, MemberUsers DEF WorkerDone, WorkerIdle
  <2> QED BY <1>1, <1>f, <2>1 DEF Roles, AnnouncerInv, AtStream, HandlerInv, WorkerInv, BindInv, WorkerSaw
<1>6. CASE WorkerAnnounces
  <2>1. PICK s \in worker.streams :
          /\ worker.at = "run" /\ announcer[Worker].at = "idle"
          /\ worker'.at = "run" /\ worker'.on = worker.on
          /\ handler' = handler
          /\ worker'.streams = worker.streams \ {s}
          /\ \A b \in Announcers \ {Worker} : announcer'[b] = announcer[b]
          /\ announcer'[Worker].at = "check" /\ announcer'[Worker].on = worker.on
          /\ announcer'[Worker].todo = {s}
          /\ announcer'[Worker].announce = {}
    BY <1>6, WorkerAnnouncesStep DEF Moves
  <2>2. worker.on \in Targets /\ s \in Live /\ handler.at = "idle"
    BY <1>h, <2>1 DEF Roles, WorkerInv, HandlerInv
  <2>3. AnnouncerInv'
    BY <1>f, <2>1, <2>2 DEF Roles, AnnouncerInv, AtStream
  <2>4. HandlerInv' /\ BindInv'
    BY <1>f, <2>1, <2>2, MemberUsers DEF Roles, HandlerInv, AtStream, BindInv
  <2>5. WorkerInv' /\ WorkerSaw'
    BY <1>f, <2>1, <2>2 DEF Roles, WorkerInv, AtStream, WorkerSaw
  <2> QED BY <1>1, <2>3, <2>4, <2>5 DEF Roles
<1>7. ASSUME NEW t \in Targets, AnnounceTo(t) PROVE Roles'
  <2>1. /\ handler.at = "run" /\ announcer[Handler].at = "idle"
        /\ handler'.at = "run" /\ handler'.added = handler.added
        /\ worker' = worker
        /\ \/ /\ \A b \in Announcers \ {Handler} : announcer'[b] = announcer[b]
              /\ announcer'[Handler].at = "check" /\ announcer'[Handler].on = t
              /\ announcer'[Handler].todo = handler.added
           \/ announcer' = announcer
    BY <1>7, AnnounceToStep DEF Moves
  <2>2. AnnouncerInv'
    BY <1>f, <2>1 DEF Roles, AnnouncerInv, AtStream
  <2>3. HandlerInv'
    BY <1>f, <2>1 DEF Roles, HandlerInv, AtStream
  <2>4. announcer'[Worker] = announcer[Worker] /\ \A u \in Targets : announcer'[u] = announcer[u]
    BY <2>1, MemberUsers
  <2>5. WorkerInv' /\ BindInv' /\ WorkerSaw'
    BY <1>f, <2>1, <2>4 DEF Roles, WorkerInv, AtStream, BindInv, WorkerSaw
  <2> QED BY <1>1, <2>2, <2>3, <2>5 DEF Roles
<1>8. ASSUME NEW t \in Targets, BindAnnounces(t) PROVE Roles'
  <2>1. /\ handler' = handler /\ worker' = worker
        /\ \/ announcer' = announcer
           \/ /\ ctl[t].dataChannel # 0
              /\ \A b \in Announcers \ {t} : announcer'[b] = announcer[b]
              /\ announcer'[t].at = "check" /\ announcer'[t].on = t
    BY <1>8, BindAnnouncesStep DEF Moves
  <2>2. AnnouncerInv'
    BY <1>f, <2>1 DEF Roles, AnnouncerInv, AtStream
  <2>3. BindInv'
    BY <1>f, <2>1, MemberUsers DEF Roles, BindInv
  <2>4. announcer'[Worker] = announcer[Worker] /\ announcer'[Handler] = announcer[Handler]
    BY <2>1, MemberUsers
  <2>5. HandlerInv' /\ WorkerInv' /\ WorkerSaw'
    BY <1>f, <2>1, <2>4 DEF Roles, HandlerInv, WorkerInv, AtStream, WorkerSaw
  <2> QED BY <1>1, <2>2, <2>3, <2>5 DEF Roles
<1> QED BY <1>2, <1>3, <1>4, <1>5, <1>6, <1>7, <1>8 DEF Running

LEMMA RolesNext ==
  ASSUME Types, Roles, Next
  PROVE  Roles'
BY NextCases, JoinRoles, ConnectionRoles, HandleDataRoles, MessageRoles, AnnounceRoles, RunningRoles

-----------------------------------------------------------------------------
(* What is going to be announced stays so, until it is.                    *)

LEMMA ConnectionLive ==
  ASSUME Types, NEW c \in Users, Connection(c)
  PROVE  Live' \subseteq Live
<1>1. CASE c = Source
  <2>1. ctl'[c].streams = ctl[c].streams \/ ctl'[c] = NewController
    BY ConnectionStep
  <2>2. Range(NewController.streams) = {}
    BY EmptyPartial DEF NewController
  <2> QED BY <1>1, <2>1, <2>2 DEF Live
<1>2. CASE c # Source
  BY <1>2, ConnectionStep, MemberUsers DEF Live
<1> QED BY <1>1, <1>2

LEMMA ConnectionWill ==
  ASSUME Types, NEW c \in Users, Connection(c), NEW t \in Targets, NEW s, NEW at
  PROVE  /\ HandlerWill(t, s, at) => HandlerWill(t, s, at)'
         /\ WorkerWill(t, s, at) => WorkerWill(t, s, at)'
         /\ WorkerComes(t) => WorkerComes(t)'
<1>1. handler' = handler /\ worker' = worker /\ announcer' = announcer
  BY ConnectionStep DEF announceVars
<1>2. Range(receiverCh) \subseteq Range(receiverCh')
  BY ConnectionStep
<1> QED BY <1>1, <1>2 DEF HandlerWill, WorkerWill, WorkerComes, Doing

LEMMA MessageWill ==
  ASSUME Types, Roles, NEW d \in Conns, P2PMessage(d), NEW t \in Targets, NEW s,
         NEW at \in {"pend", "register"}
  PROVE  /\ ~HandlerWill(t, s, at)
         /\ WorkerWill(t, s, at) => WorkerWill(t, s, at)'
<1>1. /\ worker' = worker /\ announcer' = announcer /\ receiverCh' = receiverCh
      /\ handler.at = "idle"
  BY MessageStep DEF MessageEffect
<1>2. announcer[Handler] = Idle
  BY <1>1 DEF Roles, HandlerInv
<1> QED BY <1>1, <1>2 DEF HandlerWill, WorkerWill, WorkerComes, Doing, Idle

LEMMA RunningWill ==
  ASSUME Types, Roles, Running, NEW t \in Targets, conn[t].pc # 0, NEW s \in Live,
         NEW at \in {"pend", "register"}
  PROVE  /\ HandlerWill(t, s, at) => HandlerWill(t, s, at)'
         /\ WorkerWill(t, s, at) => WorkerWill(t, s, at)'
<1>k. conn[t].known
  BY MemberUsers DEF Roles, ConnInv
<1>i. \A a \in Announcers : announcer[a].at = "idle" => announcer[a].todo = {}
  BY DEF Roles, AnnouncerInv, Idle
<1>2. CASE HandlerDone
  <2>1. /\ worker' = worker /\ announcer' = announcer /\ receiverCh' = receiverCh
        /\ handler.targets = {} /\ announcer[Handler].at = "idle"
    BY <1>2 DEF HandlerDone
  <2> QED BY <1>i, <2>1, MemberUsers DEF HandlerWill, WorkerWill, WorkerComes, Doing
<1>3. CASE WorkerTakes
  <2>1. /\ worker.at = "idle" /\ handler' = handler /\ announcer' = announcer
        /\ \E u \in Targets :
             /\ Range(receiverCh) = Range(receiverCh') \cup {u}
             /\ \/ conn[u].pc = 0 /\ worker'.at = "idle"
                \/ conn[u].pc # 0 /\ worker'.at = "wait" /\ worker'.on = u
    BY <1>3, WorkerTakesStep
  <2> QED BY <2>1 DEF HandlerWill, WorkerWill, WorkerComes, Doing
<1>4. CASE WorkerLocks
  <2>1. /\ worker.at = "wait"
        /\ worker'.at = "run" /\ worker'.on = worker.on /\ worker'.streams = Live
        /\ UNCHANGED <<handler, announcer, receiverCh>>
    BY <1>4, WorkerLocksStep
  <2> QED BY <2>1 DEF HandlerWill, WorkerWill, WorkerComes, Doing
<1>5. CASE WorkerDone
  <2>1. /\ handler' = handler /\ announcer' = announcer /\ receiverCh' = receiverCh
        /\ worker.at = "run" /\ worker.streams = {} /\ announcer[Worker].at = "idle"
    BY <1>5 DEF WorkerDone
  <2> QED BY <1>i, <2>1, MemberUsers DEF HandlerWill, WorkerWill, WorkerComes, Doing
<1>6. CASE WorkerAnnounces
  <2>1. PICK x \in worker.streams :
          /\ worker.at = "run" /\ announcer[Worker].at = "idle"
          /\ worker'.at = "run" /\ worker'.on = worker.on
          /\ handler' = handler /\ receiverCh' = receiverCh
          /\ worker'.streams = worker.streams \ {x}
          /\ \A b \in Announcers \ {Worker} : announcer'[b] = announcer[b]
          /\ announcer'[Worker].on = worker.on
          /\ announcer'[Worker].todo = {x}
    BY <1>6, WorkerAnnouncesStep DEF Moves
  <2>2. announcer'[Handler] = announcer[Handler]
    BY <2>1, MemberUsers
  <2> QED BY <1>i, <2>1, <2>2, MemberUsers DEF HandlerWill, WorkerWill, WorkerComes, Doing
<1>7. ASSUME NEW u \in Targets, AnnounceTo(u)
      PROVE  /\ HandlerWill(t, s, at) => HandlerWill(t, s, at)'
             /\ WorkerWill(t, s, at) => WorkerWill(t, s, at)'
  <2>1. /\ handler.at = "run" /\ announcer[Handler].at = "idle"
        /\ handler'.at = "run" /\ handler'.added = handler.added
        /\ handler'.targets = handler.targets \ {u}
        /\ worker' = worker /\ receiverCh' = receiverCh
        /\ \/ /\ conn[u].known
              /\ \A b \in Announcers \ {Handler} : announcer'[b] = announcer[b]
              /\ announcer'[Handler].on = u
              /\ announcer'[Handler].todo = handler.added
           \/ ~conn[u].known /\ announcer' = announcer
    BY <1>7, AnnounceToStep DEF Moves
  <2>2. announcer'[Worker] = announcer[Worker]
    BY <2>1, MemberUsers
  <2>3. WorkerWill(t, s, at) => WorkerWill(t, s, at)'
    BY <2>1, <2>2 DEF WorkerWill, WorkerComes, Doing
  <2>4. HandlerWill(t, s, at) => HandlerWill(t, s, at)'
    <3> SUFFICES ASSUME s \in handler.added, t \in handler.targets
                 PROVE  HandlerWill(t, s, at)'
      BY <1>i, <2>1, MemberUsers DEF HandlerWill, Doing
    <3>1. CASE t = u
      BY <1>k, <2>1, <3>1 DEF HandlerWill, Doing
    <3>2. CASE t # u
      BY <2>1, <3>2 DEF HandlerWill
    <3> QED BY <3>1, <3>2
  <2> QED BY <2>3, <2>4
<1>8. ASSUME NEW u \in Targets, BindAnnounces(u)
      PROVE  /\ HandlerWill(t, s, at) => HandlerWill(t, s, at)'
             /\ WorkerWill(t, s, at) => WorkerWill(t, s, at)'
  <2>1. /\ handler' = handler /\ worker' = worker /\ receiverCh' = receiverCh
        /\ \/ announcer' = announcer
           \/ \A b \in Announcers \ {u} : announcer'[b] = announcer[b]
    BY <1>8, BindAnnouncesStep DEF Moves
  <2>2. announcer'[Worker] = announcer[Worker] /\ announcer'[Handler] = announcer[Handler]
    BY <2>1, MemberUsers
  <2> QED BY <2>1, <2>2 DEF HandlerWill, WorkerWill, WorkerComes, Doing
<1> QED BY <1>2, <1>3, <1>4, <1>5, <1>6, <1>7, <1>8 DEF Running

(* A step of announceStreams that does not do it.                          *)
LEMMA AnnounceWill ==
  ASSUME Types, Roles, NEW a \in Announcers, Announce(a),
         NEW t \in Targets, conn[t].pc # 0, NEW s, NEW at \in {"pend", "register"},
         \/ at = "pend" /\ ctl[t].dataChannel = 0
         \/ at = "register" /\ CanSend(t),
         ~(announcer[a].at = at /\ announcer[a].on = t /\ announcer[a].stream = s)
  PROVE  /\ HandlerWill(t, s, at) => HandlerWill(t, s, at)'
         /\ WorkerWill(t, s, at) => WorkerWill(t, s, at)'
<1>f. handler' = handler /\ receiverCh' = receiverCh /\ announcer[a].at # "idle"
  BY AnnounceLive DEF Roles
<1>c. ctl[t].dataChannel = 0 <=> at = "pend"
  BY MemberUsers DEF CanSend
<1>1. Doing(a, t, s, at) => Doing(a, t, s, at)'
  <2> SUFFICES ASSUME announcer[a].on = t, s \in announcer[a].todo
               PROVE  Doing(a, t, s, at)'
    BY DEF Doing
  <2>1. CASE Check(a)
    BY <1>c, <2>1, CheckStep DEF Roles, Doing
  <2>2. CASE Pend(a)
    BY <2>2, PendStep DEF Roles, Doing
  <2>3. CASE Register(a)
    BY <2>3, RegisterStep DEF Roles, Doing
  <2>4. CASE Send(a)
    BY <2>4 DEF Send
  <2> QED BY <2>1, <2>2, <2>3, <2>4 DEF Announce
<1>m. \A b \in Announcers \ {a} : announcer'[b] = announcer[b]
  BY AnnounceMoves DEF Moves, Roles
<1>2. \A b \in Announcers : Doing(b, t, s, at) => Doing(b, t, s, at)'
  <2> SUFFICES ASSUME NEW b \in Announcers, b # a
               PROVE  Doing(b, t, s, at) => Doing(b, t, s, at)'
    BY <1>1
  <2> QED BY <1>m DEF Doing
<1>3. HandlerWill(t, s, at) => HandlerWill(t, s, at)'
  BY <1>f, <1>2, MemberUsers DEF HandlerWill
<1>4. WorkerWill(t, s, at) => WorkerWill(t, s, at)'
  <2>1. CASE worker' = worker
    BY <1>f, <1>2, <2>1, MemberUsers DEF WorkerWill, WorkerComes
  <2>2. CASE worker' # worker
    <3>1. a = Worker /\ Send(a)
      BY <2>2, MemberUsers DEF Announce, Check, Pend, Register, Send
    <3>2. worker.at = "run" /\ announcer[Worker].on = worker.on
      BY <1>f, <3>1 DEF Roles, WorkerInv, Idle
    <3>3. announcer[Worker].announce # {} /\ ~CanSend(worker.on)
      BY <2>2, <3>1, <3>2, SendStep DEF Roles
    <3>4. worker.on # t
      BY <3>2, <3>3 DEF Roles, WorkerSaw
    <3> QED BY <1>f, <3>2, <3>4 DEF WorkerWill, WorkerComes
  <2> QED BY <2>1, <2>2
<1> QED BY <1>3, <1>4

-----------------------------------------------------------------------------
(* All streams are pending where there is no data channel. *)

(* At most one stream of each id is live.                                  *)
LEMMA LiveIds ==
  ASSUME Types, NEW r \in Live, NEW s \in Live, r[2] = s[2]
  PROVE  r = s
<1>1. CtlOK(Source, ctl[Source])
  BY CtlTypeDef, MemberUsers DEF Types
<1>2. ASSUME NEW x \in Live PROVE x = ctl[Source].streams[x[2]]
  <2>1. PICK i \in DOMAIN ctl[Source].streams : ctl[Source].streams[i] = x
    BY <1>2, InRange DEF Live
  <2> QED BY <1>1, <2>1 DEF CtlOK
<1> QED BY <1>2

PendOK(t, s) == Pended(t, s) \/ HandlerWill(t, s, "pend") \/ WorkerWill(t, s, "pend")

LEMMA PendSame ==
  ASSUME PendInv, NEW t \in Targets, NEW s \in Live,
         conn[t].pc # 0, ctl[t].dataChannel = 0
  PROVE  PendOK(t, s)
BY DEF PendInv, PendOK

LEMMA PendConnection ==
  ASSUME Types, Roles, PendInv, NEW c \in Users, Connection(c),
         NEW t \in Targets, NEW s \in Live', conn'[t].pc # 0, ctl'[t].dataChannel = 0
  PROVE  PendOK(t, s)'
<1>1. s \in Live
  BY ConnectionLive
<1>2. CASE c = t /\ conn[t].pc = 0
  <2>1. t # Source /\ t \in Users
    BY MemberUsers
  <2>2. t \in Range(receiverCh')
    BY <1>2, <2>1, ConnectionStep DEF Roles, ConnInv
  <2> QED BY <2>2 DEF PendOK, WorkerWill, WorkerComes
<1>3. CASE conn[t].pc # 0 /\ ctl'[t] = ctl[t]
  <2>1. PendOK(t, s)
    BY <1>1, <1>3, PendSame
  <2> QED BY <1>3, <2>1, ConnectionWill DEF PendOK, Pended
<1>4. CASE c = t /\ conn[t].pc # 0 /\ ctl'[t] # ctl[t]
  BY <1>4, ConnectionStep
<1>5. CASE c # t
  BY <1>3, <1>5, ConnectionStep, MemberUsers
<1> QED BY <1>2, <1>3, <1>4, <1>5

LEMMA PendMessage ==
  ASSUME Types, Roles, PendInv, NEW d \in Conns, P2PMessage(d),
         NEW t \in Targets, NEW s \in Live', conn'[t].pc # 0, ctl'[t].dataChannel = 0
  PROVE  PendOK(t, s)'
<1>1. /\ conn' = conn /\ ctl'[t] = ctl[t]
      /\ \/ s \in Live
         \/ handler'.at = "run" /\ s \in handler'.added /\ handler'.targets = Targets
  BY MessageStep DEF MessageEffect
<1>2. CASE s \in Live
  <2>1. PendOK(t, s)
    BY <1>1, <1>2, PendSame
  <2> QED BY <1>1, <2>1, MessageWill DEF PendOK, Pended
<1>3. CASE s \notin Live
  BY <1>1, <1>3 DEF PendOK, HandlerWill
<1> QED BY <1>2, <1>3

LEMMA PendRunning ==
  ASSUME Types, Roles, PendInv, Running,
         NEW t \in Targets, NEW s \in Live', conn'[t].pc # 0, ctl'[t].dataChannel = 0
  PROVE  PendOK(t, s)'
<1>1. conn' = conn /\ ctl' = ctl /\ Live' = Live
  BY RunningFrame DEF Live
<1>2. PendOK(t, s)
  BY <1>1, PendSame
<1> QED BY <1>1, <1>2, RunningWill DEF PendOK, Pended

LEMMA PendAnnounce ==
  ASSUME Types, Roles, PendInv, NEW a \in Announcers, Announce(a),
         NEW t \in Targets, NEW s \in Live', conn'[t].pc # 0, ctl'[t].dataChannel = 0
  PROVE  PendOK(t, s)'
<1>1. /\ conn' = conn /\ ctl[t].dataChannel = 0 /\ Live' = Live
      /\ announcer[a].at # "idle" /\ announcer[a].on \in Targets
  BY AnnounceLive DEF Roles, AnnouncerInv
<1>2. PendOK(t, s)
  BY <1>1, PendSame
<1>3. CASE announcer[a].at = "pend" /\ announcer[a].on = t /\ announcer[a].stream = s
  <2>1. Pend(a)
    BY <1>3 DEF Announce, Check, Register, Send
  <2>2. PendedIn(ctl'[t], s)
    BY <1>3, <2>1, PendStep DEF Roles
  <2> QED BY <2>2 DEF PendOK, Pended
<1>4. CASE ~(announcer[a].at = "pend" /\ announcer[a].on = t /\ announcer[a].stream = s)
  <2>1. /\ HandlerWill(t, s, "pend") => HandlerWill(t, s, "pend")'
        /\ WorkerWill(t, s, "pend") => WorkerWill(t, s, "pend")'
    BY <1>1, <1>4, AnnounceWill
  <2>2. Pended(t, s) => Pended(t, s)'
    <3>1. CASE Pend(a) /\ announcer[a].on = t
      <4>1. a \in {Handler, Worker}
        BY <1>1, <3>1 DEF Roles, BindInv, Announcers
      <4>2. announcer[a].stream \in Live
        <5>1. announcer[a].at = "pend"
          BY <3>1 DEF Pend
        <5>2. a = Handler => handler.at = "run"
          BY <5>1 DEF Roles, HandlerInv, Idle, Types, AnnounceType
        <5>3. a = Worker => worker.at = "run"
          BY <5>1 DEF Roles, WorkerInv, Idle
        <5> QED BY <4>1, <5>1, <5>2, <5>3 DEF Roles, HandlerInv, WorkerInv, AtStream
      <4>3. announcer[a].stream # s /\ s \in DOMAIN rec
        BY <1>1, <1>4, <3>1, LivesRecorded DEF Pend
      <4>4. announcer[a].stream[2] # s[2]
        BY <1>1, <4>2, <4>3, LiveIds
      <4>5. PendedIn(ctl[t], s) => PendedIn(ctl'[t], s)
        BY <3>1, <4>3, <4>4, PendStep DEF Roles
      <4> QED BY <4>5 DEF Pended
    <3>2. CASE ctl'[t] = ctl[t]
      BY <3>2 DEF Pended
    <3>3. CASE Register(a) /\ announcer[a].on = t
      <4>1. ctl'[t].pending = ctl[t].pending
        BY <3>3, RegisterStep DEF Roles
      <4> QED BY <4>1 DEF Pended, PendedIn
    <3>4. CASE announcer[a].on # t
      <4>1. ctl'[t] = ctl[t]
        <5>1. CASE Pend(a)
          BY <3>4, <5>1, PendStep, MemberUsers DEF Roles, Sets
        <5>2. CASE Register(a)
          BY <3>4, <5>2, RegisterStep, MemberUsers DEF Roles, Sets
        <5> QED BY <5>1, <5>2 DEF Announce, Check, Send
      <4> QED BY <3>2, <4>1
    <3>5. Check(a) \/ Send(a) => ctl'[t] = ctl[t]
      BY DEF Check, Send
    <3> QED BY <3>1, <3>2, <3>3, <3>4, <3>5 DEF Announce
  <2> QED BY <1>2, <2>1, <2>2 DEF PendOK
<1> QED BY <1>3, <1>4

LEMMA PendNext ==
  ASSUME Types, Roles, PendInv, Next
  PROVE  PendInv'
<1> SUFFICES ASSUME NEW t \in Targets, conn'[t].pc # 0, ctl'[t].dataChannel = 0,
                    NEW s \in Live'
             PROVE  PendOK(t, s)'
  BY DEF PendInv, PendOK
<1>1. ASSUME NEW u \in Targets, Join(u) PROVE PendOK(t, s)'
  <2>1. conn'[t].pc = conn[t].pc
    <3>1. conn \in [Users -> Connected] /\ t \in Users
      BY MemberUsers DEF Types, CtlType
    <3>2. conn[t] \in Connected
      BY <3>1
    <3> QED BY <1>1, <3>1, <3>2 DEF Join, Connected
  <2>2. UNCHANGED <<ctl, handler, worker, announcer, receiverCh>>
    BY <1>1 DEF Join, announceVars
  <2>3. PendOK(t, s)
    BY <2>1, <2>2, PendSame DEF Live
  <2> QED BY <2>2, <2>3 DEF PendOK, Pended, HandlerWill, WorkerWill, WorkerComes, Doing
<1>2. ASSUME NEW d \in Conns, HandleData(d) PROVE PendOK(t, s)'
  <2>1. UNCHANGED <<conn, ctl, handler, worker, announcer, receiverCh>>
    BY <1>2 DEF HandleData, announceVars
  <2>2. PendOK(t, s)
    BY <2>1, PendSame DEF Live
  <2> QED BY <2>1, <2>2 DEF PendOK, Pended, HandlerWill, WorkerWill, WorkerComes, Doing
<1> QED BY <1>1, <1>2, NextCases, PendConnection, PendMessage, PendRunning, PendAnnounce

-----------------------------------------------------------------------------
(* What is to be told has a callback. *)

LEMMA AnnounceCallbacks ==
  ASSUME Types, Roles, NEW a \in Announcers, Announce(a), NEW t \in Targets
  PROVE  /\ DOMAIN ctl[t].callbacks \subseteq DOMAIN ctl'[t].callbacks
         /\ \A k \in DOMAIN ctl[t].callbacks : ctl'[t].callbacks[k] = ctl[t].callbacks[k]
         /\ WorkerComes(t) => WorkerComes(t)'
<1>0. announcer[a].at # "idle" /\ announcer[a].on \in Targets /\ receiverCh' = receiverCh
  BY AnnounceLive DEF Roles, AnnouncerInv
<1>1. worker' = worker \/ (a = Worker /\ worker.at = "run")
  BY <1>0, AnnounceMoves DEF Roles, WorkerInv, Idle
<1>2. WorkerComes(t) => WorkerComes(t)'
  BY <1>0, <1>1 DEF WorkerComes
<1>3. CASE Check(a) \/ Send(a)
  <2>1. ctl' = ctl
    BY <1>3 DEF Check, Send
  <2> QED BY <1>2, <2>1
<1>4. CASE Pend(a)
  <2>1. ctl'[t].callbacks = ctl[t].callbacks
    BY <1>0, <1>4, PendStep, MemberUsers DEF Roles, Sets
  <2> QED BY <1>2, <2>1
<1>5. CASE Register(a)
  <2>1. CASE announcer[a].on = t
    BY <1>2, <1>5, <2>1, RegisterStep DEF Roles
  <2>2. CASE announcer[a].on # t
    <3>1. ctl'[t] = ctl[t]
      BY <1>0, <1>5, <2>2, RegisterStep, MemberUsers DEF Roles, Sets
    <3> QED BY <1>2, <3>1
  <2> QED BY <2>1, <2>2
<1> QED BY <1>3, <1>4, <1>5 DEF Announce

AnnounceOK(a, t) ==
  \/ announcer[a].announce \subseteq DOMAIN ctl[t].callbacks
  \/ a \in {Handler, Worker} /\ conn[t].pc = 0
  \/ a = Handler /\ WorkerComes(t)

LEMMA AnnounceConnection ==
  ASSUME Types, Roles, AnnounceInv, NEW c \in Users, Connection(c),
         NEW a \in Announcers, NEW t \in Targets,
         announcer[a].at # "idle", announcer[a].on = t
  PROVE  AnnounceOK(a, t)'
<1>1. announcer' = announcer /\ AnnounceOK(a, t) /\ (WorkerComes(t) => WorkerComes(t)')
  BY ConnectionStep, ConnectionWill DEF announceVars, AnnounceInv, AnnounceOK
<1>2. CASE c # t
  <2>1. conn'[t] = conn[t] /\ ctl'[t] = ctl[t]
    BY <1>2, ConnectionStep, MemberUsers
  <2> QED BY <1>1, <2>1 DEF AnnounceOK
<1>3. CASE c = t
  <2>1. a = t \/ a \in {Handler, Worker}
    BY DEF Roles, BindInv, Announcers
  <2>2. a = t => ~P2PFree(t)
    BY MemberUsers DEF P2PFree
  <2>3. a = Worker => ~RecordFree(t)
    BY MemberUsers DEF RecordFree, Roles, WorkerInv, Idle
  <2>4. a = Handler /\ conn[t].pc = 0 /\ conn'[t].pc # 0 => WorkerComes(t)'
    BY <1>3, MemberUsers, ConnectionStep DEF WorkerComes, Roles, ConnInv
  <2>5. \/ /\ conn[t].pc = 0 /\ conn'[t].pc # 0 /\ RecordFree(t)
           /\ ctl'[t].callbacks = ctl[t].callbacks
        \/ conn'[t].pc = conn[t].pc /\ ctl'[t].callbacks = ctl[t].callbacks
        \/ conn'[t].pc = 0 /\ ctl' = ctl
        \/ conn'[t].pc = 0 /\ P2PFree(t)
    <3>1. \/ /\ conn[c].pc = 0 /\ conn'[c].pc # 0 /\ RecordFree(c)
             /\ ctl'[c].callbacks = ctl[c].callbacks
          \/ conn' = conn /\ ctl'[c].callbacks = ctl[c].callbacks
          \/ conn'[c].pc = conn[c].pc /\ ctl' = ctl
          \/ conn'[c].pc = 0 /\ ctl' = ctl
          \/ conn'[c].pc = 0 /\ P2PFree(c)
      BY ConnectionStep
    <3> QED BY <1>3, <3>1
  <2> QED BY <1>1, <2>1, <2>2, <2>3, <2>4, <2>5 DEF AnnounceOK
<1> QED BY <1>2, <1>3

LEMMA AnnounceAnnounce ==
  ASSUME Types, Roles, AnnounceInv, NEW b \in Announcers, Announce(b),
         NEW a \in Announcers, NEW t \in Targets,
         announcer'[a].at # "idle", announcer'[a].on = t
  PROVE  AnnounceOK(a, t)'
<1>1. conn' = conn /\ (WorkerComes(t) => WorkerComes(t)')
      /\ DOMAIN ctl[t].callbacks \subseteq DOMAIN ctl'[t].callbacks
  BY AnnounceLive, AnnounceCallbacks DEF Roles
<1>2. /\ \A d \in Announcers \ {b} : announcer'[d] = announcer[d]
      /\ announcer'[b].at # "idle" => announcer'[b].on = announcer[b].on
      /\ announcer[b].at # "idle"
  BY AnnounceMoves, AnnounceLive DEF Roles, Moves
<1>3. AnnounceOK(a, t)
  BY <1>2 DEF AnnounceInv, AnnounceOK
<1>4. announcer'[a].announce \subseteq announcer[a].announce \cup DOMAIN ctl'[t].callbacks
  <2>1. CASE a # b
    BY <1>2, <2>1
  <2>2. CASE a = b /\ Check(a)
    BY <2>2, CheckStep DEF Roles
  <2>3. CASE a = b /\ Pend(a)
    BY <2>3, PendStep DEF Roles
  <2>4. CASE a = b /\ Register(a)
    <3>1. announcer[a].on = t
      BY <1>2, <2>4
    <3>2. announcer'[a].announce \subseteq announcer[a].announce \cup {rec[announcer[a].stream].token}
      BY <2>4, RegisterStep DEF Roles
    <3>3. rec[announcer[a].stream].token \in DOMAIN ctl'[t].callbacks
      BY <2>4, <3>1, RegisterStep DEF Roles
    <3> QED BY <3>2, <3>3
  <2>5. CASE a = b /\ Send(a)
    <3>1. announcer'[a] = Idle
      BY <2>5, SendStep DEF Roles, Moves
    <3> QED BY <3>1 DEF Idle
  <2> QED BY <2>1, <2>2, <2>3, <2>4, <2>5 DEF Announce
<1> QED BY <1>1, <1>3, <1>4 DEF AnnounceOK

(* In the other steps an announcer stays as it is, or had nothing to do.   *)
LEMMA RunningMoves ==
  ASSUME Types, Roles, Running, NEW a \in Announcers
  PROVE  \/ announcer'[a] = announcer[a]
         \/ announcer[a] = Idle /\ announcer'[a].announce = {}
<1>1. CASE announcer' = announcer
  BY <1>1
<1>i. announcer[a].at = "idle" => announcer[a] = Idle
  BY DEF Roles, AnnouncerInv
<1>2. CASE WorkerAnnounces
  BY <1>i, <1>2, WorkerAnnouncesStep DEF Moves
<1>3. ASSUME NEW t \in Targets, AnnounceTo(t)
      PROVE  \/ announcer'[a] = announcer[a]
             \/ announcer[a] = Idle /\ announcer'[a].announce = {}
  BY <1>i, <1>3, AnnounceToStep DEF Moves
<1>4. ASSUME NEW t \in Targets, BindAnnounces(t)
      PROVE  \/ announcer'[a] = announcer[a]
             \/ announcer[a] = Idle /\ announcer'[a].announce = {}
  BY <1>i, <1>4, BindAnnouncesStep DEF Moves
<1> QED BY <1>1, <1>2, <1>3, <1>4 DEF Running, HandlerDone, WorkerTakes, WorkerLocks, WorkerDone

LEMMA AnnounceNext ==
  ASSUME Types, Roles, AnnounceInv, Next
  PROVE  AnnounceInv'
<1> SUFFICES ASSUME NEW a \in Announcers, NEW t \in Targets,
                    announcer'[a].at # "idle", announcer'[a].on = t
             PROVE  AnnounceOK(a, t)'
  BY DEF AnnounceInv, AnnounceOK
<1>1. ASSUME NEW u \in Targets, Join(u) PROVE AnnounceOK(a, t)'
  <2>1. conn'[t].pc = conn[t].pc
    <3>1. conn \in [Users -> Connected] /\ t \in Users
      BY MemberUsers DEF Types, CtlType
    <3>2. conn[t] \in Connected
      BY <3>1
    <3> QED BY <1>1, <3>1, <3>2 DEF Join, Connected
  <2>2. UNCHANGED <<ctl, worker, announcer, receiverCh>>
    BY <1>1 DEF Join, announceVars
  <2> QED BY <2>1, <2>2 DEF AnnounceInv, AnnounceOK, WorkerComes
<1>2. ASSUME NEW d \in Conns, HandleData(d) PROVE AnnounceOK(a, t)'
  <2>1. UNCHANGED <<conn, ctl, worker, announcer, receiverCh>>
    BY <1>2 DEF HandleData, announceVars
  <2> QED BY <2>1 DEF AnnounceInv, AnnounceOK, WorkerComes
<1>3. ASSUME NEW d \in Conns, P2PMessage(d) PROVE AnnounceOK(a, t)'
  <2>1. UNCHANGED <<conn, worker, announcer, receiverCh>> /\ ctl'[t] = ctl[t]
    BY <1>3, MessageStep DEF MessageEffect
  <2> QED BY <2>1 DEF AnnounceInv, AnnounceOK, WorkerComes
<1>4. ASSUME NEW c \in Users, Connection(c) PROVE AnnounceOK(a, t)'
  <2>1. announcer' = announcer
    BY <1>4, ConnectionStep DEF announceVars
  <2> QED BY <1>4, <2>1, AnnounceConnection
<1>5. CASE Running
  <2>1. conn' = conn /\ ctl' = ctl
    BY <1>5, RunningFrame
  <2>2. CASE announcer[a] = Idle /\ announcer'[a].announce = {}
    BY <2>2 DEF AnnounceOK
  <2>3. CASE announcer'[a] = announcer[a]
    <3>1. AnnounceOK(a, t)
      BY <2>3 DEF AnnounceInv, AnnounceOK
    <3>2. a = Handler /\ WorkerComes(t) /\ conn[t].pc # 0 => WorkerComes(t)'
      <4> SUFFICES ASSUME a = Handler, WorkerComes(t), conn[t].pc # 0 PROVE WorkerComes(t)'
        OBVIOUS
      <4>1. handler.at # "idle"
        BY <2>3 DEF Roles, HandlerInv, Idle
      <4>2. CASE WorkerTakes
        BY <4>2, WorkerTakesStep DEF WorkerComes
      <4>3. CASE worker' = worker /\ receiverCh' = receiverCh
        BY <4>3 DEF WorkerComes
      <4>4. CASE WorkerAnnounces \/ WorkerDone
        BY <4>4 DEF WorkerAnnounces, WorkerDone, WorkerComes
      <4> QED BY <1>5, <4>1, <4>2, <4>3, <4>4
              DEF Running, HandlerDone, WorkerLocks, AnnounceTo, BindAnnounces
    <3> QED BY <2>1, <2>3, <3>1, <3>2 DEF AnnounceOK
  <2> QED BY <1>5, <2>2, <2>3, RunningMoves
<1> QED BY <1>1, <1>2, <1>3, <1>4, <1>5, NextCases, AnnounceAnnounce

-----------------------------------------------------------------------------
(* An open target is told. *)

RegisterOK(t, s) ==
  /\ rec[s].token \in told[t] =>
       Registered(t, s) \/ HandlerWill(t, s, "register") \/ WorkerWill(t, s, "register")
  /\ s[1] > since[t] => Registered(t, s) \/ HandlerWill(t, s, "register")

Told(t, k) ==
  k \in told[t] \/ \E a \in Announcers : announcer[a].on = t /\ k \in announcer[a].announce

ToldOK(t, s) ==
  /\ s[1] > since[t]
  /\ Registered(t, s) /\ ctl[t].callbacks[rec[s].token].source = s
  => Told(t, rec[s].token)

Served == RegisterInv /\ ToldInv

LEMMA ServedSame ==
  ASSUME Served, NEW t \in Targets, NEW s \in Live, CanSend(t), rec[s].linked
  PROVE  RegisterOK(t, s) /\ ToldOK(t, s)
BY DEF Served, RegisterInv, ToldInv, RegisterOK, ToldOK, Told

LEMMA CanSendConnected ==
  ASSUME Roles, NEW t \in Targets, CanSend(t)
  PROVE  conn[t].pc # 0 /\ ctl[t].dataChannel = conn[t].pc
BY MemberUsers DEF Roles, ConnInv, CanSend

LEMMA ServedConnection ==
  ASSUME Types, Roles, Served, NEW c \in Users, Connection(c),
         NEW t \in Targets, NEW s \in Live', CanSend(t)', rec'[s].linked
  PROVE  (RegisterOK(t, s) /\ ToldOK(t, s))'
<1>1. s \in Live /\ rec' = rec /\ lists' = lists /\ announcer' = announcer
  BY ConnectionLive, ConnectionStep DEF sourceVars, announceVars
<1>c. CanSend(t) <=> conn[t].open # 0 /\ ctl[t].dataChannel = conn[t].open
  BY DEF CanSend
<1>d. conn'[t].open # 0 /\ ctl'[t].dataChannel = conn'[t].open
  BY DEF CanSend
<1>2. CASE c # t
  <2>1. conn'[t] = conn[t] /\ ctl'[t] = ctl[t] /\ told'[t] = told[t] /\ since'[t] = since[t]
    BY <1>2, ConnectionStep, MemberUsers DEF historyVars
  <2>2. RegisterOK(t, s) /\ ToldOK(t, s)
    BY <1>1, <1>c, <1>d, <2>1, ServedSame
  <2> QED BY <1>1, <2>1, <2>2, ConnectionWill DEF RegisterOK, ToldOK, Told, Registered
<1>3. CASE c = t
  <2>1. conn[t].open \in {0, conn[t].pc}
        /\ (conn[t].open # 0 => ctl[t].dataChannel = conn[t].open)
    BY MemberUsers DEF Roles, ConnInv
  <2>2. told'[t] = {} /\ since'[t] = lists
    <3>1. \/ conn[c].pc = 0 /\ conn'[c].open = conn[c].open
          \/ conn[c].pc # 0 /\ ctl[c].dataChannel # conn[c].pc /\ conn' = conn
          \/ c # Source => told'[c] = {} /\ since'[c] = lists
          \/ conn'[c].open = 0
      BY ConnectionStep
    <3>2. t # Source
      BY MemberUsers
    <3> QED BY <1>3, <1>d, <2>1, <3>1, <3>2
  <2>3. s[1] <= lists /\ s[1] \in Nat /\ lists \in Nat
    BY <1>1, LivesRecorded DEF Types, RecType, Records
  <2>4. ~(s[1] > since'[t])
    BY <2>2, <2>3
  <2> QED BY <2>2, <2>4 DEF RegisterOK, ToldOK
<1> QED BY <1>2, <1>3

LEMMA LivesTyped == Types => \A x \in Live : x \in Records
BY LivesRecorded

LEMMA ServedMessage ==
  ASSUME Types, Roles, Served, NEW d \in Conns, P2PMessage(d),
         NEW t \in Targets, NEW s \in Live', CanSend(t)', rec'[s].linked
  PROVE  (RegisterOK(t, s) /\ ToldOK(t, s))'
<1>1. /\ conn' = conn /\ ctl'[t] = ctl[t] /\ announcer' = announcer
      /\ told' = told /\ since' = since
      /\ \A r \in DOMAIN rec : rec'[r] = rec[r] \/ ~rec'[r].linked
      /\ \/ s \in Live
         \/ /\ s \notin DOMAIN rec
            /\ handler'.at = "run" /\ s \in handler'.added /\ handler'.targets = Targets
  BY MessageStep DEF MessageEffect, historyVars
<1>2. CASE s \in Live
  <2>1. rec'[s] = rec[s]
    BY <1>1, <1>2, LivesRecorded
  <2>2. CanSend(t)
    BY <1>1 DEF CanSend
  <2>3. RegisterOK(t, s) /\ ToldOK(t, s)
    BY <1>2, <2>1, <2>2, ServedSame
  <2> QED BY <1>1, <2>1, <2>3, MessageWill DEF RegisterOK, ToldOK, Told, Registered
<1>3. CASE s \notin Live
  <2>1. HandlerWill(t, s, "register")'
    BY <1>1, <1>3 DEF HandlerWill
  <2>2. s \notin DOMAIN rec \cup {None}
    <3>1. Types'
      BY MessageStep
    <3>2. Types' => s \in Records
      <4>1. (Types => \A x \in Live : x \in Records)'
        BY LivesTyped, PTL
      <4> QED BY <4>1
    <3> QED BY <1>1, <1>3, <3>1, <3>2, P2PAssumption
  <2>3. \A k \in DOMAIN ctl'[t].callbacks : ctl'[t].callbacks[k].source # s
    BY <1>1, <2>2 DEF Types, CtlType
  <2> QED BY <2>1, <2>3 DEF RegisterOK, ToldOK, Registered
<1> QED BY <1>2, <1>3

LEMMA ServedRunning ==
  ASSUME Types, Roles, Served, Running,
         NEW t \in Targets, NEW s \in Live', CanSend(t)', rec'[s].linked
  PROVE  (RegisterOK(t, s) /\ ToldOK(t, s))'
<1>1. /\ conn' = conn /\ ctl' = ctl /\ rec' = rec /\ told' = told /\ since' = since
      /\ Live' = Live
  BY RunningFrame DEF sourceVars, historyVars, Live
<1>2. CanSend(t) /\ RegisterOK(t, s) /\ ToldOK(t, s)
  BY <1>1, ServedSame DEF CanSend
<1>3. conn[t].pc # 0
  BY <1>2, CanSendConnected
<1>4. RegisterOK(t, s)'
  BY <1>1, <1>2, <1>3, RunningWill DEF RegisterOK, Registered
<1>5. Told(t, rec[s].token) => Told(t, rec[s].token)'
  <2> SUFFICES ASSUME NEW a \in Announcers, announcer[a].on = t, rec[s].token \in announcer[a].announce
               PROVE  Told(t, rec[s].token)'
    BY <1>1 DEF Told
  <2>1. announcer'[a] = announcer[a]
    BY RunningMoves DEF Idle
  <2> QED BY <1>1, <2>1 DEF Told
<1>6. ToldOK(t, s)'
  BY <1>1, <1>2, <1>5 DEF ToldOK, Registered
<1> QED BY <1>4, <1>6

LEMMA ServedAnnounce ==
  ASSUME Types, Roles, AnnounceInv, Served, NEW a \in Announcers, Announce(a),
         NEW t \in Targets, NEW s \in Live', CanSend(t)', rec'[s].linked
  PROVE  (RegisterOK(t, s) /\ ToldOK(t, s))'
<1> DEFINE k == rec[s].token
<1>1. /\ conn' = conn /\ rec' = rec /\ since' = since /\ Live' = Live
      /\ ctl'[t].dataChannel = ctl[t].dataChannel
      /\ announcer[a].at # "idle" /\ announcer[a].on \in Targets
  BY AnnounceLive DEF Roles, AnnouncerInv, sourceVars
<1>2. CanSend(t) /\ RegisterOK(t, s) /\ ToldOK(t, s)
  BY <1>1, ServedSame DEF CanSend
<1>3. conn[t].pc # 0
  BY <1>2, CanSendConnected
<1>c. /\ DOMAIN ctl[t].callbacks \subseteq DOMAIN ctl'[t].callbacks
      /\ \A x \in DOMAIN ctl[t].callbacks : ctl'[t].callbacks[x] = ctl[t].callbacks[x]
      /\ WorkerComes(t) => WorkerComes(t)'
  BY AnnounceCallbacks
<1>m. \A b \in Announcers \ {a} : announcer'[b] = announcer[b]
  BY AnnounceMoves DEF Roles, Moves
<1>t. \/ told'[t] = told[t]
      \/ /\ announcer[a].on = t /\ Send(a) /\ worker' = worker
         /\ told'[t] = told[t] \cup announcer[a].announce
  <2>1. CASE Send(a)
    BY <1>1, <1>2, <2>1, SendStep DEF Roles
  <2>2. CASE ~Send(a)
    BY <2>2 DEF Announce, Check, Pend, Register, historyVars
  <2> QED BY <2>1, <2>2
<1>r. Registered(t, s) => Registered(t, s)'
  BY <1>1, <1>c DEF Registered
<1>4. RegisterOK(t, s)'
  <2>1. CASE announcer[a].at = "register" /\ announcer[a].on = t /\ announcer[a].stream = s
    <3>1. Register(a)
      BY <2>1 DEF Announce, Check, Pend, Send
    <3>2. Registered(t, s)'
      BY <1>1, <2>1, <3>1, RegisterStep DEF Roles, Registered
    <3> QED BY <3>2 DEF RegisterOK
  <2>2. CASE ~(announcer[a].at = "register" /\ announcer[a].on = t /\ announcer[a].stream = s)
    <3>1. /\ HandlerWill(t, s, "register") => HandlerWill(t, s, "register")'
          /\ WorkerWill(t, s, "register") => WorkerWill(t, s, "register")'
      BY <1>2, <1>3, <2>2, AnnounceWill
    <3>2. k \in told'[t] \ told[t] => Registered(t, s) \/ WorkerWill(t, s, "register")'
      <4> SUFFICES ASSUME announcer[a].on = t, k \in announcer[a].announce, k \notin DOMAIN ctl[t].callbacks
                   PROVE  WorkerWill(t, s, "register")'
        BY <1>t DEF Registered
      <4>1. a = Handler /\ WorkerComes(t)
        BY <1>1, <1>3 DEF AnnounceInv
      <4> QED BY <1>c, <4>1 DEF WorkerWill
    <3> QED BY <1>1, <1>2, <1>r, <3>1, <3>2 DEF RegisterOK
  <2> QED BY <2>1, <2>2
<1>5. Told(t, k) => Told(t, k)'
  <2>1. CASE k \in told[t]
    BY <1>1, <1>t, <2>1 DEF Told
  <2>2. ASSUME NEW b \in Announcers, announcer[b].on = t, k \in announcer[b].announce
        PROVE  Told(t, k)'
    <3>1. CASE b # a
      BY <1>1, <1>m, <2>2, <3>1 DEF Told
    <3>2. CASE b = a /\ Send(a)
      <4>1. k \in told'[t]
        BY <1>2, <2>2, <3>2, SendStep DEF Roles
      <4> QED BY <1>1, <4>1 DEF Told
    <3>3. CASE b = a /\ ~Send(a)
      <4>1. announcer'[a].on = t /\ k \in announcer'[a].announce
        <5>1. CASE Check(a)
          BY <2>2, <3>3, <5>1, CheckStep DEF Roles
        <5>2. CASE Pend(a)
          BY <2>2, <3>3, <5>2, PendStep DEF Roles
        <5>3. CASE Register(a)
          BY <2>2, <3>3, <5>3, RegisterStep DEF Roles
        <5> QED BY <3>3, <5>1, <5>2, <5>3 DEF Announce
      <4> QED BY <1>1, <4>1 DEF Told
    <3> QED BY <3>1, <3>2, <3>3
  <2> QED BY <2>1, <2>2 DEF Told
<1>6. ToldOK(t, s)'
  <2> SUFFICES ASSUME s[1] > since[t], Registered(t, s)', ctl'[t].callbacks[k].source = s
               PROVE  Told(t, k)'
    BY <1>1 DEF ToldOK
  <2>1. CASE Registered(t, s)
    <3>1. ctl'[t].callbacks[k] = ctl[t].callbacks[k]
      BY <1>c, <2>1 DEF Registered
    <3> QED BY <1>2, <1>5, <2>1, <3>1 DEF ToldOK
  <2>2. CASE ~Registered(t, s)
    <3>1. k \notin DOMAIN ctl[t].callbacks /\ k \in DOMAIN ctl'[t].callbacks
      BY <1>1, <2>2 DEF Registered
    <3>2. announcer[a].on = t /\ Register(a)
      <4>1. CASE Check(a) \/ Send(a)
        BY <3>1, <4>1 DEF Check, Send
      <4>2. CASE Pend(a)
        BY <1>1, <3>1, <4>2, PendStep, MemberUsers DEF Roles, Sets
      <4>3. CASE Register(a)
        BY <1>1, <3>1, <4>3, RegisterStep, MemberUsers DEF Roles, Sets
      <4> QED BY <4>1, <4>2, <4>3 DEF Announce
    <3>3. announcer'[a].on = t /\ k \in announcer'[a].announce
      BY <3>1, <3>2, RegisterStep DEF Roles
    <3> QED BY <1>1, <3>3 DEF Told
  <2> QED BY <2>1, <2>2
<1> QED BY <1>4, <1>6

LEMMA ServedNext ==
  ASSUME Types, Roles, AnnounceInv, Served, Next
  PROVE  Served'
<1> SUFFICES ASSUME NEW t \in Targets, NEW s \in Live', CanSend(t)', rec'[s].linked
             PROVE  (RegisterOK(t, s) /\ ToldOK(t, s))'
  BY DEF Served, RegisterInv, ToldInv, RegisterOK, ToldOK, Told
<1>1. ASSUME NEW u \in Targets, Join(u) PROVE (RegisterOK(t, s) /\ ToldOK(t, s))'
  <2>1. conn'[t].open = conn[t].open
    <3>1. conn \in [Users -> Connected] /\ t \in Users
      BY MemberUsers DEF Types, CtlType
    <3>2. conn[t] \in Connected
      BY <3>1
    <3> QED BY <1>1, <3>1, <3>2 DEF Join, Connected
  <2>2. UNCHANGED <<ctl, rec, told, since, handler, worker, announcer, receiverCh>>
    BY <1>1 DEF Join, sourceVars, announceVars, historyVars
  <2>3. RegisterOK(t, s) /\ ToldOK(t, s)
    BY <2>1, <2>2, ServedSame DEF Live, CanSend
  <2> QED BY <2>2, <2>3 DEF RegisterOK, ToldOK, Told, Registered, HandlerWill, WorkerWill,
                             WorkerComes, Doing
<1>2. ASSUME NEW d \in Conns, HandleData(d) PROVE (RegisterOK(t, s) /\ ToldOK(t, s))'
  <2>1. UNCHANGED <<conn, ctl, rec, told, since, handler, worker, announcer, receiverCh>>
    BY <1>2 DEF HandleData, announceVars, historyVars
  <2>2. RegisterOK(t, s) /\ ToldOK(t, s)
    BY <2>1, ServedSame DEF Live, CanSend
  <2> QED BY <2>1, <2>2 DEF RegisterOK, ToldOK, Told, Registered, HandlerWill, WorkerWill,
                             WorkerComes, Doing
<1> QED BY <1>1, <1>2, NextCases, ServedConnection, ServedMessage, ServedRunning, ServedAnnounce

-----------------------------------------------------------------------------
(* The theorems. *)

LEMMA InvDef == Inv <=> Types /\ Roles /\ PendInv /\ AnnounceInv /\ Served
BY DEF Inv, Served

LEMMA InitInv == Init => Inv
<1> SUFFICES ASSUME Init PROVE Inv
  OBVIOUS
<1>1. Types /\ Roles
  BY InitTypes, InitRoles
<1>2. /\ \A c \in Users : conn[c].pc = 0 /\ conn[c].open = 0
      /\ \A a \in Announcers : announcer[a].at = "idle"
  BY DEF Init, Idle
<1>3. PendInv /\ AnnounceInv
  BY <1>2, MemberUsers DEF PendInv, AnnounceInv
<1>4. Served
  BY <1>2, MemberUsers DEF Served, RegisterInv, ToldInv, CanSend
<1> QED BY <1>1, <1>3, <1>4, InvDef

LEMMA InvNext == Inv /\ [Next]_vars => Inv'
<1>1. CASE Next
  BY <1>1, InvDef, TypesNext, RolesNext, PendNext, AnnounceNext, ServedNext, PTL
<1>2. CASE UNCHANGED vars
  <2> SUFFICES ASSUME Inv PROVE Inv'
    BY <1>2
  <2> QED BY <1>2 DEF vars, sourceVars, announceVars, historyVars, Inv, Types, CtlType, RecType,
       AnnounceType, Announcing, Roles, ConnInv, AnnouncerInv, AtStream, HandlerInv, WorkerInv,
       BindInv, WorkerSaw, PendInv, AnnounceInv, RegisterInv, ToldInv, Live, Pended,
       HandlerWill, WorkerWill, WorkerComes, Doing, Registered, CanSend
<1> QED BY <1>1, <1>2

LEMMA InvTypes ==
  ASSUME Types
  PROVE  TypeOK
<1>1. /\ conn \in [Users -> Connected]
      /\ \A c \in Users :
           /\ DOMAIN ctl[c] = {"dataChannel", "handshake", "streams", "pending", "callbacks"}
           /\ ctl[c].dataChannel \in {0} \cup Conns /\ ctl[c].handshake \in BOOLEAN
           /\ ctl[c].callbacks \in PartialFunctions(Tokens, P2PRecord)
           /\ \A f \in {ctl[c].streams, ctl[c].pending} : \A id \in DOMAIN f :
                f[id] \in DOMAIN rec /\ f[id][2] = id
  <2> SUFFICES ASSUME NEW c \in Users
               PROVE  /\ DOMAIN ctl[c] = {"dataChannel", "handshake", "streams", "pending", "callbacks"}
                      /\ ctl[c].dataChannel \in {0} \cup Conns /\ ctl[c].handshake \in BOOLEAN
                      /\ ctl[c].callbacks \in PartialFunctions(Tokens, P2PRecord)
    BY DEF Types, CtlType
  <2>1. ctl[c] \in Controller
    BY DEF Types, CtlType
  <2> QED BY <2>1 DEF Controller
<1>2. ASSUME NEW c \in Users, NEW k \in DOMAIN ctl[c].callbacks
      PROVE  k \in Tokens /\ ctl[c].callbacks[k] \in P2PRecord
  BY <1>1, PartialDef
<1>3. DOMAIN rec \subseteq Records /\ checked \subseteq Conns
      /\ \A r \in DOMAIN rec : rec[r] \in StreamRecord
  BY DEF Types, RecType
<1>4. heard \in 0..MaxMessages /\ lists \in 0..heard
  <2>1. Cardinality(checked) \in Nat
    BY FS_CardinalityType DEF Types, RecType
  <2> QED BY <2>1, P2PAssumption DEF Types, RecType
<1>5. \A t \in Targets : \A b \in binds[t] : b.dataChannel \in Conns /\ b.added \subseteq DOMAIN rec
  <2> SUFFICES ASSUME NEW t \in Targets, NEW b \in binds[t]
               PROVE  b.dataChannel \in Conns /\ b.added \subseteq DOMAIN rec
    OBVIOUS
  <2>1. b \in [dataChannel : Conns, added : SUBSET DOMAIN rec]
    BY DEF Types, AnnounceType
  <2> QED BY <2>1
<1>6. \A a \in Announcers : announcer[a] \in Announcing
  BY DEF Types, AnnounceType
<1> QED BY <1>1, <1>2, <1>3, <1>4, <1>5, <1>6
        DEF TypeOK, Types, AnnounceType, Connected, StreamRecord, Announcing

(* Where nobody is about to announce to a target, nothing is left to do.   *)
LEMMA NobodyWill ==
  ASSUME Roles, NEW t \in Targets, Quiet(t), NEW s, NEW at \in {"pend", "register"}
  PROVE  ~HandlerWill(t, s, at) /\ ~WorkerWill(t, s, at)
<1>1. announcer[Handler].todo = {} /\ announcer[Handler].at # at
  BY DEF Roles, HandlerInv, Quiet, Idle
<1> QED BY <1>1 DEF HandlerWill, WorkerWill, WorkerComes, Doing, Quiet

LEMMA NobodyTells ==
  ASSUME Roles, NEW t \in Targets, Quiet(t), NEW a \in Announcers, announcer[a].on = t
  PROVE  announcer[a].announce = {}
<1>1. CASE announcer[a].at = "idle"
  BY <1>1 DEF Roles, AnnouncerInv, Idle
<1>2. CASE announcer[a].at # "idle"
  <2>1. a # Handler /\ a # Worker
    BY <1>2 DEF Roles, HandlerInv, WorkerInv, Quiet, Idle
  <2>2. a = t
    BY <1>2, <2>1 DEF Roles, BindInv, Announcers
  <2> QED BY <1>2, <2>2 DEF Quiet
<1> QED BY <1>1, <1>2

(* The inductive invariant: the roles of those who announce streams to the *)
(* targets (announceStreams, p2controller.go), and what they have yet to   *)
(* do while a property about the targets does not hold.                    *)
THEOREM Invariant == Spec => []Inv
<1> QED BY InitInv, InvNext, PTL DEF Spec

(* The state has the types of the code's: controllers keep stream records  *)
(* of the source by id and callbacks by token, and no more lists are       *)
(* handled than messages were received.                                    *)
THEOREM TypeCorrect == Spec => []TypeOK
<1>1. Inv => TypeOK
  BY InvTypes DEF Inv
<1> QED BY <1>1, Invariant, PTL

(* While the connection of a target waits for its data channel, all        *)
(* streams that the source has are pending there, unless somebody is about *)
(* to announce to it: bind, which takes what is pending, misses none.      *)
THEOREM WaitingKeepsAll == Spec => []WaitingPended
<1>1. Inv => WaitingPended
  <2> SUFFICES ASSUME Inv, NEW t \in Targets, Quiet(t), conn[t].pc # 0, ctl[t].dataChannel = 0,
                      NEW s \in Live
               PROVE  Pended(t, s)
    BY DEF WaitingPended, Live, Pended, PendedIn
  <2>1. \/ Pended(t, s) \/ HandlerWill(t, s, "pend") \/ WorkerWill(t, s, "pend")
    BY DEF Inv, PendInv
  <2> QED BY <2>1, NobodyWill DEF Inv
<1> QED BY <1>1, Invariant, PTL

(* A target on an open data channel was told of each stream announced      *)
(* since, and has the callback for each stream it was told of that has     *)
(* kept its connection, whichever of the handler, the receiver worker and  *)
(* bind announced and whatever resets came between (announceStreams,       *)
(* p2controller.go).                                                       *)
THEOREM OpenTargetsServed == Spec => []OpenIsServed
<1>1. Inv => OpenIsServed
  <2> SUFFICES ASSUME Inv, NEW t \in Targets, Quiet(t), CanSend(t), NEW s \in Live, rec[s].linked
               PROVE  /\ rec[s].token \in told[t] => Registered(t, s)
                      /\ s[1] > since[t] =>
                           /\ Registered(t, s)
                           /\ ctl[t].callbacks[rec[s].token].source = s => rec[s].token \in told[t]
    BY DEF OpenIsServed, Live, Registered
  <2>1. ~HandlerWill(t, s, "register") /\ ~WorkerWill(t, s, "register")
    BY NobodyWill DEF Inv
  <2>2. ASSUME NEW a \in Announcers, announcer[a].on = t PROVE announcer[a].announce = {}
    BY <2>2, NobodyTells DEF Inv
  <2>3. RegisterOK(t, s) /\ ToldOK(t, s)
    BY ServedSame, InvDef
  <2> QED BY <2>1, <2>2, <2>3 DEF RegisterOK, ToldOK, Told
<1> QED BY <1>1, Invariant, PTL
=============================================================================
