-------------------------------- MODULE P2P --------------------------------
(***************************************************************************)
(* The peer-to-peer streams of one user, the source: how they are announced *)
(* to the SFU and by it to the others, the targets (p2controller.go).      *)
(*                                                                         *)
(* A P2PController belongs to a ConnectionRecord: the source's is that of  *)
(* its default sender, a target's that of its record for the source.  Its  *)
(* messages go over a data channel of the record's peer connection.        *)
(*                                                                         *)
(* Three goroutines run announceStreams for a target: the handler of the   *)
(* source's announcement, the receiver worker for a new peer connection,   *)
(* and one that bind starts.  The source's p2p lock keeps the first two    *)
(* apart, the target's p2p lock is taken by the third only.                *)
(*                                                                         *)
(* A stream record is named by the announcement that made it and its id.   *)
(* A P2PRecord is a data channel and the stream record of its source.      *)
(***************************************************************************)
EXTENDS Integers, Sequences, Functions

CONSTANTS
  Source, Targets,  \* users
  Initiators,       \* those whose peer connections the SFU initiates
  Ids, Kinds, Tokens,
  Lists,            \* the lists of streams that the source announces
  None,
  Handler, Worker,  \* announcers, with the bind goroutine of each target
  MaxConns,         \* bound: peer connections, of each user
  MaxMessages       \* bound: messages of the source

Users == {Source} \cup Targets
Announcers == {Handler, Worker} \cup Targets
Conns == UNION {1..MaxConns[c] : c \in Users}
Records == (1..MaxMessages) \X Ids

PartialFunctions(S, T) == UNION {[D -> T] : D \in SUBSET S}

(* f, with g where f has no value.                                         *)
Fill(f, g) == [x \in DOMAIN f \cup DOMAIN g |-> IF x \in DOMAIN f THEN f[x] ELSE g[x]]

ASSUME P2PAssumption ==
  /\ Source \notin Targets /\ Initiators \subseteq Users
  /\ {Handler, Worker} \cap Users = {} /\ Handler # Worker
  /\ Lists \subseteq PartialFunctions(Ids, [kind : Kinds, token : Tokens])
  /\ MaxConns \in [Users -> Nat] /\ MaxMessages \in Nat
  /\ None \notin Records

VARIABLES
  conn,       \* of each user: its record, the peer connection and data channel
  ctl,        \* P2PController of each user
  rec,        \* StreamRecords
  heard,      \* messages received from the source
  lists,      \* lists handled
  checked,    \* data channels with a message that passed the check of handleData
  handler,    \* handleAnnounceStreams, with the source's p2p lock
  worker,     \* the receiver worker
  announcer,  \* announceStreams, by who runs it
  binds,      \* goroutines started by bind that have not run, of each target
  receiverCh,
  told,       \* history: tokens told to the target on its open data channel
  since       \* history: lists handled when that opened

sourceVars == <<rec, heard, lists, checked>>
announceVars == <<handler, worker, announcer>>
historyVars == <<told, since>>
vars == <<conn, ctl, sourceVars, announceVars, binds, receiverCh, historyVars>>

P2PRecord == [dataChannel : {0} \cup Conns, source : Records \cup {None}]

Controller ==
  [dataChannel : {0} \cup Conns, handshake : BOOLEAN,
   streams : PartialFunctions(Ids, Records), pending : PartialFunctions(Ids, Records),
   callbacks : PartialFunctions(Tokens, P2PRecord)]

Message ==
  [type : {"handshake", "announce_streams"}, list : Lists]
    \cup {[type |-> "handshake", list |-> None]}

TypeOK ==
  /\ conn \in [Users -> [known : BOOLEAN, pc : {0} \cup Conns, made : {0} \cup Conns,
                         open : {0} \cup Conns]]
  /\ \A c \in Users :
       /\ DOMAIN ctl[c] = {"dataChannel", "handshake", "streams", "pending", "callbacks"}
       /\ ctl[c].dataChannel \in {0} \cup Conns /\ ctl[c].handshake \in BOOLEAN
       /\ \A f \in {ctl[c].streams, ctl[c].pending} : \A id \in DOMAIN f :
            f[id] \in DOMAIN rec /\ f[id][2] = id
       /\ \A k \in DOMAIN ctl[c].callbacks : k \in Tokens /\ ctl[c].callbacks[k] \in P2PRecord
  /\ DOMAIN rec \subseteq Records
  /\ \A r \in DOMAIN rec : rec[r] \in [kind : Kinds, token : Tokens, linked : BOOLEAN]
  /\ heard \in 0..MaxMessages /\ lists \in 0..heard
  /\ checked \subseteq Conns
  /\ handler \in [at : {"idle", "run"}, added : SUBSET DOMAIN rec, targets : SUBSET Targets]
  /\ worker \in [at : {"idle", "wait", "run"}, on : Targets \cup {None},
                 streams : SUBSET DOMAIN rec]
  /\ \A a \in Announcers :
       announcer[a] \in [at : {"idle", "check", "pend", "register"},
                         on : Targets \cup {None}, todo : SUBSET DOMAIN rec,
                         stream : DOMAIN rec \cup {None}, announce : SUBSET Tokens]
  /\ \A t \in Targets : \A b \in binds[t] :
       b.dataChannel \in Conns /\ b.added \subseteq DOMAIN rec
  /\ receiverCh \in Seq(Targets)
  /\ told \in [Targets -> SUBSET Tokens]
  /\ since \in [Targets -> 0..MaxMessages]

-----------------------------------------------------------------------------
(* Locks. *)

(* The worker holds the target's record, and the sender's for reading.     *)
RecordFree(c) ==
  IF c = Source THEN worker.at = "idle" ELSE worker.at = "idle" \/ worker.on # c

P2PFree(c) ==
  IF c = Source THEN handler.at = "idle" /\ worker.at # "run"
  ELSE announcer[c].at = "idle"

-----------------------------------------------------------------------------
(* Connections and their data channels. *)

NewController ==
  [dataChannel |-> 0, handshake |-> FALSE,
   streams |-> <<>>, pending |-> <<>>, callbacks |-> <<>>]

(* The goroutine is left out when it has nothing to announce.              *)
Bind(c, n) ==
  LET added == Range(ctl[c].pending)
  IN /\ ctl' = [ctl EXCEPT ![c] = [@ EXCEPT !.dataChannel = n, !.pending = <<>>]]
     /\ binds' = IF added = {} THEN binds
                 ELSE [binds EXCEPT ![c] = @ \cup {[dataChannel |-> n, added |-> added]}]

(* The first signal from a target makes its record for the source.         *)
Join(t) ==
  /\ ~conn[t].known
  /\ conn' = [conn EXCEPT ![t] = [@ EXCEPT !.known = TRUE]]
  /\ UNCHANGED <<ctl, sourceVars, announceVars, binds, receiverCh, historyVars>>

(* Mutant: the receiver worker is told of a user's first connection only.  *)
ConnectOnce(c) ==
  LET n == conn[c].made + 1
  IN /\ conn[c].known /\ conn[c].pc = 0 /\ n <= MaxConns[c]
     /\ RecordFree(c) /\ (c \in Initiators => P2PFree(c))
     /\ conn' = [conn EXCEPT ![c] = [@ EXCEPT !.pc = n, !.made = n]]
     /\ IF c \in Initiators THEN Bind(c, n) ELSE UNCHANGED <<ctl, binds>>
     /\ receiverCh' = IF c = Source \/ n > 1 THEN receiverCh ELSE Append(receiverCh, c)
     /\ UNCHANGED <<sourceVars, announceVars, historyVars>>

(* A new peer connection, with the data channel when the SFU initiates.    *)
Connect(c) ==
  LET n == conn[c].made + 1
  IN /\ conn[c].known /\ conn[c].pc = 0 /\ n <= MaxConns[c]
     /\ RecordFree(c) /\ (c \in Initiators => P2PFree(c))
     /\ conn' = [conn EXCEPT ![c] = [@ EXCEPT !.pc = n, !.made = n]]
     /\ IF c \in Initiators THEN Bind(c, n) ELSE UNCHANGED <<ctl, binds>>
     /\ receiverCh' = IF c = Source THEN receiverCh ELSE Append(receiverCh, c)
     /\ UNCHANGED <<sourceVars, announceVars, historyVars>>

(* OnDataChannel: a remote that initiates opens one.                       *)
OnDataChannel(c) ==
  /\ c \notin Initiators
  /\ conn[c].pc # 0 /\ ctl[c].dataChannel # conn[c].pc
  /\ RecordFree(c) /\ P2PFree(c)
  /\ Bind(c, conn[c].pc)
  /\ UNCHANGED <<conn, sourceVars, announceVars, receiverCh, historyVars>>

(* Only an open data channel takes what is sent.                           *)
Opens(c) ==
  /\ conn[c].open = 0
  /\ conn[c].pc # 0 /\ ctl[c].dataChannel = conn[c].pc
  /\ conn' = [conn EXCEPT ![c] = [@ EXCEPT !.open = conn[c].pc]]
  /\ IF c = Source THEN UNCHANGED historyVars
     ELSE told' = [told EXCEPT ![c] = {}] /\ since' = [since EXCEPT ![c] = lists]
  /\ UNCHANGED <<ctl, sourceVars, announceVars, binds, receiverCh>>

(* clearPeerConnection: the remote has started over.                       *)
Clear(c) ==
  /\ conn[c].pc # 0
  /\ RecordFree(c)
  /\ conn' = [conn EXCEPT ![c] = [@ EXCEPT !.pc = 0, !.open = 0]]
  /\ UNCHANGED <<ctl, sourceVars, announceVars, binds, receiverCh, historyVars>>

(* Some callers have no lock of the record, all take that of the p2p.      *)
Reset(c) ==
  /\ conn[c].pc # 0 \/ ctl[c] # NewController
  /\ P2PFree(c)
  /\ conn' = [conn EXCEPT ![c] = [@ EXCEPT !.pc = 0, !.open = 0]]
  /\ ctl' = [ctl EXCEPT ![c] = NewController]
  /\ UNCHANGED <<sourceVars, announceVars, binds, receiverCh, historyVars>>

Connection(c) ==
  Connect(c) \/ OnDataChannel(c) \/ Opens(c) \/ Clear(c) \/ Reset(c)

-----------------------------------------------------------------------------
(* The source's messages. *)

(* handleData checks the data channel and lets the lock go, before it      *)
(* looks at the message.                                                   *)
HandleData(d) ==
  /\ conn[Source].open = d /\ ctl[Source].dataChannel = d
  /\ handler.at = "idle"
  /\ d \notin checked
  /\ heard < MaxMessages
  /\ heard' = heard + 1
  /\ checked' = checked \cup {d}
  /\ UNCHANGED <<conn, ctl, rec, lists, announceVars, binds, receiverCh, historyVars>>

CanSend(c) == conn[c].open # 0 /\ ctl[c].dataChannel = conn[c].open

Refused(list, id) == rec[ctl[Source].streams[id]].kind # list[id].kind

(* Streams that the list lacks are removed, those whose kind has changed   *)
(* too.  One with another token keeps its record, which loses its          *)
(* connection.  The targets are gone through if any came or went.          *)
HandleAnnounceStreams(list, handshake) ==
  LET src == ctl[Source]
      kept == {id \in DOMAIN list \cap DOMAIN src.streams : ~Refused(list, id)}
      fresh == DOMAIN list \ DOMAIN src.streams
      added == {<<lists + 1, id>> : id \in fresh}
      streams == [id \in kept \cup fresh |->
                    IF id \in kept THEN src.streams[id] ELSE <<lists + 1, id>>]
      stays(r) == r \notin Range(src.streams)
                    \/ (r[2] \in kept /\ list[r[2]].token = rec[r].token)
      tokens == {list[id].token : id \in fresh}
  IN /\ lists' = lists + 1
     /\ rec' = [r \in DOMAIN rec \cup added |->
          IF r \in added
          THEN [kind |-> list[r[2]].kind, token |-> list[r[2]].token, linked |-> TRUE]
          ELSE IF stays(r) THEN rec[r]
          ELSE [rec[r] EXCEPT !.linked = FALSE,
                              !.token = IF r[2] \in kept THEN list[r[2]].token ELSE @]]
     /\ ctl' = [ctl EXCEPT ![Source] = [@ EXCEPT
          !.handshake = handshake,
          !.streams = streams,
          !.callbacks =
             Fill(src.callbacks, [k \in tokens |-> [dataChannel |-> src.dataChannel, source |-> None]])]]
     /\ handler' = IF added = {} /\ DOMAIN src.streams \subseteq kept THEN handler
                   ELSE [at |-> "run", added |-> added, targets |-> Targets]

(* handleP2PMessage, under the lock.  A handshake is answered once; it may *)
(* bring a list, which counts when the answer can be sent.                 *)
HandleP2PMessage(d, m) ==
  LET ignored == m.type = "handshake" /\ ctl[Source].handshake
      listed == m.type = "announce_streams" \/ (CanSend(Source) /\ m.list # None)
      handshake == ctl[Source].handshake \/ m.type = "handshake"
  IN /\ d \in checked
     /\ P2PFree(Source)
     /\ checked' = checked \ {d}
     /\ \/ ignored /\ UNCHANGED <<ctl, rec, lists, handler>>
        \/ /\ ~ignored /\ ~listed
           /\ ctl' = [ctl EXCEPT ![Source] = [@ EXCEPT !.handshake = TRUE]]
           /\ UNCHANGED <<rec, lists, handler>>
        \/ ~ignored /\ listed /\ HandleAnnounceStreams(m.list, handshake)
     /\ UNCHANGED <<conn, heard, worker, announcer, binds, receiverCh, historyVars>>

P2PMessage(d) == \E m \in Message : HandleP2PMessage(d, m)

-----------------------------------------------------------------------------
(* announceStreams, which checks, registers and sends without a lock. *)

Idle == [at |-> "idle", on |-> None, todo |-> {}, stream |-> None, announce |-> {}]

AnnounceStreams(t, streams) ==
  [at |-> "check", on |-> t, todo |-> streams, stream |-> None, announce |-> {}]

Check(a) ==
  LET t == announcer[a].on
  IN /\ announcer[a].at = "check"
     /\ \E s \in announcer[a].todo :
          announcer' = [announcer EXCEPT ![a] = [@ EXCEPT
            !.at = IF ctl[t].dataChannel = 0 THEN "pend" ELSE "register",
            !.todo = announcer[a].todo \ {s}, !.stream = s]]
     /\ UNCHANGED <<conn, ctl, sourceVars, handler, worker, binds, receiverCh, historyVars>>

(* Mutant: what waits is kept by token, as the callbacks are.              *)
PendByToken(a) ==
  LET t == announcer[a].on
      s == announcer[a].stream
  IN /\ announcer[a].at = "pend"
     /\ ctl' = [ctl EXCEPT ![t] = [@ EXCEPT
          !.pending = Fill([k \in {rec[s].token} |-> s], ctl[t].pending)]]
     /\ announcer' = [announcer EXCEPT ![a] = [@ EXCEPT !.at = "check", !.stream = None]]
     /\ UNCHANGED <<conn, sourceVars, handler, worker, binds, receiverCh, historyVars>>

(* The data channel is for later.                                          *)
Pend(a) ==
  LET t == announcer[a].on
      s == announcer[a].stream
  IN /\ announcer[a].at = "pend"
     /\ ctl' = [ctl EXCEPT ![t] = [@ EXCEPT
          !.pending = Fill([id \in {s[2]} |-> s], ctl[t].pending)]]
     /\ announcer' = [announcer EXCEPT ![a] = [@ EXCEPT !.at = "check", !.stream = None]]
     /\ UNCHANGED <<conn, sourceVars, handler, worker, binds, receiverCh, historyVars>>

(* Mutant: whether the token is there is looked at after it was set.       *)
LooksLate(a) ==
  LET t == announcer[a].on
      s == announcer[a].stream
      p2p == [dataChannel |-> ctl[t].dataChannel,
              source |-> IF rec[s].linked THEN s ELSE None]
  IN /\ announcer[a].at = "register"
     /\ ctl' = [ctl EXCEPT ![t] = [@ EXCEPT
          !.callbacks = Fill(ctl[t].callbacks, [x \in {rec[s].token} |-> p2p])]]
     /\ announcer' = [announcer EXCEPT ![a] = [@ EXCEPT !.at = "check", !.stream = None]]
     /\ UNCHANGED <<conn, sourceVars, handler, worker, binds, receiverCh, historyVars>>

(* A token that is there already is not announced.                         *)
Register(a) ==
  LET t == announcer[a].on
      s == announcer[a].stream
      k == rec[s].token
      p2p == [dataChannel |-> ctl[t].dataChannel,
              source |-> IF rec[s].linked THEN s ELSE None]
      set == k \notin DOMAIN ctl[t].callbacks
  IN /\ announcer[a].at = "register"
     /\ ctl' = [ctl EXCEPT ![t] = [@ EXCEPT
          !.callbacks = Fill(ctl[t].callbacks, [x \in {k} |-> p2p])]]
     /\ announcer' = [announcer EXCEPT
          ![a] = [@ EXCEPT
            !.at = "check", !.stream = None,
            !.announce = IF set THEN announcer[a].announce \cup {k} ELSE announcer[a].announce]]
     /\ UNCHANGED <<conn, sourceVars, handler, worker, binds, receiverCh, historyVars>>

WorkerIdle == [at |-> "idle", on |-> None, streams |-> {}]

(* The handler sends an empty list too.  A list that cannot be sent is     *)
(* dropped, and ends the worker's round.                                   *)
Send(a) ==
  LET t == announcer[a].on
      sends == a = Handler \/ announcer[a].announce # {}
  IN /\ announcer[a].at = "check" /\ announcer[a].todo = {}
     /\ announcer' = [announcer EXCEPT ![a] = Idle]
     /\ told' = IF CanSend(t) THEN [told EXCEPT ![t] = @ \cup announcer[a].announce]
                ELSE told
     /\ worker' = IF a = Worker /\ sends /\ ~CanSend(t) THEN WorkerIdle ELSE worker
     /\ UNCHANGED <<conn, ctl, sourceVars, handler, binds, receiverCh, since>>

Announce(a) == Check(a) \/ Pend(a) \/ Register(a) \/ Send(a)

-----------------------------------------------------------------------------
(* Those who announce. *)

HandlerIdle == [at |-> "idle", added |-> {}, targets |-> {}]

(* Mutant: the handler locks the target's record, as the worker does.      *)
LocksTarget(t) ==
  /\ handler.at = "run" /\ announcer[Handler].at = "idle"
  /\ t \in handler.targets
  /\ RecordFree(t)
  /\ handler' = [handler EXCEPT !.targets = @ \ {t}]
  /\ announcer' = IF conn[t].known
                  THEN [announcer EXCEPT ![Handler] = AnnounceStreams(t, handler.added)]
                  ELSE announcer
  /\ UNCHANGED <<conn, ctl, sourceVars, worker, binds, receiverCh, historyVars>>

(* The handler goes on to a target, if that has a record for the source.   *)
AnnounceTo(t) ==
  /\ handler.at = "run" /\ announcer[Handler].at = "idle"
  /\ t \in handler.targets
  /\ handler' = [handler EXCEPT !.targets = @ \ {t}]
  /\ announcer' = IF conn[t].known
                  THEN [announcer EXCEPT ![Handler] = AnnounceStreams(t, handler.added)]
                  ELSE announcer
  /\ UNCHANGED <<conn, ctl, sourceVars, worker, binds, receiverCh, historyVars>>

HandlerDone ==
  /\ handler.at = "run" /\ handler.targets = {} /\ announcer[Handler].at = "idle"
  /\ handler' = HandlerIdle
  /\ UNCHANGED <<conn, ctl, sourceVars, worker, announcer, binds, receiverCh, historyVars>>

(* The worker locks the record and waits for the lock of the source's p2p. *)
WorkerTakes ==
  /\ worker.at = "idle" /\ receiverCh # <<>>
  /\ receiverCh' = Tail(receiverCh)
  /\ worker' = IF conn[Head(receiverCh)].pc = 0 THEN WorkerIdle
               ELSE [at |-> "wait", on |-> Head(receiverCh), streams |-> {}]
  /\ UNCHANGED <<conn, ctl, sourceVars, handler, announcer, binds, historyVars>>

WorkerLocks ==
  /\ worker.at = "wait" /\ handler.at = "idle"
  /\ worker' = [worker EXCEPT !.at = "run", !.streams = Range(ctl[Source].streams)]
  /\ UNCHANGED <<conn, ctl, sourceVars, handler, announcer, binds, receiverCh, historyVars>>

(* Each stream is announced by itself.                                     *)
WorkerAnnounces ==
  /\ worker.at = "run" /\ announcer[Worker].at = "idle"
  /\ \E s \in worker.streams :
       /\ worker' = [worker EXCEPT !.streams = @ \ {s}]
       /\ announcer' = [announcer EXCEPT ![Worker] = AnnounceStreams(worker.on, {s})]
  /\ UNCHANGED <<conn, ctl, sourceVars, handler, binds, receiverCh, historyVars>>

WorkerDone ==
  /\ worker.at = "run" /\ worker.streams = {} /\ announcer[Worker].at = "idle"
  /\ worker' = WorkerIdle
  /\ UNCHANGED <<conn, ctl, sourceVars, handler, announcer, binds, receiverCh, historyVars>>

HandlerSteps == Announce(Handler) \/ (\E t \in Targets : AnnounceTo(t)) \/ HandlerDone

WorkerSteps == Announce(Worker) \/ WorkerLocks \/ WorkerAnnounces \/ WorkerDone

(* A goroutine of bind: it does nothing when the data channel has changed. *)
BindAnnounces(t) ==
  /\ P2PFree(t)
  /\ \E b \in binds[t] :
       /\ binds' = [binds EXCEPT ![t] = @ \ {b}]
       /\ announcer' = IF ctl[t].dataChannel = b.dataChannel
                       THEN [announcer EXCEPT ![t] = AnnounceStreams(t, b.added)]
                       ELSE announcer
  /\ UNCHANGED <<conn, ctl, sourceVars, handler, worker, receiverCh, historyVars>>

-----------------------------------------------------------------------------
Init ==
  /\ conn = [c \in Users |-> [known |-> c = Source, pc |-> 0, made |-> 0, open |-> 0]]
  /\ ctl = [c \in Users |-> NewController]
  /\ rec = <<>>
  /\ heard = 0 /\ lists = 0
  /\ checked = {}
  /\ handler = HandlerIdle
  /\ worker = WorkerIdle
  /\ announcer = [a \in Announcers |-> Idle]
  /\ binds = [t \in Targets |-> {}]
  /\ receiverCh = <<>>
  /\ told = [t \in Targets |-> {}]
  /\ since = [t \in Targets |-> 0]

Next ==
  \/ \E t \in Targets : Join(t) \/ BindAnnounces(t) \/ Announce(t)
  \/ \E c \in Users : Connection(c)
  \/ \E d \in Conns : HandleData(d) \/ P2PMessage(d)
  \/ HandlerSteps \/ WorkerTakes \/ WorkerSteps

Spec == Init /\ [][Next]_vars

-----------------------------------------------------------------------------
Quiet(t) ==
  /\ handler.at = "idle" /\ worker.at = "idle"
  /\ t \notin Range(receiverCh)
  /\ binds[t] = {} /\ announcer[t].at = "idle"

(* While a target's connection has no data channel, all streams that the   *)
(* source has now are kept for when it gets one.                           *)
WaitingPended ==
  \A t \in Targets :
    Quiet(t) /\ conn[t].pc # 0 /\ ctl[t].dataChannel = 0 =>
      \A s \in Range(ctl[Source].streams) :
        s[2] \in DOMAIN ctl[t].pending /\ ctl[t].pending[s[2]] = s

(* A target on an open data channel was told of each stream that the       *)
(* source has since announced, unless its token is in use.  And if it was  *)
(* told of the token of a stream, there is a callback for what it signals  *)
(* about that.  A stream that has lost its connection, as its token        *)
(* changed, is left out: a goroutine that was late may have told of it.    *)
OpenIsServed ==
  \A t \in Targets :
    Quiet(t) /\ CanSend(t) =>
      \A s \in Range(ctl[Source].streams) :
        LET k == rec[s].token
            registered == k \in DOMAIN ctl[t].callbacks
        IN rec[s].linked =>
             /\ k \in told[t] => registered
             /\ s[1] > since[t] =>
                  registered /\ (ctl[t].callbacks[k].source = s => k \in told[t])

(* The worker, which holds the locks of two records and waits for that of  *)
(* the source's p2p, and the handler, which has it, never wait for each    *)
(* other: the handler always goes on, and the worker does once it is done. *)
AnnouncersGoOn ==
  /\ handler.at = "run" => ENABLED HandlerSteps
  /\ worker.at # "idle" /\ handler.at = "idle" => ENABLED WorkerSteps
=============================================================================
