# A formal model of kwmbridge

kwmbridge joins the audio and video conferences of Kopano Meet as a peer of its
own.  It holds a websocket to the kwm server, gets one *plugin* with a second
websocket for each channel (conference), makes WebRTC peer connections with
every user of the channel and forwards the tracks it receives from one user to
all others (a selective forwarding unit, SFU).

This directory holds TLA+ modules translated from the Go code, configurations
that check them with TLC, and proofs that TLAPS checks.  Paths below are
relative to `src/`; `R/` stands for `internal/kwm/mcu/plugins/rtmcsfu/`.
`PROJECT.json` has, for each definition, the lines it was translated from, and
for each property a mutated definition that violates it.

Contents: 1 the system, 2 the modules, 3 the runs, 4 bounds, 5 fairness,
6 proofs, 7 findings, 8 what is not modelled, 9 plan.

## 1. The system

### Components

**Server and process life** (`bridge/server/server.go`, `cmd/`).  State: the
HTTP listener, `serveCtx`, the signal channel, the managers.  `Serve` starts the
listener in a goroutine, waits for a signal or an error, shuts the listener
down within ten seconds, cancels the context and waits for the managers or
for a second signal.  Hard: signals, timer and the end of the
connector race.  Correct when a signal always ends the process and, without a
second one, not before the listener and the connector.

**mcuc Manager** (`bridge/mcuc/`).  The connector: dials the kwm server, runs
an `mcu.Client` until it returns and starts over a second later.  Hard: a connection
ends in many ways.  Correct when it comes back to dialling after each, until
the context is done.

**mcu.Client** (`internal/kwm/mcu/client.go`, `options.go`).  State:
`attached`, a concurrent map from transaction to plugin.  Its `readPump` handles
`attach` by making a plugin and running it in a goroutine that pops it from the
map when it ends, and closes it.  Hard: a plugin's goroutine ends
after the client, or while the process shuts down.  Correct when nothing that
was started for a plugin stays behind.

**RTMChannelSFU** (`R/rtmcsfu.go`).  The plugin: a websocket, a context
`wsCtx`, at most one Channel, and a `readPump` that handles channel, signal and
hangup messages one after the other.  `Close` cancels the context and stops the
channel.

**Channel: users and signalling** (`R/channel.go`, `R/userrecord.go`).  State:
`connections` (UserRecords by id); each UserRecord has `publishers` (its default
sender) and `connections` (ConnectionRecords by target).
`handleWebRTCSignalMessage` finds or makes the records and does what the
signal asks for; `UserRecord.close` starts a goroutine that resets all of the
user's records and those that others have for it.  Hard: the same id comes
back while the close goroutine of the previous user, old messages and
callbacks of old peer connections are still at work; stop races with all.
Correct when the channel has exactly its open users, a closed one leaves no peer
connection, and a user is never thrown out by a connection that is not its own.

**Channel: track and receiver worker** (`R/channel.go:82-410`).  `trackCh` has
tracks to be added to, or removed from, all targets; `receiverCh` has new peer
connections, which get all existing tracks.  Both are bounded.  Hard: pushes happen with the lock of a record held, and the workers take
those locks.  Correct when every target has every live track and no dead one,
in whatever order the two channels are served.

**ConnectionRecord** (`R/connectionrecord.go`), one WebRTC connection with its
lock.  *Negotiation*: `pc`, `rpcid`, `isNegotiating`, `queuedNegotiation`,
`needsNegotiation` (a channel of one place), `pendingCandidates`.  The initiator
offers and answers `renegotiate` requests, the other kind sends such requests.
Reset, clear and destroy take the peer connection away, possibly from under a
handler that gave up the lock.  *Tracks*: `tracks`, `senders`, `pending` and a pump
goroutine for each remote track.  *RTCP*: `rtcpCh`, its consumer and its
subscribers.  Hard: everything here is shared by the readPump, pion's callbacks, workers,
pumps and close goroutines.  Correct when no peer connection is leaked, no
negotiation request is lost, and no goroutine waits for ever.

**Jitter buffer** (`internal/jitterbuffer/`, started in `R/connectionrecord.go`).
State: for each SSRC a `Buffer`, an array with a slot for each sequence number
and marks of what is cleared and what is scanned; a channel of NACKs for each
buffer, one of RTCP reports for all.  A loop for each buffer, a PLI and a REMB
loop and the record's consumer pass the reports on.  Hard: sequence numbers wrap at 2^16, 0
stands for "not set", and the loops end with a context that the record's first
reset cancels.  Correct when it asks for exactly what is lost, keeps nothing
longer than two seconds, and never holds up the pump that feeds it.

**P2PController** (`R/p2controller.go`, `R/streamrecord.go`).  State, for
each ConnectionRecord: a data channel, `streams` (announced by this user),
`pending` (to be announced when there is a data channel) and `callbacks` (a P2PRecord for
each token).  The source of streams announces them over its data channel; the
controller of every target that has one is told, and gets a record.  Hard: the
handler of the announcement, the receiver worker and the goroutines of `bind`
all run `announceStreams` for the same target, which looks at the data
channel, the maps and the channel's state one after the other without a lock.
Correct when every target learns of each stream once it can.

**P2PRecord** (`R/p2precord.go`).  A WebRTC connection of its own for one
stream, negotiated over the data channel of its parent.  Its code repeats that of
ConnectionRecord, without watcher and without close goroutine.  Hard: a new peer
connection is given the track its source has at that moment, while the track worker is on
its way with additions and removals of the same track; a reset takes the
data channel and the source for good.  Correct when it has one peer connection after the other, and its remote
gets the track.

**HTTP API and utilities** (`bridge/api-v0/`, `bridge/odata/`, `internal/bpool`).
Read-only views and helpers without protocol state.

### Interactions

    signals -> Serve -> Manager.connector -> Client.readPump -> plugin goroutine
                                                  |  attached
       RTMChannelSFU.readPump -- signal, hangup --> Channel -> UserRecord
                                                                  |
     receiverCh <-- new pc -- ConnectionRecord (one lock each) <--+-- close goroutine
         |                        ^        |
     receiver worker -- tracks ---+        +-- OnTrack -> pump -> trackCh -> track worker
         |                        |                        |                    |
         |                        |                 jitter buffer               |
         |                        |                        | reports            |
         |                        +--- rtcpCh <- subscribers (RTCP) <-----------+
         |
         +-- streams --> P2PController <-- data channel --> P2PRecord (source)
                              |                                 | tracks
                              +-- announcements --> target's P2PRecord

Concurrency is by goroutines with a lock for each record, concurrent maps, and
bounded channels.  Nothing is persisted: a crash loses everything and the
server and the browsers start over, so there is no recovery to model.

## 2. The modules

| module | models | of |
|---|---|---|
| `Bridge` | server, connector, client, plugins, their channels | `server.go`, `manager.go`, `client.go`, `rtmcsfu.go` |
| `Membership` | users of a channel, their records and peer connections as they come, go and come back | `channel.go`, `userrecord.go`, `connectionrecord.go` |
| `Negotiation` | the negotiation of one ConnectionRecord with a remote | `channel.go`, `connectionrecord.go` |
| `Forwarding` | the tracks of one user on their way to the others | `channel.go`, `connectionrecord.go` |
| `RtcpChannel` | the RTCP channel of one sender | `connectionrecord.go` |
| `JitterBuffer` | the buffer of a sender's video and the loops of its reports | `buffer.go`, `jitterbuffer.go`, `connectionrecord.go` |
| `P2P` | the peer-to-peer streams of one user and their announcement to the others | `p2controller.go`, `channel.go` |
| `P2PRecord` | the negotiation and the tracks of one P2PRecord | `p2precord.go` |
| `PeerConnections` | abstract specification: what a record promises of its peer connections | `connectionrecord.go` |
| `Distribution` | abstract specification: what the forwarding of tracks promises | `channel.go`, `connectionrecord.go` |
| `NegotiationProof`, `ForwardingProof`, `RtcpChannelProof`, `BridgeProof`, `MembershipProof`, `JitterBufferProof`, `P2PProof`, `P2PRecordProof` | theorems about the module of that name | |
| `MC...` | instances for TLC | |

All modules follow one convention: *a critical section that cannot block is one
step*; where the code gives up its lock, or waits with a lock held, a program
counter says where it is.  A callback of pion is a goroutine of its own, so it is
an action that is enabled from the event until it ran, in any order
with everything else.  Definitions named "Mutant" in a comment are plausible
mistakes; no specification uses them.

### Negotiation

`cr` has the fields of the record that negotiation reads or writes, `conn[p]`
the signalling state of each peer connection ever made with counts of callbacks
started and not yet run (`stables`, `destroys`), `handler` the readPump in
`handleWebRTCSignalMessage` with the peer connection it captured
(`channel.go:487`), `toClient` and `toServer` the two directions of the websocket, `client` the remote.

| action | code |
|---|---|
| `Refuse`, `HandleRenegotiate`, `HandleCandidate`, `HandleTransceiverRequest`, `HandleSDP` | first critical section of the handler, by kind of message |
| `UpdateMedia`, `RequestRestart`, `CreateForSDP`, `SetRemoteDescription`, `ApplyRemoteDescription`, `Finish` | the handler between the places where it takes and gives up the lock |
| `Resurrect` | the other direction of a pair is revived (`channel.go:866 ff`) |
| `TrackChange`, `WriteFails` | workers and pumps that use this record |
| `OnStable`, `Destroy`, `ConnectionFails`, `WatcherTimeout`, `DataChannelClose` | callbacks and the 35 s watcher |
| `UserCloses`, `CloseReset`, `Stop` | the owner or the channel goes |
| `ClientReceive`, `ClientOffer`, `ClientExtra`, `ClientRestart` | the browser, external |

`Negotiate`, `MaybeNegotiateAndUnlock`, `CreateOffer`, `CreateAnswer`,
`CreatePeerConnection`, `Reset`, `ClearPeerConnection`, ... are operators with
the names of the functions.  An SDP is reduced to one bit: whether the peer
connection has changes that its last local description lacks.  The four kinds
of record (initiator or not, default sender or not) are initial states.
After the owner is closed or the websocket down, the model keeps the program's
own steps and drops further events from outside.

### Forwarding

One source with its default sender (`sender`, `track[x].pump`, `resetting`), any
number of `target`s, `trackCh` and `receiverCh` as sequences of at most
`ChSize`, the two workers with what they still have to do.  A worker's copy
of the map of users (`IterBuffered`) is `tracker.todo`.  Locks are held across
steps exactly where code holds them while it may wait: `resetting.locked`
(reset pushes removals into `trackCh`), `receiver.at` (the receiver worker holds
a target's lock and waits for the sender's), and `handler` (readPump pushes
to `receiverCh` with the record locked).

### RtcpChannel

`record` (its channel and context), `closing` (the handler or a callback inside
`reset` or `clearPeerConnection`, with the nil not yet in), `queue`, one consumer for each channel,
and subscribers at the three points of their loop: reading, before the
comparison of channels, before the push.

### Bridge

`server`, `http`, `client`, and for each transaction the plugin's point of life,
its channel and whether its workers run.  `Attach`, `PluginStart`,
`ChannelMessage`, `WebsocketEnds`, `PluginCancelled`, `PluginClose`, `PluginPop`
follow `client.go:200-245` and `rtmcsfu.go`.

### Membership

`members` (channel.connections), sequences of all user records, connection
records and peer connections ever made, `closer[u]` (the goroutine of
`UserRecord.close`), `handler` (the readPump with the records it looked up),
`stop`.  `destroy` (take the user out, close it, reset) is one step, as are the
operations on the concurrent maps.  `pc[p].orphan` is history: the peer
connection was made for a user already closed or a record already taken out of
its map.  The handler checks the owner before it takes the lock
(`channel.go:473`) so that this can happen; two properties except exactly these
peer connections, and hence say nothing about how long they live.

### JitterBuffer

Packets are numbered as the remote sends them; `SN` and `TS` give a packet the
number and time it carries, which wrap at `SNs` and `TSs`.  `buffer` is that
of the current track, `pump` the goroutine that pushes into it, `queue[t]` the
channel of each track's buffer and `nackLoop[t]` the goroutine that takes it
over into `rtcp`, the channel of all reports.  `arrived` and `skipped` are history.

| action | code |
|---|---|
| `Push` (`Initialised`, `Stored`, `ClearOldPkt`, `Due`, `GetNackPair`) | `Buffer.Push`; any packet neither too late nor too far ahead may be the next |
| `PushNack` | the push of the NACK into a channel that may be full |
| `TrackStarts`, `TrackEnds` | the pump's life; the end removes and stops the buffer |
| `NackLoop`, `LoopTicks`, `Loop` | the loops, each a select over what is ready |
| `Consumer` | the record's goroutine that writes the reports |
| `Reset` | the context is cancelled |

### P2P

`conn[c]` is the peer connection and the open data channel of the source's
record or of a target's record for it; `ctl[c]` its P2PController; `rec` all
StreamRecords ever made, named by announcement and id.  `told` and `since` are
history: what a target heard on its open data channel and what had been announced when that opened.

| action | code |
|---|---|
| `Join`, `Connect`, `OnDataChannel`, `Opens`, `Clear`, `Reset` | the life of records, peer connections and data channels |
| `Bind` | `bind`, which starts a goroutine for what is pending |
| `HandleData`, `P2PMessage` | a message of the source: the check of its data channel, and later the rest under the p2p lock |
| `AnnounceTo`, `HandlerDone` | the handler goes through the targets |
| `Check`, `Pend`, `Register`, `Send` | `announceStreams`, by whoever runs it: each access to shared data is a step |
| `WorkerTakes`, `WorkerLocks`, `WorkerAnnounces`, `WorkerDone` | the receiver worker, with the locks it holds meanwhile |
| `BindAnnounces` | the goroutine of `bind` |

`RecordFree` and `P2PFree` say who holds which lock.

### P2PRecord

The variables and handler actions are those of Negotiation, for the code that
`p2precord.go` has of its own.  New are `session` (the data
channel and the context of the parent), `rec.source` and `rec.dataChannel`,
which a reset takes, and the tracks: `source` is the track the source's
record has, `pump[x]` its goroutines, `trackCh` the changes on their way to the
track worker.

Of the codecs there is one bit, `Codec`: whether the tracks have one that the other side has too.  An initiator
knows its codecs.  An answerer has those of the remote's last description (`rec.media`), which has the tracks' codec only
with a line of their medium (`HasCodec`); `client.lines` are the lines the remote knows of, the `lines` of an
offer those it was made with.  So a track may stay in `pending` over any number of
offers (`PendingAdded`), and an answer may leave out a track that the offer has no line for (`CreateAnswer`).

| action | code |
|---|---|
| `OnTrack`, `PumpAnnounces`, `PumpEnds`, `PumpRemoves`, `SourceReset` | the source's record |
| `TrackWorker` (`AddTrack`, `RemoveTrack`) | the worker at this record |
| `CreatePeerConnection` (`Given`), `PendingAdded`, `CreateAnswer` | tracks given to a new peer connection, and those that wait for a transceiver and a codec |
| `OnStable`, `Destroy`, `ConnectionFails`, `WriteFails` | callbacks and failures |
| `SessionEnds` | the parent loses its peer connection, is reset, or the channel closed |

### PeerConnections

`current` and the `state` of each peer connection, and four steps: `Create`, `Drop`,
`Replace` (drop and create at once, when the remote has started over) and `CloseUnder` (closed
while the record still has it).  A record may go on with one only, in the
order they are made, and none that is closed comes back.

### Distribution

Of each track whether it is new, live (the source has it), leaving or gone, of each target which
connection it has, by a number that grows, and which tracks.  Steps: `Come`, `Lose`, `Vanish` of tracks, `Connect` (always with a
newer number), `Disconnect` of targets, `Give` and `Take`.  Only a track that leaves is taken from a target that keeps its
connection; one that is gone is nowhere and is never given again.

### How the modules compose

Negotiation and P2PRecord *implement* PeerConnections
(`ImplementsPeerConnections`): `current` is the record's `pc`, and a state
forgets all but unused, open and closed.  TLC checks both, TLAPS proves both.  This is all that the modules on other levels assume of a record:
Membership's steps on `cr.pc` and Forwarding's `TargetConnect`, `TargetClear`
and `TargetReset` are the steps of PeerConnections, at any time.

Forwarding and P2PRecord *implement* Distribution (`ImplementsDistribution`), P2PRecord with itself as
the only target.  The connection of a target is the number of its peer connection, so that what a target loses without a
new one is a `Take`.  A track is live while it is registered and its sender not in a reset; it is gone when its
pump is done and no change of it is in `trackCh` or at the track worker.  TLC checks both, TLAPS proves both.

The rest is by reading the code.  Negotiation and Forwarding are two views of
the same records: Negotiation's `TrackChange` is what Forwarding's `AddTrack`
and `RemoveTrack` cause in a target's record, any change at any time.
Membership's `HandleRecord`, `SDPCreates`, `SDPApplies` are the handler of
Negotiation reduced to what becomes of `cr.pc`, with several users.  P2P makes
the records that P2PRecord describes and gives them their source; JitterBuffer's
pump is that of Forwarding, and its `Reset` is the record's.  `channel` of `Bridge` is
all of these.  Each module allows whatever its neighbours do to it, up to its bounds.

## 3. The runs

| run | asks | size |
|---|---|---|
| `negotiation_safety` | type; no lost wakeup; offers guarded and queued requests served; no lost update; candidates applied; implements PeerConnections | 2.2 M states, 2-3 min |
| `negotiation_live` | every track change gets negotiated; a closed peer connection is dropped | 300 k, 1-2 min |
| `negotiation_stale_pc` | violation, finding 1 | s |
| `forwarding_safety` | type; every registered track gets to every target; implements Distribution | 2.0 M, 2-3 min |
| `forwarding_live` | what stops is one of three deadlocks; delivery; nobody waits for ever but in them | 262 k, 1-2 min |
| `forwarding_existing_tracks` | violation, finding 2 | s |
| `membership` | type; the channel lists exactly its open users; closed users leave no connection; stop closes; no live user is thrown out; bound records stay | 3.0 M, 1-2 min |
| `rtcp_channel` | type; the channel handed out has its consumer, also for a clear that waits; subscribers end | 168 k, 30 s |
| `bridge` | no orphan; shutdown and plugin clean-up always come | 58 k, s |
| `jitter_buffer` | type; NACKs ask for what is lost; the buffer's time; the loops are there; reports flow | 272 k, 1-2 min |
| `p2p` | type; streams wait for a data channel; targets on a data channel are served; announcers go on | 4.1 M, 2-4 min |
| `p2p_record` | tracks follow the source; no lost update; implements PeerConnections and Distribution; the track reaches the remote | 792 k, 3-4 min |

Properties, each with the question behind it:

- `ImplementsPeerConnections` (Negotiation, P2PRecord): resets run without the lock, the
  handler goes on with a captured peer connection and callbacks of an old one come late.
  A peer connection that is replaced without a Close, one that comes back, and one that
  is used after a newer one are what the refinement excludes.
- `NoLostWakeup`, `NoLostUpdate` (also of P2PRecord), `UpdateDelivered`: the one-place channel
  `needsNegotiation` is drained before the offer is made; requests may come
  during a negotiation.  The first says who is
  obliged to look at the request, the second that a change not yet described
  is remembered somewhere, the third that it is described in the end.  A peer connection of which an
  offer failed (`failed`) is excepted: its request is lost in the code.
- `OfferGuarded`: `isNegotiating` is cleared by a callback that
  runs any time after the answer, so the flag, the signalling state and the
  pending callback have to agree.
- `CandidatesApplied`: candidates come before, during and after the SDP.
- `ClosedIsDropped`: a pc closed by the watcher does not stay the record's.
- `RegisteredForwarded`: stated for the moments at which no
  goroutine has anything left to do (`Quiet`), since in between it is
  legitimately false.  `NoDeadTrack`, that a target keeps no track which has ended, is what
  `ImplementsDistribution` says at such a moment.
- `ImplementsDistribution` (Forwarding, P2PRecord): a worker acts on what it saw earlier, and a change may be overtaken.  What the
  refinement excludes is that a target loses a track that is live while it keeps its peer connection, and that one gets a track
  again of which the last change has been made.
- `OnlyDeadlocksStop`: pump or reset, track worker, receiver
  worker and readPump wait for each other's locks and channels.  Three circles can close,
  each a predicate of the module.  As long as one of these has something left to do it can go on or a circle has
  closed, and a closed one is opened by nobody (`DeadlocksStay`, proved only).
- `TrackDelivered`, `NobodyWaitsForEver`: what is begun comes to its end, but in one of the three.
- `OpenIffListed`: a user that is open but not listed would never be closed; one
  listed but closed would refuse its id for good.
- `ClosedUserDisconnected`, `StopCloses`: when the close goroutine, or after a
  stop everything, has ended, no peer connection is left (but see `orphan`).
- `LiveUserSurvives`: only the end of its current default connection, a hangup
  or a stop closes a user.
- `BoundLinkStays`: the closing of an earlier user with an id takes no record
  from others that is bound to the later one.
- `ConsumerAlive`, `SubscribersEnd`: whoever pushes into the record's
  `rtcpCh` has a reader, also the clear that pushes the nil; a channel that is given up is told to its consumer although it may be full;
  the goroutines that feed an old channel end, but for a full one that nobody reads.
- `NoOrphanChannel`, `ShutdownCompletes`, `PluginsEnd`: a channel, its workers and the
  map of plugins agree in every way a plugin can end, and every signal ends the process.
- `NackExact`: a scan names no packet that is there and every one that is
  missing, over late packets and the wrap of numbers; completeness for the first round only.
- `BufferTime`: what clearing passes by is exactly what came late or before it could start.
- `LoopsServe`: every buffer has the loop that takes its NACKs, the buffer of a track that ended can still end its
  loop, and until a reset there is the consumer.
- `NacksFlow`: the pump waits with a NACK only while somebody reads, and the loop of a track ends with it.
- `WaitingPended`: as long as a target has no data channel, all streams of the source are in its `pending`.
- `OpenIsServed`: a target on an open data channel was told what the source
  announced since, and every token it was told has its callback: three announcers, unlocked maps.
  It speaks of streams with a connection of the source (`linked`): one whose token a later list gave to
  another stream may still be told by an announcer that came to it before, without a callback.
- `AnnouncersGoOn`: the worker holds two records' locks and waits for the
  source's p2p lock, which the handler has; neither ever waits for the other.
- `TracksFollow`: a new peer connection is given the source's track while the worker is on its way with changes
  of it; a track is neither missed nor kept after its end.
- `NoLostUpdate` of P2PRecord: the request for a change that is in no description yet is with the
  handler or queued, or the remote has been asked or its offer is on its way.  And a track that waits in `pending`
  although there is a common codec does not wait for nothing: its line is asked for, or in an offer that the remote owes, has
  sent, or the handler has in its hands.  That it was asked for once, for an offer that is long
  past, is not enough.  A peer connection that another incarnation of the remote took over is excepted (`Paired`).
- `TrackReachesRemote`: such a track is described in the end, by an answerer perhaps after several offers; with the same
  exceptions, and only when there is a common codec.

All runs say `CHECK_DEADLOCK FALSE`: with bounded counters every behaviour may
come to rest, and the process of `Bridge` does end.  Waiting for ever is
asked for by the liveness properties, by `AnnouncersGoOn` and by the properties on
quiescent states instead.

## 4. Bounds

- Negotiation: `MaxPc` 2 in the safety run, so that a peer connection is
  replaced while the handler or a callback holds the old one; 1 in the liveness
  run, where the counterexamples to be excluded need one connection only.  One
  track change and one fault can each fall at every point of a negotiation.
  `FewEvents` cuts the safety run: a remote that starts over does so at
  every point, but without a change or a fault beside it, and an unasked message of the
  remote comes with a change or with a fault, not with both.  The theorems have no such cuts.  The
  liveness run has one incarnation of the remote.
- Forwarding, safety: two targets, one of each role, one kind of track, two
  peer connections of the sender with a track each (so that an old pump meets
  the new track), two of the targets, channels of 3, never full.  `TwoConnectsOrTracks` cuts it: with the second track there is
  one connection of a target only.  So both targets are connected at once, or one comes twice, with one
  track, and an old and a new track meet at one target.
- Forwarding, liveness: one target with three connections and channels of 1,
  full at the first opportunity.  `maxChSize` is 100 in the code
  (`R/rtmcsfu.go:41`); what matters is whether a channel is full, and a small
  one is full sooner.  With three connections the handler finds receiverCh full while
  the worker waits for its lock: the deadlocks are reached, and the properties hold apart from them.
  `ConnectDeadlock` needs a second target; it is named for every instance.
- RtcpChannel: two channels and three contexts let an old consumer, the current
  one and a reset meet, two subscribers compete for the last place of two.
- Bridge: two transactions, so that one plugin ends while another starts (a
  transaction is attached once; what a server that reused one would cause is
  listed with the hazards), and three signals, one more than `Serve` tells apart.
- Membership: one of two users comes twice, two peer connections, four records:
  a later user meets the close goroutine, callbacks and records of the
  earlier one.  `StopUsers` 1 lets Stop come while the first user is there, and a further one arrive during it.
- JitterBuffer: six sequence numbers and seven packets, so that the numbers
  come round; a window of 3 and gaps up to 3, so that a loss fills a window, a part of it or none; packets come
  up to 2 late.  Time wraps at 64, which 7 packets do not reach.
  In RTP it starts anywhere, so that its wrap may come at any moment of a call: no run exercises that, and
  `NoTimestampWraps` is a hypothesis of the theorems.  One stream has a pause of `MaxAge`, which makes packets old, the other
  starts shortly before the wrap.  Channels of one place are full at once, and one loop of the two, which
  differ in their period only, competes for it.
- P2P: one target with two peer connections, two messages of the source out of
  three lists that add, take away, and give a stream another token or kind or another stream's token.  `VideoFirst` cuts
  one of the lists from the first message.  The SFU
  initiates the source's connection and the target's is initiated by the remote; the
  same properties were checked with two connections of the source and one of the target (1.9 M states).
- P2PRecord: two peer connections, two incarnations of the remote, two tracks,
  one fault, every role, with and without a common codec (an incoming record has no tracks, so
  that the codec means nothing to it).  `OneTrouble` cuts it: at most one of
  the end of the session, a failure, a remote that starts over and a second
  track in a behaviour, unasked messages to an initiator only and beside none of them, no trouble for an answerer without
  the codec, and no lines of its own for a remote that starts over.  Every
  step that it forbids is one of the environment, for which no fairness is assumed, so
  that the liveness property is about behaviours that the cut leaves whole.  The safety properties were also
  checked with one trouble for every role, unasked messages to every role beside none, and lines for every remote (1.4 M states).

Bounds are in the guards of the actions that count and are named MaxX, Joins or StopUsers.

## 5. Fairness

Safety runs use `Spec`, without any.  `FairSpec` has weak fairness of:

- Negotiation: the handler, callbacks that have been started, and the remote
  (which answers what it was sent).  A goroutine that can run does; `sync.Mutex` is fair to waiters.  The
  liveness properties have the end of the websocket, a failed or a closed connection as
  alternatives, so nothing is expected of the network.  Faults, track changes
  and restarts are never fair.
- P2PRecord: the same, and the track worker and what a pump does between two
  reads.  No track needs to come or to end.
- Forwarding: the workers, resets, the handler's push, a pump's announcement
  and clean-up, and the end of a pump's loop once its peer connection is closed (the read of the track fails then).
- RtcpChannel: consumers, the goroutine inside a clear or reset, subscribers, with
  *strong* fairness of their push: Go serves the senders that wait for a channel in their order.
  `ReadRTCP` is fair: receivers report periodically.
- JitterBuffer: the pump's push and the consumer; strong fairness of the loops,
  which compete for the channel of reports, for the same reason.  Packets and timers are not fair.
- Bridge: the server's goroutines, the connector, and what a cancelled context
  ends.  A dial returns, with a connection or an error.  No message of the kwm server is fair.
- Membership, P2P: none; `StopCloses`, `ClosedUserDisconnected`, `WaitingPended` and
  `OpenIsServed` are invariants on states in which the goroutines concerned have
  ended, and `AnnouncersGoOn` says that there is a step.

## 6. Proofs

TLAPS proves, for every value of the constants that satisfies the assumption of the
module (bounds are natural numbers, roles are records of Booleans, channels have at
least one place, there is a kind of track, nobody stands for a user or a stream, a window is
shorter than a round of sequence numbers):

| theorem | states |
|---|---|
| `BridgeProof!BridgeTypes`, `ExitsClean`, `NoOrphans` | `TypeOK`, `CleanExit`, `NoOrphanChannel` |
| `MembershipProof!MembershipTypes`, `OpenUsersListed`, `LiveUsersSurvive`, `BoundLinksStay` | `TypeOK`, `OpenIffListed`, `LiveUserSurvives`, `BoundLinkStays` |
| `MembershipProof!ClosedUsersDisconnected`, `ChannelStopCloses` | `ClosedUserDisconnected`, `StopCloses` |
| `NegotiationProof!TypeCorrect`, `NoLeak`, `Implements` | `TypeOK`, `NoLeakedPeerConnection`, `ImplementsPeerConnections` |
| `NegotiationProof!WakeupsAreServed`, `OffersAreGuarded` | `NoLostWakeup`, `OfferGuarded` |
| `NegotiationProof!UpdatesAreServed`, `CandidatesAreApplied` | `NoLostUpdate`, `CandidatesApplied` |
| `ForwardingProof!ForwardingTypes`, `TracksRemovable`, `DeadTracksRemoved`, `RegisteredTracksForwarded` | `TypeOK`, `TracksHaveSenders`, `NoDeadTrack`, `RegisteredForwarded` |
| `ForwardingProof!CirclesAreKnown`, `CirclesStayClosed`, `DistributesTracks` | `OnlyDeadlocksStop`, `DeadlocksStay`, `ImplementsDistribution` |
| `RtcpChannelProof!ChannelTypes`, `AlwaysConsumed`, `ConsumersTold` | `TypeOK`, `ConsumerAlive`, `NoLeakedConsumer` |
| `JitterBufferProof!TypeCorrect`, `ScansAskForWhatIsLost`, `OldPacketsGo`, `LoopsAreThere` | `TypeOK`, `NackExact`, `BufferTime`, `LoopsServe` |
| `P2PProof!TypeCorrect`, `WaitingKeepsAll`, `OpenTargetsServed` | `TypeOK`, `WaitingPended`, `OpenIsServed` |
| `P2PRecordProof!TypeCorrect`, `Implements`, `SentTracksFollow` | `TypeOK`, `ImplementsPeerConnections`, `TracksFollow` |
| `P2PRecordProof!Distributes`, `UpdatesAreServed` | `ImplementsDistribution`, `NoLostUpdate` |

`CleanExit`, `NoLeakedPeerConnection`, `TracksHaveSenders`, `NoDeadTrack`, `DeadlocksStay`,
`NoLeakedConsumer` and the type invariants of Bridge and P2PRecord are proved and no run repeats them.

*NoLeak.*  `NoLeakedPeerConnection` (at most one peer connection of a record is
open, and it is the record's own) is not inductive: creation overwrites
`cr.pc`, which is harmless only if there was none, and takes the number after
`lastPc`, which must be unused.  `PcInv` adds that exactly the numbers above
`lastPc` are unused, that `cr.pc` is a number in use, and that the handler is at a point that
creates only when it captured no peer connection.  One lemma for each
way a critical section ends (`PcReset`, `PcNegotiate`, `PcReturn`, `PcCreate`,
...) shows that it keeps `PcOK`; the steps of the handler and of
the others are put together from these.  The heart is that Reset and
ClearPeerConnection close what they forget and creation happens only where
`cr.pc = NoPc` is checked under the lock.

*WakeupsAreServed, OffersAreGuarded.*  `FlagsInv`, proved with `TypeOK` and `PcInv`.
On the initiator's side `isNegotiating` and the peer connection tell the same story
(`Guarded`): the flag is set exactly while an offer waits for its answer or the one callback of the answer is
still to run, never both, and a request is queued only then.  That needs that
nobody makes an offer to an initiator (`NoOffers`), for a description that
is set then takes an offer of its own back to stable.  A request is left in the channel only by
the handler between creating a peer connection and its end (`Awake`); it does not leave
through "connection replaced", since it creates only for a record without peer
connection and such a record gets none from anybody else while the handler is busy.
`EndGuarded` and `EndAwake` say what each end of a critical section does to the two.

*UpdatesAreServed, CandidatesAreApplied.*  `ServedInv`, on top of `FlagsInv`, for the messages on their way.  While the
peer connection has a change that its last description lacks, a request waits or is queued, the remote has been asked
(an ask behind others in `toClient` stays there until it is read), its offer is on its way, or the handler is
between two critical sections in which it comes to it.  Candidates wait with a description already set
only for the handler that has just set it.  Both need that nobody else gives the record a peer connection
while the handler is at work.

*Implements* (Negotiation).  `PcInv` says which states there are.  What is missing is what a
step does: `PcStep` (closed ones stay closed; the record keeps its peer connection, loses
it, or gets the next number, open).  From both, each step is one of the four of
PeerConnections or a stutter.

*NoOrphans, ExitsClean.*  `BridgeInv`: the place of a plugin in its life says
whether it is attached and whether its channel can be open, and once `Serve` has left its
wait the listener is stopped.

*Membership.*  `MembershipInv`: the shape of the state without its bounds,
pointers between records are valid, only closed users have a close goroutine,
and until a stop the map and the open users agree.  `NumbersInv` has the bounds and the pointers that may lead to a
record or nowhere; with it every pointer of `TypeOK` leads to a record that exists.  `LiveUsersSurvive` and `BoundLinksStay`
are action properties that follow from it step by step.

*ClosedUsersDisconnected.*  `DisconnectInv`: a peer connection that lives is that of its
record; unless it is an orphan, its record has its place in the maps, and if the
owner is closed, the close goroutine has still to come to it; nobody has a record for
itself (the goroutine skips such); and a handler without peer connection finds its record without.  When the
goroutine is done there is nothing it has still to come to, hence nothing that lives.

*ChannelStopCloses.*  `Stop` closes the users it finds listed, but the message the readPump has in its hands may
let another in.  `StopInv`: from the stop on, an open user is there only while such a message is handled; its
records have no peer connection before the SDP, and a record the bridge makes the offers for then still has none, so
that no answer connects it (an offer cannot be answered, the websocket is gone).  What is connected is therefore a closed
user's, whose goroutine closes it (`DisconnectInv`), and what is new and its record's own, the watcher closes.

*DeadTracksRemoved, RegisteredTracksForwarded.*  `ForwardingInv` describes what is
on its way.  For dead tracks: a pump pushes its removal after everything else
it did, so that in `trackCh` it is behind every addition of its track
(`RemovalFollows`); hence a target that has a dead track is still to be visited
by the removal (`DeadRemoved`).  For missing tracks: a connected target without a registered
track is still to get it from the pump, the queue, the track worker or the
receiver worker (`MissingAdded`), as long as no reset runs; that only a reset takes back what the sender has
(`ResetRemoves`) keeps the removal from meeting it.  When nobody has work left
none of these is possible.  `Pushed` and `Popped` are the facts on queues.

*CirclesAreKnown, CirclesStayClosed.*  Suppose there is work and nobody goes on.  Who waits for a lock waits for
its holder, who waits in turn (`ResetWaits` ... `ReadPumpWaits`); the proof follows the holders from the readPump on.  It holds a
target's lock for room in `receiverCh`, so the receiver worker has something to do and waits: for that target
(`ReceiverDeadlock`), or for the sender, whose reset waits for room in `trackCh`, so that the track worker waits, for the
target of one of the two (`ResetDeadlock`, `ConnectDeadlock`).  A circle stays since each of its places is left only by a step of
who stands there.  Of `ForwardingInv` this needs the types and who may be
being visited (`OnlyConnected`).

*DistributesTracks, Distributes.*  Only what `ForwardingInv` and `FollowInv` say of changes on their way is needed
of the state: the last change of a track is a removal, behind every addition, and who still has a track that
has ended is still to be visited by it.  A step then moves each track along new, live, leaving, gone (`Come`, `Lose`, `Vanish`), or it changes
one target: with another peer connection, whose number is higher than any before, it is a `Connect`, without one a `Disconnect`,
and on the same one tracks are added (`Give`) or one that leaves is removed (`Take`); the last target that a removal visits takes the track to its end in
the same step.

*LoopsAreThere.*  `LoopInv`: the loop of the current track runs from its first packet on, also while the buffer is
deleted and made anew; the channel of a track is closed when it has ended and not before; later tracks have neither.

*AlwaysConsumed, ConsumersTold.*  Both follow from `ChannelInv`: channels not
yet made are empty; no subscriber knows a channel that is not made; the record's channel has no nil; outside a
reset its consumer runs with the record's context; contexts of consumers
are never newer than the record's, so a cancelled one never becomes current
again; a running consumer of another channel has its nil or a cancelled context.  `NilSent` and `NilTaken` say
what a push and a take do to the nil in a queue.

*OpenTargetsServed, WaitingKeepsAll.*  `Inv` of P2PProof has six parts.  `Types`; `Roles`, what the two p2p locks protect: the
streams of the source stay while the handler or the worker goes through them, and a target's data channel while a
goroutine of bind announces.  `PendInv`: a stream of the source is pending at a target without data channel, or the handler
or the worker is to announce it there and not past the check (`HandlerWill`, `WorkerWill`).
`RegisterInv`: at an open target a stream's callback is there, or one of the two is going to register it.
`AnnounceInv`: a token that an announcer has collected has its callback, unless a reset took it, and then the worker comes for the new
connection.  `ToldInv`: a callback of a stream was announced or is in some announcer's message.  When no announcer is at work
at a target nothing is left but the callback and the message.  The search for `RegisterInv`
showed that `OpenIsServed` without `linked` fails after three messages, beyond the two of the run.

*Implements* (P2PRecord).  As for Negotiation: `PcInv`, and `StepTo(S)` for what a step leaves: the record keeps its peer connection
and sends the tracks S, has lost it and sends none, or has the next one and sends what the source gave.

*SentTracksFollow.*  `PumpsInv` says what a pump still pushes: its removal comes after its addition and last.  `FollowInv`: what a record sends
has not ended or its removal is on its way; the source's track is sent or its addition is on its way.  A new peer connection
takes the source's track at the moment (`Given`), so a change on its way finds it done already or undoes it in order.

*UpdatesAreServed* (P2PRecord).  `ServedInv`, on top of `PcInv` and `FollowsInv`.  `Heard`, of what a record owes its remote: a change
that no description has is in a request or queued, or the remote was asked or its offer comes; a track that waits is asked for in
`toClient` or has its line in what lies `Ahead` (an offer that the remote owes, has sent, or the handler has); and every
line ever requested is asked for or known to the remote.  A request
outlives a critical section only for the handler (`Taker`), which is on its way to `finish` with the peer connection that the
request is for, since nobody else gives the record one meanwhile.

The second clause is kept at an answer because an offer with lines has brought the codec (`MediaOK`), so that the tracks which waited
for one of its lines are added; those that go on waiting wait for an offer still ahead.  That such an offer comes is
`RemoteInv`: the last offer of the remote has all lines that it knows of, unless it owes another one.  It is kept at an
addition since an answerer asks once per track: a track in `requested` is still sent or kept waiting, or its removal is
done (`Gone`), and its addition does not come again (`Ordered`: the channel to the worker has no addition of a track behind its
removal).  `EndServed` has what each end of a critical section owes; every action of the handler, the worker, the callbacks
and the remote is reduced to it.

*ScansAskForWhatIsLost.*  `KeepInv`: a slot holds a packet that came, of its number, and the last of that number (`Held`, `Latest`); an
empty slot is that of no packet or of one too old (`Kept`); what was asked for is what the last scan finds
in the slots as they are (`Asked`).  `ScanSlots` says that the slots of a scan are those of the packets of its window: a window
that wraps is empty.  `Kept` is where a late packet could do harm, for the age is an absolute difference: a packet that comes after one that was sent
`MaxAge` later, with the numbers come round between the two, can clear the newer, which is then asked for although it is
there.  TLC finds that with a pause just before the numbers come round and packets five late; in the code it takes a mark that
stays behind for most of a round of 65536.  `LateInTime` excludes it, and
`NoTimestampWraps` that a timestamp comes again; both are hypotheses of the theorem and hold in the instance
(`WithinTheProofs` in `MCJitterBuffer`).

*OldPacketsGo.*  `FreshInv`: a packet that came in its turn and is still in the buffer has its slot behind the mark
and its time not before that of the mark, and is not too old.  When it becomes old the mark is older, so clearing runs, and
every packet before it is older still, so clearing reaches it.  Zero stands for "not set" in both marks: the invariant
says that with such a packet neither is zero.  It supposes `NoTimestampWraps` only.

Where an invariant was found, TLC checked it on the instance of its run, or a larger one, first: `Kept`, `Latest` and `Fresh` with nine packets, three of them
late, and four streams.

Only model-checked: all liveness properties and `AnnouncersGoOn` (fairness and ENABLED are out of the prover's reach), and
`NackExact` and `BufferTime` where their hypotheses fail.

## 7. Findings

Two are shown by a run that TLC finds violated; `PROJECT.json` quotes the line
of documentation.

1. `negotiation_stale_pc`: when a message has an SDP and a new pcid, the handler
   clears the record's peer connection but goes on with the one it captured;
   the offer of the restarted remote is dropped as "connection replaced".
2. `forwarding_existing_tracks`: the pump of an old track deletes the new track of
   its kind from the record, and later targets do not get it.

The others are known gaps: the properties except them by name, or say nothing of
them, and the hazards in `PROJECT.json` have most of them with their lines.

*Forwarding.*  Three deadlocks (`ReceiverDeadlock`, `ResetDeadlock`, `ConnectDeadlock`): the handler
waits for a place in `receiverCh` with the lock of the record that the receiver
worker waits for, though `CHANGELOG.md` has "Fix deadlock when adding existing tracks
to new pc"; a reset waits for a place in `trackCh` with the sender's lock.

*Users.*  Peer connections are made for a user closed since (`orphan`); a
track that was on its way when its user left binds another user's new record to the closed user
(`Deliver` of Membership allows it); map shard locks and record locks can be waited for in a triangle;
answers are matched by the remote's pcid only; OnTrack returns with the
record locked when `NewTrack` fails.

*Client.*  The case for the detach message is spelt `"detatch"`
(`internal/kwm/mcu/client.go:247`), so a detach does nothing.

*RTCP.*  The nil that "Closes subscribers" (`R/connectionrecord.go:202`) closes the consumer only; a subscriber
that compared its channel before a reset waits for ever once that is full, and a reset waits
with the lock for room in a channel whose consumer it has cancelled.

*Jitter buffer.*  Clearing walks to the newest packet without wrapping, so that after 2^16 numbers it
stops, the "buffer time 2s" (`internal/jitterbuffer/buffer.go:43`) is that no longer, and no
loss is found any more; 0 as "not set" makes a first or a lost packet with that number
special; after the first reset the loops and the consumer are gone, the channels fill, and the pump
waits with the track it forwards; with nothing lost and nothing received the loss
rate is 0/0 (`buffer.go:227`); the payload type is written into the packet that all targets share
(`R/connectionrecord.go:729`) and a resend reads.

*Peer-to-peer streams.*  A stream may stay in `pending` though its target has a
data channel, when that comes between the look at it and the note (`R/p2controller.go:326`); a data channel
that replaces another is not told the current streams; callbacks that survive
`clearPeerConnection` keep their token and a dead data channel, so that the stream is not announced again and a
handshake not answered; a list that cannot be sent ends the worker's round; a stream whose kind changes is
removed, against the comment "Ignore changes of stream kind." (`R/p2controller.go:196`), and
targets are told neither of that nor of a new token; a reset of the controller leaves the peer
connections of its P2PRecords; `pending` is written by several goroutines without a lock.

*P2PRecord.*  After a reset it has neither data channel nor source, but stays in the
callbacks with its token (`R/p2precord.go:144`): a remote that tries again gets nothing; a goroutine that reads
RTCP compares with the parent's channel (`R/p2precord.go:1406`) and ends with the first packet; there
is no watcher (the code has a TODO); the pump deletes by kind, as in finding 2.  An answerer's track for which there is no
common codec stays in `pending` for ever and nobody is asked again (`R/p2precord.go:472`, "in the hope" at line 463).  A peer connection
made for an SDP is bound to the remote that sends the next message (`R/p2precord.go:278`): when that is another incarnation, its
requests have gone to the earlier one and are not repeated (`Paired`).  A request whose offer fails is lost, here and in
ConnectionRecord.

## 8. What is not modelled, and why

- Data: SDPs, codecs (but for one bit in P2PRecord), payload types, the contents of RTP and RTCP packets, JSON.  The protocols
  depend on whether there is something to offer, not on what.
- Data races on fields (`reset` without the lock, the maps of P2PController): the order of accesses
  is modelled, torn reads and concurrent map writes, which end the process, are not.
- `AddTrack` and `NewTrack` failing while the lock is held, and failed writes in
  Forwarding (they are in Negotiation and P2PRecord as `WriteFails`).
- ICE gathering always completes; `createAnswer` waits for it with the lock.
- The locks inside the concurrent maps.
- Loss rates, bandwidth and the resends that read the jitter buffer: arithmetic on reports, without a state of
  their own that a later step depends on.
- The RTCP channel of a P2PRecord; its code is that of ConnectionRecord but for the gap above.
- Targets that announce streams on the connection they receive on.  The controller is the
  same; what is left out is that a user is source and target on one data channel.
- The composition of Membership and Forwarding for users who come back, and of P2P and P2PRecord: each
  of the modules is near the largest state space that can be searched in minutes,
  and they meet only in `cr.pc`, which PeerConnections describes.
- The experiment switches, which are constants in the code, are taken at their values.
- HTTP API, command line, configuration, buffer pool, scripts, tests: read-only views or no protocol state.

## 9. Plan

Done, in this order: Negotiation with its proofs; Forwarding; RtcpChannel with its proofs; Bridge; Membership;
PeerConnections with its refinement and proof; JitterBuffer; P2P; P2PRecord; the proofs of Bridge, Membership,
Forwarding, P2PRecord, P2P and JitterBuffer; Distribution with its refinements by Forwarding and P2PRecord and their
proofs; the deadlocks of Forwarding, the loops of the jitter buffer and the requests of P2PRecord, which is what their
liveness needs of safety.  Every invariant a run checks is proved but `AnnouncersGoOn`.  Left:

1. The identity of offers and answers, with which an answer to the offer of an earlier peer
   connection is told from that to the current.
2. Users who come back in Distribution, and with them the composition of Membership and Forwarding.
3. ICE gathering that does not complete, and the RTCP channel of P2PRecord.
