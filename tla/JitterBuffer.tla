---------------------------- MODULE JitterBuffer ----------------------------
(***************************************************************************)
(* The jitter buffer of a sender's video (internal/jitterbuffer), with the *)
(* goroutines around it (connectionrecord.go).                             *)
(*                                                                         *)
(* A pump pushes the packets of one track after the other.  For each track *)
(* the first packet makes a Buffer, an array with a slot for every         *)
(* sequence number, and starts a loop that takes the buffer's NACKs over   *)
(* into the JitterBuffer's channel.  The PLI and the REMB loop put their   *)
(* reports there too, and the record's consumer writes them to the peer    *)
(* connection.  All but the pump and the track end with the context that   *)
(* the record was made with; a reset cancels it.                           *)
(*                                                                         *)
(* Packets are numbered as the remote sends them; the network loses some   *)
(* and lets some come late.  A slot holds the number of its packet.        *)
(***************************************************************************)
EXTENDS Integers, FiniteSets, FiniteSetsExt

CONSTANTS
  SNs,          \* sequence numbers: maxSN
  TSs,          \* timestamps, 2^32
  MaxAge,       \* maxBufferTSDelta
  Window,       \* maxNackLostSize
  NackCap,      \* maxPktSize, the size of a buffer's channel
  RtcpCap,      \* the size of the JitterBuffer's channel
  Loops,        \* the PLI loop and the REMB loop, which differ in their period
  Streams,      \* how streams start: [sn, ts, pause], see SN and TS
  MaxPackets,   \* bound: packets sent
  MaxGap,       \* bound: packets lost in a row, plus one
  MaxLate,      \* bound: how far behind the newest a packet comes
  MaxTracks     \* bound: tracks

ASSUME JitterBufferAssumption ==
  /\ {SNs, TSs, MaxAge, Window, NackCap, RtcpCap, MaxGap} \subseteq Nat \ {0}
  /\ {MaxPackets, MaxLate, MaxTracks} \subseteq Nat
  /\ Window < SNs /\ MaxAge < TSs
  /\ Streams \subseteq [sn : 0..SNs - 1, ts : 0..TSs - 1, pause : Nat]

Nil == 0
Tracks == 1..MaxTracks
Slots == 0..SNs - 1

VARIABLES
  stream,     \* the stream the remote sends
  pump,       \* of the track, with the packet it pushed last
  track,      \* the last track
  buffer,     \* its Buffer
  nacked,     \* the sequence numbers that its last scan asks for
  queue,      \* how many NACKs are in the channel of each track's buffer
  nackLoop,
  rtcp,       \* how many reports are in the channel of the JitterBuffer
  loop,       \* its PLI and its REMB loop
  consumer,   \* the goroutine that writes the reports
  done,       \* the context is done
  arrived,    \* history: the packets pushed
  skipped     \* history: those of them that clearing passes by, because they
              \* came when it had no place to start or after a newer one

historyVars == <<arrived, skipped>>
bufferVars == <<buffer, nacked, historyVars>>
queueVars == <<queue, nackLoop>>
rtcpVars == <<rtcp, loop, consumer, done>>
vars == <<stream, pump, track, bufferVars, queueVars, rtcpVars>>

Buffer ==
  [slot : [Slots -> 0..MaxPackets], present : BOOLEAN,
   clearTS : 0..TSs - 1, clearSN : Slots, nackSN : Slots]

TypeOK ==
  /\ stream \in Streams
  /\ pump \in [at : {"off", "read", "send"}, pkt : 0..MaxPackets, scanned : BOOLEAN]
  /\ track \in 0..MaxTracks
  /\ buffer \in Buffer
  /\ nacked \subseteq Slots
  /\ queue \in [Tracks -> [len : 0..NackCap, closed : BOOLEAN]]
  /\ nackLoop \in [Tracks -> {"none", "wait", "forward", "ended"}]
  /\ rtcp \in 0..RtcpCap
  /\ loop \in [Loops -> {"wait", "send", "ended"}]
  /\ consumer \in {"wait", "ended"}
  /\ done \in BOOLEAN
  /\ arrived \subseteq 1..MaxPackets
  /\ skipped \subseteq arrived

SN(i) == (stream.sn + i - 1) % SNs

(* Before the packet after the pause nothing is sent for MaxAge.           *)
TS(i) == (stream.ts + i - 1 + IF i > stream.pause THEN MaxAge ELSE 0) % TSs

Newest == IF arrived = {} THEN 0 ELSE Max(arrived)

-----------------------------------------------------------------------------
(* Push. *)

NewBuffer ==
  [slot |-> [s \in Slots |-> Nil], present |-> FALSE,
   clearTS |-> 0, clearSN |-> 0, nackSN |-> 0]

TSDelta(x, y) == IF x > y THEN x - y ELSE y - x

(* Zero stands for not set.                                                *)
Initialised(b, i) ==
  [b EXCEPT !.present = TRUE,
            !.clearTS = IF @ = 0 THEN TS(i) ELSE @,
            !.clearSN = IF @ = 0 THEN SN(i) ELSE @,
            !.nackSN = IF @ = 0 THEN SN(i) ELSE @]

Stored(b, i) == [b EXCEPT !.slot[SN(i)] = i]

(* Mutant: clearing ends at a lost packet.                                 *)
ClearToGap(b, i) ==
  LET slots == (b.clearSN + 1) % SNs .. SN(i)
      old(s) == b.slot[s] # Nil /\ TSDelta(TS(i), TS(b.slot[s])) >= MaxAge
      cleared == {s \in slots : \A t \in slots : t <= s => old(t)}
  IN IF cleared = {} THEN b
     ELSE [b EXCEPT !.slot = [s \in Slots |-> IF s \in cleared THEN Nil ELSE @[s]],
                    !.clearTS = TS(b.slot[Max(cleared)]),
                    !.clearSN = Max(cleared)]

(* From the last cleared slot to that of packet i, empty slots skipped,    *)
(* the packets that are old are cleared up to the first that is not.       *)
ClearOldPkt(b, i) ==
  LET slots == (b.clearSN + 1) % SNs .. SN(i)
      old(s) == TSDelta(TS(i), TS(b.slot[s])) >= MaxAge
      young == {s \in slots : b.slot[s] # Nil /\ ~old(s)}
      cleared == {s \in slots : /\ b.slot[s] # Nil /\ old(s)
                                /\ \A y \in young : s < y}
  IN IF TSDelta(TS(i), b.clearTS) < MaxAge \/ cleared = {} THEN b
     ELSE [b EXCEPT !.slot = [s \in Slots |-> IF s \in cleared THEN Nil ELSE @[s]],
                    !.clearTS = TS(b.slot[Max(cleared)]),
                    !.clearSN = Max(cleared)]

(* Mutants: begin is left out; the window is walked without wrapping.      *)
NackPairAfter(b, begin, end) ==
  {s \in Slots : begin < s /\ s < end /\ b.slot[s] = Nil}

NackPairUnwrapped(b, begin, end) ==
  {begin + d : d \in {n \in 0..Window - 1 : b.slot[(begin + n) % SNs] = Nil}}

(* The slots from begin up to end, end not included, that are empty.  When *)
(* the first of them is slot 0 it is taken for no loss, and the pair made  *)
(* for that asks for 0.  Nothing is found when begin is above end.         *)
GetNackPair(b, begin, end) ==
  LET empty == {s \in Slots : begin <= s /\ s < end /\ b.slot[s] = Nil}
  IN IF 0 \in empty THEN {0} ELSE empty

(* The window is cut to its size, and scanned when it has it.              *)
Due(b, i) == (SN(i) - b.nackSN) % SNs >= Window

Begin(i) == (SN(i) - Window) % SNs

Receivable ==
  {i \in 1..MaxPackets : i \notin arrived /\ i > Newest - MaxLate /\ i <= Newest + MaxGap}

(* The buffer is looked up or made, with its loop, and the packet pushed.  *)
(* When the NACK of the scan does not fit into the channel, the pump waits *)
(* with it.                                                                *)
Push(i) ==
  LET b == ClearOldPkt(Stored(Initialised(buffer, i), i), i)
      asked == IF Due(b, i) THEN GetNackPair(b, Begin(i), SN(i)) ELSE {}
  IN /\ pump.at = "read"
     /\ i \in Receivable
     /\ pump' = [at |-> IF asked # {} THEN "send" ELSE "read", pkt |-> i,
                 scanned |-> Due(b, i)]
     /\ buffer' = IF Due(b, i) THEN [b EXCEPT !.nackSN = SN(i)] ELSE b
     /\ nacked' = asked
     /\ arrived' = arrived \cup {i}
     /\ skipped' = IF i < Newest \/ buffer.clearSN = 0 THEN skipped \cup {i} ELSE skipped
     /\ nackLoop' = IF buffer.present THEN nackLoop
                    ELSE [nackLoop EXCEPT ![track] = "wait"]
     /\ UNCHANGED <<stream, track, queue, rtcpVars>>

PushNack ==
  /\ pump.at = "send"
  /\ queue[track].len < NackCap
  /\ queue' = [queue EXCEPT ![track].len = @ + 1]
  /\ pump' = [pump EXCEPT !.at = "read"]
  /\ UNCHANGED <<stream, track, bufferVars, nackLoop, rtcpVars>>

-----------------------------------------------------------------------------
(* The tracks. *)

Off == [at |-> "off", pkt |-> Nil, scanned |-> FALSE]

TrackStarts ==
  /\ pump.at = "off"
  /\ track < MaxTracks
  /\ track' = track + 1
  /\ stream' \in Streams
  /\ pump' = [pump EXCEPT !.at = "read"]
  /\ UNCHANGED <<bufferVars, queueVars, rtcpVars>>

(* Mutant: the buffer is deleted, but its channel stays open.              *)
Deleted(q) == q

(* RemoveBuffer: it is stopped.                                            *)
Stopped(q) == [q EXCEPT ![track].closed = TRUE]

TrackEnds ==
  /\ pump.at = "read"
  /\ pump' = Off
  /\ queue' = IF buffer.present THEN Stopped(queue) ELSE queue
  /\ buffer' = NewBuffer
  /\ nacked' = {}
  /\ arrived' = {}
  /\ skipped' = {}
  /\ UNCHANGED <<stream, track, nackLoop, rtcpVars>>

-----------------------------------------------------------------------------
(* The loops.  A select chooses among what is ready. *)

pumpVars == <<stream, pump, track, bufferVars>>

NackLoopTakes(t) ==
  /\ nackLoop[t] = "wait"
  /\ queue[t].len > 0
  /\ queue' = [queue EXCEPT ![t].len = @ - 1]
  /\ nackLoop' = [nackLoop EXCEPT ![t] = "forward"]
  /\ UNCHANGED <<pumpVars, rtcpVars>>

NackLoopForwards(t) ==
  /\ nackLoop[t] = "forward"
  /\ rtcp < RtcpCap
  /\ rtcp' = rtcp + 1
  /\ nackLoop' = [nackLoop EXCEPT ![t] = "wait"]
  /\ UNCHANGED <<pumpVars, queue, loop, consumer, done>>

(* The closed channel gives a nil once it is empty.                        *)
NackLoopEnds(t) ==
  /\ nackLoop[t] = "wait"
  /\ done \/ (queue[t].closed /\ queue[t].len = 0)
  /\ nackLoop' = [nackLoop EXCEPT ![t] = "ended"]
  /\ UNCHANGED <<pumpVars, queue, rtcpVars>>

NackLoop(t) == NackLoopTakes(t) \/ NackLoopForwards(t) \/ NackLoopEnds(t)

(* The timer of the PLI or the REMB loop fires: it reports for the buffer. *)
LoopTicks(l) ==
  /\ loop[l] = "wait"
  /\ buffer.present
  /\ loop' = [loop EXCEPT ![l] = "send"]
  /\ UNCHANGED <<pumpVars, queueVars, rtcp, consumer, done>>

LoopSends(l) ==
  /\ loop[l] = "send"
  /\ rtcp < RtcpCap
  /\ rtcp' = rtcp + 1
  /\ loop' = [loop EXCEPT ![l] = "wait"]
  /\ UNCHANGED <<pumpVars, queueVars, consumer, done>>

LoopEnds(l) ==
  /\ loop[l] = "wait"
  /\ done
  /\ loop' = [loop EXCEPT ![l] = "ended"]
  /\ UNCHANGED <<pumpVars, queueVars, rtcp, consumer, done>>

Loop(l) == LoopSends(l) \/ LoopEnds(l)

(* A report is written to the record's peer connection, if it has one.     *)
ConsumerWrites ==
  /\ consumer = "wait"
  /\ rtcp > 0
  /\ rtcp' = rtcp - 1
  /\ UNCHANGED <<pumpVars, queueVars, loop, consumer, done>>

ConsumerEnds ==
  /\ consumer = "wait"
  /\ done
  /\ consumer' = "ended"
  /\ UNCHANGED <<pumpVars, queueVars, rtcp, loop, done>>

(* The record is reset, or the websocket goes down.                        *)
Reset ==
  /\ ~done
  /\ done' = TRUE
  /\ UNCHANGED <<pumpVars, queueVars, rtcp, loop, consumer>>

-----------------------------------------------------------------------------
Init ==
  /\ stream \in Streams
  /\ pump = Off
  /\ track = 0
  /\ buffer = NewBuffer
  /\ nacked = {}
  /\ queue = [t \in Tracks |-> [len |-> 0, closed |-> FALSE]]
  /\ nackLoop = [t \in Tracks |-> "none"]
  /\ rtcp = 0
  /\ loop = [l \in Loops |-> "wait"]
  /\ consumer = "wait"
  /\ done = FALSE
  /\ arrived = {}
  /\ skipped = {}

Consumer == ConsumerWrites \/ ConsumerEnds

Next ==
  \/ \E i \in 1..MaxPackets : Push(i)
  \/ PushNack \/ TrackStarts \/ TrackEnds
  \/ \E t \in Tracks : NackLoop(t)
  \/ \E l \in Loops : LoopTicks(l) \/ Loop(l)
  \/ Consumer \/ Reset

Spec == Init /\ [][Next]_vars

(* The goroutines run.  A sender that waits at a full channel is served in *)
(* its turn, which is why each gets strong fairness.  No packet needs to   *)
(* come, no track to end and no timer to fire.                             *)
FairSpec ==
  /\ Spec
  /\ WF_vars(PushNack)
  /\ WF_vars(Consumer)
  /\ \A t \in Tracks : SF_vars(NackLoop(t))
  /\ \A l \in Loops : SF_vars(Loop(l))

-----------------------------------------------------------------------------
(* Two things that a stream of the run has and the proofs suppose: no      *)
(* timestamp comes a second time, and no packet comes after one that was   *)
(* sent MaxAge later, unless by a pause within one round of sequence       *)
(* numbers.                                                                *)
NoTimestampWraps == \A s \in Streams : s.ts + MaxPackets + MaxAge <= TSs

LateInTime ==
  /\ MaxLate <= MaxAge /\ MaxLate <= SNs
  /\ \A s \in Streams : s.pause = 0 \/ s.sn + s.pause + MaxLate <= SNs

(* In the first round no sequence number has come a second time.           *)
FirstRound == stream.sn + Newest <= SNs

TooOld(i) == TSDelta(TS(Newest), TS(i)) >= MaxAge

(* What the scan at the last packet was about, and what of it is lost.     *)
Scanned == pump.pkt - Window .. pump.pkt - 1
Lost(i) == i \notin arrived \/ TooOld(i)

(* A scan asks for nothing that is there: each packet it names never came  *)
(* or came MaxAge before the newest.  In the first round it also names     *)
(* every one of its window that did not come, late packets or not, unless  *)
(* the window begins before sequence number 0 or at it.                    *)
NackExact ==
  pump.scanned =>
    /\ \A s \in nacked : \E i \in Scanned : SN(i) = s /\ Lost(i)
    /\ FirstRound /\ SN(pump.pkt) > Window
         => \A i \in Scanned : i \in arrived \/ SN(i) \in nacked

(* In the first round the buffer keeps nothing for longer than MaxAge but  *)
(* the packets that came after a newer one and the first, with which the   *)
(* mark of what is cleared is set: also the one after sequence number 0,   *)
(* the value of a mark that is not set.                                    *)
BufferTime ==
  FirstRound =>
    \A s \in Slots :
      buffer.slot[s] # Nil /\ TooOld(buffer.slot[s]) => buffer.slot[s] \in skipped

(* The pump, which also forwards the track, does not wait for ever with a  *)
(* NACK, and the loop of a track that has ended ends, unless a reset has   *)
(* taken the goroutine that reads the reports away.                        *)
Ended(t) == t < track \/ (t = track /\ pump.at = "off")

NacksFlow ==
  /\ pump.at = "send" ~> pump.at # "send" \/ done
  /\ \A t \in Tracks :
       Ended(t) ~> nackLoop[t] \in {"none", "ended"} \/ (nackLoop[t] = "forward" /\ done)

(* What that needs of every state: a NACK that is in a channel, or with    *)
(* which the pump waits, has the loop that takes it, also while the buffer *)
(* is deleted and made anew; and the loop of an ended track was told so.   *)
Serves(t) == nackLoop[t] \in {"wait", "forward"}
Waiting(t) == queue[t].len > 0 \/ (t = track /\ pump.at = "send")
LoopsServe ==
  \A t \in Tracks :
    /\ Waiting(t) /\ ~done => Serves(t)
    /\ Ended(t) /\ Serves(t) => queue[t].closed
=============================================================================
