------------------------- MODULE JitterBufferProof -------------------------
(***************************************************************************)
(* Proofs about JitterBuffer for any number of sequence numbers, any       *)
(* window, any streams and all bounds.                                     *)
(***************************************************************************)
EXTENDS JitterBuffer, WellFoundedInduction, TLAPS

-----------------------------------------------------------------------------
(* Arithmetic. *)

(* Every set of numbers up to a bound that is not empty has a largest.     *)
Below == {ss \in Nat \X Nat : ss[1] < ss[2]}

LEMMA BelowIsWellFounded == IsWellFoundedOn(Below, Nat)
  BY NatLessThanWellFounded DEF OpToRel, Below

LEMMA Largest ==
  ASSUME NEW n \in Nat, NEW S, S \subseteq 0..n, S # {}
  PROVE  Max(S) \in S /\ \A y \in S : y <= Max(S)
<1> DEFINE T == {t \in 0..n : n - t \in S}
<1>1. T \subseteq Nat /\ T # {}
  <2>1. PICK x \in S : x \in 0..n
    OBVIOUS
  <2>2. n - x \in 0..n /\ n - (n - x) = x
    BY <2>1
  <2>3. n - x \in T
    BY <2>2
  <2>4. T \subseteq Nat
    OBVIOUS
  <2> HIDE DEF T
  <2> QED BY <2>3, <2>4
<1>2. PICK t \in T : \A y \in T : ~(<<y, t>> \in Below)
  <2> HIDE DEF T
  <2> QED BY <1>1, BelowIsWellFounded, WFMin
<1>3. PICK x \in S : t = n - x
  <2>1. n - t \in S /\ t = n - (n - t)
    OBVIOUS
  <2> QED BY <2>1
<1>4. ASSUME NEW y \in S
      PROVE  y <= x
  <2>1. n - y \in 0..n /\ n - (n - y) = y /\ t \in Nat
    BY <1>1
  <2>3. n - y \in T
    BY <2>1
  <2>4. ~(<<n - y, t>> \in Below)
    BY <2>3, <1>2
  <2>2. ~(n - y < t)
    <3> HIDE DEF T
    <3>1. n - y \in Nat
      BY <2>1
    <3>2. <<n - y, t>> \in Nat \X Nat
      BY <3>1, <2>1
    <3> QED BY <2>4, <3>2 DEF Below
  <2> QED BY <2>2, <1>3
<1>5. \A y \in S : x >= y
  BY <1>4
<1> QED BY <1>5 DEF Max

(* Remainders. *)
LEMMA Remainder ==
  ASSUME NEW n \in Nat \ {0}, NEW x \in Int
  PROVE  x % n \in 0..n - 1 /\ (x \in 0..n - 1 => x % n = x)
  OBVIOUS

LEMMA SameRemainder ==
  ASSUME NEW n \in Nat \ {0}, NEW x \in Int, NEW y \in Int, x < y, x % n = y % n
  PROVE  y - x >= n
<1> DEFINE q == x \div n  p == y \div n  r == x % n
<1>1. q \in Int /\ p \in Int /\ r \in Int /\ x = n * q + r /\ y = n * p + r
  OBVIOUS
<1> HIDE DEF q, p, r
<1>2. y - x = n * (p - q)
  BY <1>1
<1>3. p - q >= 1
  <2>1. CASE p - q <= 0
    <3>1. n * (p - q) <= 0
      BY <2>1, <1>1
    <3> QED BY <3>1, <1>2
  <2> QED BY <2>1, <1>1
<1>4. n * (p - q) >= n
  BY <1>1, <1>3
<1> QED BY <1>2, <1>4

LEMMA RemainderBefore ==
  ASSUME NEW n \in Nat \ {0}, NEW x \in Int, NEW d \in Nat, d <= x % n
  PROVE  (x - d) % n = (x % n) - d
  OBVIOUS

-----------------------------------------------------------------------------
(* Sequence numbers and timestamps. *)

LEMMA Constants ==
  /\ SNs \in Nat \ {0} /\ TSs \in Nat \ {0} /\ MaxAge \in Nat \ {0}
  /\ Window \in Nat \ {0} /\ NackCap \in Nat \ {0} /\ RtcpCap \in Nat \ {0}
  /\ MaxPackets \in Nat /\ MaxLate \in Nat /\ MaxTracks \in Nat /\ MaxGap \in Nat
  /\ Window < SNs
  BY JitterBufferAssumption

LEMMA StreamType ==
  ASSUME stream \in Streams
  PROVE  /\ stream.sn \in 0..SNs - 1 /\ stream.ts \in 0..TSs - 1 /\ stream.pause \in Nat
  BY JitterBufferAssumption

LEMMA NumberType ==
  ASSUME stream \in Streams, NEW i \in Int
  PROVE  SN(i) \in Slots /\ TS(i) \in 0..TSs - 1
<1>1. stream.sn + i - 1 \in Int
  BY StreamType, Constants
<1>2. (stream.ts + i - 1 + IF i > stream.pause THEN MaxAge ELSE 0) \in Int
  BY StreamType, Constants
<1> QED BY <1>1, <1>2, Constants, Remainder DEF SN, TS, Slots

(* A sequence number comes again after a whole round.                      *)
LEMMA SameNumber ==
  ASSUME stream \in Streams, NEW i \in Int, NEW j \in Int, i < j, SN(i) = SN(j)
  PROVE  j - i >= SNs
<1>1. stream.sn + i - 1 \in Int /\ stream.sn + j - 1 \in Int
  BY StreamType, Constants
<1>2. (stream.sn + j - 1) - (stream.sn + i - 1) >= SNs
  BY <1>1, SameRemainder, Constants, StreamType DEF SN
<1> QED BY <1>2, StreamType, Constants

(* In the round in which a stream starts they are in the order of the      *)
(* packets.                                                                *)
LEMMA FirstNumbers ==
  ASSUME stream \in Streams, NEW i \in Int, 1 <= stream.sn + i, stream.sn + i <= SNs
  PROVE  SN(i) = stream.sn + i - 1
<1>1. stream.sn + i - 1 \in 0..SNs - 1
  BY StreamType, Constants
<1> DEFINE x == stream.sn + i - 1
<1>2. x % SNs = x
  <2> HIDE DEF x
  <2>1. x \in 0..SNs - 1
    BY <1>1 DEF x
  <2> QED BY <2>1, Constants
<1> QED BY <1>2 DEF SN

LEMMA Timestamps ==
  ASSUME NoTimestampWraps, stream \in Streams, NEW i \in 1..MaxPackets
  PROVE  TS(i) = stream.ts + i - 1 + IF i > stream.pause THEN MaxAge ELSE 0
<1>1. stream.ts + MaxPackets + MaxAge <= TSs
  BY DEF NoTimestampWraps
<1>2. stream.ts + i - 1 + (IF i > stream.pause THEN MaxAge ELSE 0) \in 0..TSs - 1
  BY <1>1, StreamType, Constants
<1> QED BY <1>2, Remainder, Constants DEF TS

LEMMA TimestampsGrow ==
  ASSUME NoTimestampWraps, stream \in Streams,
         NEW i \in 1..MaxPackets, NEW j \in 1..MaxPackets, i < j
  PROVE  /\ TS(i) + (j - i) <= TS(j)
         /\ i > stream.pause \/ j <= stream.pause => TS(i) + (j - i) = TS(j)
<1>1. i \in Nat /\ j \in Nat /\ MaxAge \in Nat /\ stream.ts \in Nat /\ stream.pause \in Nat
  BY StreamType, Constants
<1> QED BY <1>1, Timestamps

-----------------------------------------------------------------------------
(* What Push does to the buffer, by parts. *)

(* The slots that clearing walks over, and what it takes out of them.      *)
Walked(b, i) == (b.clearSN + 1) % SNs .. SN(i)
Old(b, i, s) == TSDelta(TS(i), TS(b.slot[s])) >= MaxAge
Young(b, i) == {s \in Walked(b, i) : b.slot[s] # Nil /\ ~Old(b, i, s)}
Cleared(b, i) ==
  {s \in Walked(b, i) : /\ b.slot[s] # Nil /\ Old(b, i, s)
                        /\ \A y \in Young(b, i) : s < y}

Taken(b, i) ==
  [b EXCEPT !.slot = [s \in Slots |-> IF s \in Cleared(b, i) THEN Nil ELSE @[s]],
            !.clearTS = TS(b.slot[Max(Cleared(b, i))]),
            !.clearSN = Max(Cleared(b, i))]

LEMMA ClearingTakes ==
  ASSUME NEW b, NEW i
  PROVE  ClearOldPkt(b, i) =
           IF TSDelta(TS(i), b.clearTS) < MaxAge \/ Cleared(b, i) = {} THEN b ELSE Taken(b, i)
  BY DEF ClearOldPkt, Taken, Cleared, Young, Old, Walked

LEMMA DeltaType ==
  ASSUME NEW x \in Int, NEW y \in Int
  PROVE  /\ TSDelta(x, y) \in Nat
         /\ x >= y => TSDelta(x, y) = x - y
         /\ x <= y => TSDelta(x, y) = y - x
  BY DEF TSDelta

LEMMA WalkedSlots ==
  ASSUME stream \in Streams, NEW b \in Buffer, NEW i \in 1..MaxPackets
  PROVE  Walked(b, i) \subseteq Slots
<1>1. b.clearSN + 1 \in Int
  BY Constants DEF Buffer, Slots
<1>2. (b.clearSN + 1) % SNs \in 0..SNs - 1
  BY <1>1, Remainder, Constants
<1>3. i \in Int
  BY Constants
<1> QED BY <1>2, <1>3, NumberType, Constants DEF Walked, Slots

(* Of the slots that clearing walks over it takes the old ones, up to the  *)
(* last of them with no young one before it, and sets its mark there.      *)
LEMMA Clearing ==
  ASSUME stream \in Streams, NEW b \in Buffer, NEW i \in 1..MaxPackets,
         NEW c, c = ClearOldPkt(b, i)
  PROVE  /\ c \in Buffer /\ c.present = b.present /\ c.nackSN = b.nackSN
         /\ \A s \in Slots : c.slot[s] \in {b.slot[s], Nil}
         /\ \A s \in Slots : c.slot[s] # b.slot[s] =>
              b.slot[s] # Nil /\ s \in Walked(b, i) /\ Old(b, i, s)
         /\ \/ c = b
            \/ \E m \in Walked(b, i) :
                 /\ b.slot[m] # Nil /\ Old(b, i, m)
                 /\ c.clearSN = m /\ c.clearTS = TS(b.slot[m])
                 /\ \A s \in Walked(b, i) : s <= m => c.slot[s] = Nil
         /\ TSDelta(TS(i), b.clearTS) >= MaxAge =>
              \A s \in Walked(b, i) :
                c.slot[s] # Nil => \E y \in Walked(b, i) : y <= s /\ b.slot[y] # Nil /\ ~Old(b, i, y)
<1> DEFINE C == Cleared(b, i)  m == Max(C)
<1>s. Walked(b, i) \subseteq Slots
  BY WalkedSlots
<1>n. /\ \A s \in Slots : b.slot[s] \in 0..MaxPackets
      /\ \A s \in Slots : s \in Int
      /\ Slots = 0..SNs - 1
  BY Constants DEF Buffer, Slots
<1>w. \A s \in Walked(b, i) : b.slot[s] # Nil => s \in C \/ \E y \in Walked(b, i) : y <= s /\ b.slot[y] # Nil /\ ~Old(b, i, y)
  BY <1>s, <1>n DEF Cleared, Young
<1>d. TSDelta(TS(i), b.clearTS) \in Nat
  <2>1. TS(i) \in Int /\ b.clearTS \in Int
    BY NumberType, Constants DEF Buffer
  <2> QED BY <2>1, DeltaType
<1>1. CASE c = b
  <2>1. TSDelta(TS(i), b.clearTS) >= MaxAge => C = {}
    <3>1. ASSUME TSDelta(TS(i), b.clearTS) >= MaxAge, C # {}
          PROVE  FALSE
      <4>1. c = Taken(b, i)
        BY <3>1, <1>d, ClearingTakes, Constants
      <4>2. PICK s \in C : TRUE
        BY <3>1
      <4>3. s \in Slots /\ b.slot[s] # Nil
        BY <4>2, <1>s DEF Cleared
      <4>4. Taken(b, i).slot[s] = Nil
        BY <4>2, <4>3 DEF Taken, Buffer
      <4> QED BY <4>1, <4>3, <4>4, <1>1
    <3> QED BY <3>1
  <2> QED BY <1>1, <2>1, <1>w
<1>2. CASE c # b
  <2>1. c = Taken(b, i) /\ C # {}
    BY <1>2, ClearingTakes
  <2>2. C \subseteq 0..SNs - 1
    BY <1>s, <1>n DEF Cleared
  <2>3. m \in C /\ \A y \in C : y <= m
    BY <2>1, <2>2, Largest, Constants
  <2>4. m \in Walked(b, i) /\ b.slot[m] # Nil /\ Old(b, i, m) /\ \A y \in Young(b, i) : m < y
    BY <2>3 DEF Cleared
  <2>5. /\ c.slot = [s \in Slots |-> IF s \in C THEN Nil ELSE b.slot[s]]
        /\ c.clearTS = TS(b.slot[m]) /\ c.clearSN = m
        /\ c.present = b.present /\ c.nackSN = b.nackSN
    BY <2>1 DEF Taken, Buffer
  <2>6. c \in Buffer
    <3>1. TS(b.slot[m]) \in 0..TSs - 1
      <4>1. b.slot[m] \in Int
        BY <2>4, <1>s, <1>n, Constants
      <4> QED BY <4>1, NumberType
    <3>2. m \in Slots
      BY <2>4, <1>s
    <3>3. [s \in Slots |-> IF s \in C THEN Nil ELSE b.slot[s]] \in [Slots -> 0..MaxPackets]
      BY <1>n, Constants DEF Nil
    <3> HIDE DEF C, m
    <3> QED BY <2>1, <3>1, <3>2, <3>3 DEF Taken, Buffer, C, m
  <2>7. \A s \in C : b.slot[s] # Nil /\ s \in Walked(b, i) /\ Old(b, i, s)
    BY DEF Cleared
  <2>8. ASSUME NEW s \in Walked(b, i), s <= m
        PROVE  c.slot[s] = Nil
    <3>1. s \in Slots /\ m \in Slots
      BY <1>s, <2>4
    <3>2. CASE b.slot[s] = Nil
      BY <3>1, <3>2, <2>5
    <3>3. CASE b.slot[s] # Nil
      <4>1. \A y \in Young(b, i) : y \in Int /\ s < y
        BY <2>4, <2>8, <3>1, <1>s, <1>n DEF Young
      <4>2. s \in C
        BY <4>1, <3>3, <3>1, <1>n DEF Cleared, Young
      <4> QED BY <4>2, <3>1, <2>5
    <3> QED BY <3>2, <3>3
  <2>9. \A s \in Walked(b, i) : c.slot[s] # Nil => b.slot[s] # Nil /\ s \notin C
    BY <1>s, <2>5
  <2> HIDE DEF C, m
  <2>10. \A s \in Slots : c.slot[s] = IF s \in C THEN Nil ELSE b.slot[s]
    BY <2>5
  <2> QED BY <2>4, <2>5, <2>6, <2>7, <2>8, <2>9, <2>10, <1>w
<1> QED BY <1>1, <1>2

(* The buffer with the packet in its slot, and then cleared.               *)
Filled(i) == Stored(Initialised(buffer, i), i)
Swept(i) == ClearOldPkt(Filled(i), i)

LEMMA Filling ==
  ASSUME TypeOK, NEW i \in 1..MaxPackets
  PROVE  /\ Filled(i) \in Buffer /\ Filled(i).present = TRUE
         /\ \A s \in Slots : Filled(i).slot[s] = IF s = SN(i) THEN i ELSE buffer.slot[s]
         /\ Filled(i).clearTS = IF buffer.clearTS = 0 THEN TS(i) ELSE buffer.clearTS
         /\ Filled(i).clearSN = IF buffer.clearSN = 0 THEN SN(i) ELSE buffer.clearSN
         /\ Filled(i).nackSN = IF buffer.nackSN = 0 THEN SN(i) ELSE buffer.nackSN
<1>1. SN(i) \in Slots /\ TS(i) \in 0..TSs - 1 /\ i \in 0..MaxPackets
  BY NumberType, Constants DEF TypeOK
<1>2. buffer \in Buffer
  BY DEF TypeOK
<1>3. Initialised(buffer, i) \in Buffer
  BY <1>1, <1>2 DEF Initialised, Buffer
<1> QED BY <1>1, <1>2, <1>3 DEF Filled, Stored, Initialised, Buffer

LEMMA Pushing ==
  ASSUME TypeOK, NEW i \in 1..MaxPackets, Push(i)
  PROVE  /\ pump.at = "read" /\ i \in Receivable
         /\ pump'.at \in {"read", "send"} /\ pump'.pkt = i /\ pump'.scanned \in BOOLEAN
         /\ pump' \in [at : {"off", "read", "send"}, pkt : 0..MaxPackets, scanned : BOOLEAN]
         /\ buffer' \in Buffer /\ buffer'.slot = Swept(i).slot
         /\ buffer'.clearTS = Swept(i).clearTS /\ buffer'.clearSN = Swept(i).clearSN
         /\ buffer'.present = TRUE
         /\ pump'.scanned => nacked' = GetNackPair(Swept(i), Begin(i), SN(i))
         /\ nacked' \subseteq Slots
         /\ arrived' = arrived \cup {i}
         /\ skipped' = IF i < Newest \/ buffer.clearSN = 0 THEN skipped \cup {i} ELSE skipped
         /\ UNCHANGED <<stream, track, queue, rtcpVars>>
<1> DEFINE b == Swept(i)
           asked == IF Due(b, i) THEN GetNackPair(b, Begin(i), SN(i)) ELSE {}
<1>1. Filled(i) \in Buffer /\ Filled(i).present = TRUE
  BY Filling
<1>2. b \in Buffer /\ b.present = TRUE
  BY <1>1, Clearing DEF Swept, TypeOK
<1>3. /\ pump.at = "read" /\ i \in Receivable
      /\ pump' = [at |-> IF asked # {} THEN "send" ELSE "read", pkt |-> i, scanned |-> Due(b, i)]
      /\ buffer' = IF Due(b, i) THEN [b EXCEPT !.nackSN = SN(i)] ELSE b
      /\ nacked' = asked
      /\ arrived' = arrived \cup {i}
      /\ skipped' = IF i < Newest \/ buffer.clearSN = 0 THEN skipped \cup {i} ELSE skipped
      /\ UNCHANGED <<stream, track, queue, rtcpVars>>
  BY DEF Push, Swept, Filled
<1>4. Due(b, i) \in BOOLEAN
  BY DEF Due
<1>5. asked \subseteq Slots
  <2>1. 0 \in Slots
    BY Constants DEF Slots
  <2> QED BY <2>1 DEF GetNackPair
<1>6. SN(i) \in Slots
  BY NumberType, Constants DEF TypeOK
<1>7. /\ buffer' \in Buffer /\ buffer'.slot = b.slot /\ buffer'.clearTS = b.clearTS
      /\ buffer'.clearSN = b.clearSN /\ buffer'.present = TRUE
  <2> HIDE DEF b, asked
  <2> QED BY <1>2, <1>3, <1>6 DEF Buffer
<1>8. i \in 0..MaxPackets
  BY Constants
<1> HIDE DEF b, asked
<1>9. /\ pump'.at \in {"read", "send"} /\ pump'.pkt = i /\ pump'.scanned = Due(b, i)
      /\ pump' \in [at : {"off", "read", "send"}, pkt : 0..MaxPackets, scanned : BOOLEAN]
  BY <1>3, <1>4, <1>8
<1>10. pump'.scanned => nacked' = GetNackPair(Swept(i), Begin(i), SN(i))
  BY <1>3, <1>9 DEF b, asked
<1> QED BY <1>3, <1>4, <1>5, <1>7, <1>9, <1>10 DEF b

-----------------------------------------------------------------------------
(* Types. *)

(* Between two tracks there is no buffer and nothing has come.             *)
Between ==
  /\ pump.at = "off" => arrived = {} /\ pump = Off
  /\ pump.at # "off" => track \in Tracks
  /\ arrived = {} => buffer = NewBuffer

LEMMA NewBufferType == NewBuffer \in Buffer
  BY Constants DEF NewBuffer, Buffer, Slots, Nil

LEMMA TypeInit == ASSUME Init PROVE TypeOK /\ Between
<1>1. TypeOK
  <2>1. pump \in [at : {"off", "read", "send"}, pkt : 0..MaxPackets, scanned : BOOLEAN]
    BY Constants DEF Init, Off, Nil
  <2>2. queue \in [Tracks -> [len : 0..NackCap, closed : BOOLEAN]]
    <3>1. [len |-> 0, closed |-> FALSE] \in [len : 0..NackCap, closed : BOOLEAN]
      BY Constants
    <3> QED BY <3>1 DEF Init
  <2>3. buffer \in Buffer
    BY NewBufferType DEF Init
  <2>4. track \in 0..MaxTracks /\ rtcp \in 0..RtcpCap
    BY Constants DEF Init
  <2> QED BY <2>1, <2>2, <2>3, <2>4 DEF Init, TypeOK
<1>2. Between
  BY DEF Init, Between, Off
<1> QED BY <1>1, <1>2

QueueType == [len : 0..NackCap, closed : BOOLEAN]
LoopStates == {"none", "wait", "forward", "ended"}

LEMMA TypeStep ==
  ASSUME TypeOK, Between, [Next]_vars
  PROVE  TypeOK' /\ Between'
<1> USE Constants
<1>q. ASSUME NEW t \in Tracks, NEW n \in 0..NackCap, NEW c \in BOOLEAN
      PROVE  /\ [queue EXCEPT ![t].len = n] \in [Tracks -> QueueType]
             /\ [queue EXCEPT ![t].closed = c] \in [Tracks -> QueueType]
  BY DEF TypeOK, QueueType
<1>n. ASSUME NEW t \in Tracks, NEW p \in LoopStates
      PROVE  [nackLoop EXCEPT ![t] = p] \in [Tracks -> LoopStates]
  BY DEF TypeOK, LoopStates
<1>l. ASSUME NEW l \in Loops, NEW p \in {"wait", "send", "ended"}
      PROVE  [loop EXCEPT ![l] = p] \in [Loops -> {"wait", "send", "ended"}]
  BY DEF TypeOK
<1>t. \A t \in Tracks : queue[t].len \in Nat /\ queue[t].len <= NackCap
  BY DEF TypeOK
<1>1. ASSUME NEW i \in 1..MaxPackets, Push(i)
      PROVE  TypeOK' /\ Between'
  <2>1. nackLoop' \in [Tracks -> LoopStates]
    <3>1. nackLoop' \in {nackLoop, [nackLoop EXCEPT ![track] = "wait"]}
      BY <1>1 DEF Push
    <3>2. track \in Tracks
      BY <1>1 DEF Push, Between
    <3> QED BY <3>1, <3>2, <1>n DEF TypeOK, LoopStates
  <2>2. arrived' \subseteq 1..MaxPackets /\ skipped' \subseteq arrived'
    <3>1. arrived' = arrived \cup {i} /\ skipped' \in {skipped, skipped \cup {i}}
      BY <1>1, Pushing
    <3>2. arrived \subseteq 1..MaxPackets /\ skipped \subseteq arrived
      BY DEF TypeOK
    <3> QED BY <3>1, <3>2
  <2>3. TypeOK'
    BY <1>1, Pushing, <2>1, <2>2 DEF TypeOK, LoopStates, rtcpVars
  <2>4. arrived' # {} /\ pump'.at # "off" /\ track' \in Tracks
    BY <1>1, Pushing DEF Between
  <2> QED BY <2>3, <2>4 DEF Between
<1>2. CASE PushNack
  <2>1. track \in Tracks /\ pump.at # "off"
    BY <1>2 DEF PushNack, Between
  <2>2. queue[track].len + 1 \in 0..NackCap
    BY <1>2, <2>1, <1>t DEF PushNack
  <2>3. queue' \in [Tracks -> QueueType]
    BY <1>2, <2>1, <2>2, <1>q DEF PushNack
  <2>4. pump' \in [at : {"off", "read", "send"}, pkt : 0..MaxPackets, scanned : BOOLEAN] /\ pump'.at = "read"
    BY <1>2 DEF PushNack, TypeOK
  <2>5. TypeOK'
    BY <1>2, <2>3, <2>4 DEF PushNack, TypeOK, bufferVars, historyVars, rtcpVars, QueueType, Buffer
  <2> QED BY <1>2, <2>1, <2>4, <2>5 DEF PushNack, Between, bufferVars, historyVars, NewBuffer
<1>3. CASE TrackStarts
  <2>1. track' \in Tracks /\ track' \in 0..MaxTracks
    BY <1>3 DEF TrackStarts, TypeOK, Tracks
  <2>2. pump' \in [at : {"off", "read", "send"}, pkt : 0..MaxPackets, scanned : BOOLEAN] /\ pump'.at = "read"
    BY <1>3 DEF TrackStarts, TypeOK
  <2>3. stream' \in Streams
    BY <1>3 DEF TrackStarts
  <2>4. TypeOK'
    BY <1>3, <2>1, <2>2, <2>3 DEF TrackStarts, TypeOK, bufferVars, historyVars, queueVars, rtcpVars, Buffer
  <2> QED BY <1>3, <2>1, <2>2, <2>4 DEF TrackStarts, Between, bufferVars, historyVars, NewBuffer
<1>4. CASE TrackEnds
  <2>1. track \in Tracks
    BY <1>4 DEF TrackEnds, Between
  <2>2. queue' \in [Tracks -> QueueType]
    BY <1>4, <2>1, <1>q DEF TrackEnds, Stopped, TypeOK, QueueType
  <2>3. buffer' \in Buffer
    BY <1>4, NewBufferType DEF TrackEnds
  <2>4. TypeOK'
    BY <1>4, <2>2, <2>3 DEF TrackEnds, TypeOK, Off, Nil, rtcpVars, QueueType, Buffer
  <2> QED BY <1>4, <2>4 DEF TrackEnds, Between, Off, NewBuffer
<1>5. ASSUME NEW t \in Tracks, NackLoop(t)
      PROVE  TypeOK' /\ Between'
  <2>1. CASE NackLoopTakes(t)
    <3>1. queue[t].len - 1 \in 0..NackCap
      BY <2>1, <1>t DEF NackLoopTakes
    <3>2. queue' \in [Tracks -> QueueType]
      BY <2>1, <3>1, <1>q DEF NackLoopTakes
    <3>3. nackLoop' \in [Tracks -> LoopStates]
      BY <2>1, <1>n DEF NackLoopTakes, LoopStates
    <3> QED BY <2>1, <3>2, <3>3 DEF NackLoopTakes, TypeOK, Between, pumpVars, bufferVars, historyVars, rtcpVars, QueueType, LoopStates, Buffer, NewBuffer
  <2>2. CASE NackLoopForwards(t)
    <3>1. rtcp' \in 0..RtcpCap
      BY <2>2 DEF NackLoopForwards, TypeOK
    <3>2. nackLoop' \in [Tracks -> LoopStates]
      BY <2>2, <1>n DEF NackLoopForwards, LoopStates
    <3> QED BY <2>2, <3>1, <3>2 DEF NackLoopForwards, TypeOK, Between, pumpVars, bufferVars, historyVars, LoopStates, Buffer, NewBuffer
  <2>3. CASE NackLoopEnds(t)
    <3>1. nackLoop' \in [Tracks -> LoopStates]
      BY <2>3, <1>n DEF NackLoopEnds, LoopStates
    <3> QED BY <2>3, <3>1 DEF NackLoopEnds, TypeOK, Between, pumpVars, bufferVars, historyVars, rtcpVars, LoopStates, Buffer, NewBuffer
  <2> QED BY <1>5, <2>1, <2>2, <2>3 DEF NackLoop
<1>6. ASSUME NEW l \in Loops, LoopTicks(l) \/ Loop(l)
      PROVE  TypeOK' /\ Between'
  <2>1. loop' \in [Loops -> {"wait", "send", "ended"}]
    BY <1>6, <1>l DEF LoopTicks, Loop, LoopSends, LoopEnds
  <2>2. rtcp' \in 0..RtcpCap
    BY <1>6 DEF LoopTicks, Loop, LoopSends, LoopEnds, TypeOK
  <2>3. UNCHANGED <<pumpVars, queueVars, consumer, done>>
    BY <1>6 DEF LoopTicks, Loop, LoopSends, LoopEnds
  <2> QED BY <2>1, <2>2, <2>3 DEF TypeOK, Between, pumpVars, bufferVars, historyVars, queueVars, Buffer, NewBuffer
<1>7. CASE Consumer
  <2>1. rtcp' \in 0..RtcpCap /\ consumer' \in {"wait", "ended"}
    BY <1>7 DEF Consumer, ConsumerWrites, ConsumerEnds, TypeOK
  <2>2. UNCHANGED <<pumpVars, queueVars, loop, done>>
    BY <1>7 DEF Consumer, ConsumerWrites, ConsumerEnds
  <2> QED BY <2>1, <2>2 DEF TypeOK, Between, pumpVars, bufferVars, historyVars, queueVars, Buffer, NewBuffer
<1>8. CASE Reset
  BY <1>8 DEF Reset, TypeOK, Between, pumpVars, bufferVars, historyVars, queueVars, Buffer, NewBuffer
<1>9. CASE UNCHANGED vars
  BY <1>9 DEF vars, TypeOK, Between, bufferVars, historyVars, queueVars, rtcpVars, Buffer, NewBuffer
<1> QED BY <1>1, <1>2, <1>3, <1>4, <1>5, <1>6, <1>7, <1>8, <1>9 DEF Next

-----------------------------------------------------------------------------
(* What the slots, the marks and the last scan have to do with the packets *)
(* that came.                                                              *)

(* A slot holds a packet that came, of its sequence number.                *)
Held ==
  \A s \in Slots :
    buffer.slot[s] # Nil => buffer.slot[s] \in arrived /\ SN(buffer.slot[s]) = s

(* The last scan is that of the last packet, over the slots as they are.   *)
Asked ==
  pump.scanned =>
    pump.pkt \in arrived /\ nacked = GetNackPair(buffer, Begin(pump.pkt), SN(pump.pkt))

(* The marks of clearing are those of packets that came.                   *)
Marked ==
  /\ arrived # {} => \E x \in arrived : buffer.clearSN = SN(x)
  /\ buffer.clearTS = 0 \/ \E x \in arrived : buffer.clearTS = TS(x)

Inv == TypeOK /\ Between /\ Held /\ Asked /\ Marked

(* A step pushes a packet, or leaves the buffer and what came alone, or    *)
(* begins without a buffer and with nothing that came.                     *)
Quiet ==
  /\ UNCHANGED <<stream, buffer, nacked, arrived, skipped>>
  /\ pump'.pkt = pump.pkt /\ pump'.scanned = pump.scanned
Anew ==
  arrived' = {} /\ skipped' = {} /\ buffer' = NewBuffer /\ pump'.scanned = FALSE

LEMMA Steps ==
  ASSUME TypeOK, Between, [Next]_vars
  PROVE  (\E i \in 1..MaxPackets : Push(i)) \/ Quiet \/ Anew
<1>1. CASE PushNack
  BY <1>1 DEF PushNack, Quiet, TypeOK, bufferVars, historyVars
<1>2. CASE TrackStarts
  <2>1. arrived = {} /\ pump = Off /\ buffer = NewBuffer /\ skipped = {}
    BY <1>2 DEF TrackStarts, Between, TypeOK
  <2> QED BY <1>2, <2>1 DEF TrackStarts, Anew, Off, bufferVars, historyVars
<1>3. CASE TrackEnds
  BY <1>3 DEF TrackEnds, Anew, Off
<1>4. ASSUME NEW t \in Tracks, NackLoop(t)
      PROVE  Quiet
  BY <1>4 DEF NackLoop, NackLoopTakes, NackLoopForwards, NackLoopEnds, Quiet, pumpVars, bufferVars, historyVars
<1>5. ASSUME NEW l \in Loops, LoopTicks(l) \/ Loop(l)
      PROVE  Quiet
  BY <1>5 DEF Loop, LoopTicks, LoopSends, LoopEnds, Quiet, pumpVars, bufferVars, historyVars
<1>6. CASE Consumer
  BY <1>6 DEF Consumer, ConsumerWrites, ConsumerEnds, Quiet, pumpVars, bufferVars, historyVars
<1>7. CASE Reset
  BY <1>7 DEF Reset, Quiet, pumpVars, bufferVars, historyVars
<1>8. CASE UNCHANGED vars
  BY <1>8 DEF vars, Quiet, bufferVars, historyVars
<1> QED BY <1>1, <1>2, <1>3, <1>4, <1>5, <1>6, <1>7, <1>8 DEF Next

LEMMA FilledHolds ==
  ASSUME TypeOK, Held, NEW i \in 1..MaxPackets, NEW s \in Slots, Filled(i).slot[s] # Nil
  PROVE  /\ Filled(i).slot[s] \in arrived \cup {i}
         /\ SN(Filled(i).slot[s]) = s
<1>1. Filled(i).slot[s] = IF s = SN(i) THEN i ELSE buffer.slot[s]
  BY Filling
<1> QED BY <1>1 DEF Held

LEMMA InvInit == ASSUME Init PROVE Inv
<1>1. Held /\ Asked /\ Marked
  BY DEF Init, Held, Asked, Marked, NewBuffer, Off
<1> QED BY <1>1, TypeInit DEF Inv

LEMMA InvStep ==
  ASSUME Inv, [Next]_vars
  PROVE  Inv'
<1>t. TypeOK /\ Between /\ Held /\ Asked /\ Marked
  BY DEF Inv
<1>1. TypeOK' /\ Between'
  BY <1>t, TypeStep
<1>2. CASE Quiet
  <2>1. Held' /\ Marked'
    BY <1>2, <1>t DEF Quiet, Held, Marked, SN, TS
  <2>2. Asked'
    BY <1>2, <1>t DEF Quiet, Asked, Begin, GetNackPair, SN
  <2> QED BY <1>1, <2>1, <2>2 DEF Inv
<1>3. CASE Anew
  BY <1>1, <1>3 DEF Anew, Inv, Held, Asked, Marked, NewBuffer, Slots
<1>4. ASSUME NEW i \in 1..MaxPackets, Push(i)
      PROVE  Inv'
  <2> DEFINE F == Filled(i)  c == Swept(i)
  <2>s. stream \in Streams /\ stream' = stream /\ i \in Int
    <3>1. stream' = stream
      BY <1>4 DEF Push
    <3>2. stream \in Streams
      BY <1>t DEF TypeOK
    <3>3. i \in Int
      BY Constants
    <3> QED BY <3>1, <3>2, <3>3
  <2>p. /\ buffer'.slot = c.slot /\ buffer'.clearSN = c.clearSN /\ buffer'.clearTS = c.clearTS
        /\ arrived' = arrived \cup {i} /\ pump'.pkt = i
        /\ pump'.scanned => nacked' = GetNackPair(c, Begin(i), SN(i))
    BY <1>4, <1>t, Pushing
  <2>F. F \in Buffer
    BY <1>t, Filling
  <2>c. /\ \A s \in Slots : c.slot[s] \in {F.slot[s], Nil}
        /\ \/ c = F
           \/ \E m \in Walked(F, i) :
                F.slot[m] # Nil /\ c.clearSN = m /\ c.clearTS = TS(F.slot[m])
    BY <2>F, <2>s, Clearing DEF Swept
  <2>h. \A s \in Slots : F.slot[s] # Nil => F.slot[s] \in arrived' /\ SN(F.slot[s]) = s
    BY <1>t, <2>p, FilledHolds
  <2>w. Walked(F, i) \subseteq Slots
    BY <2>F, <2>s, WalkedSlots
  <2>f. /\ F.clearTS = IF buffer.clearTS = 0 THEN TS(i) ELSE buffer.clearTS
        /\ F.clearSN = IF buffer.clearSN = 0 THEN SN(i) ELSE buffer.clearSN
    BY <1>t, Filling
  <2> HIDE DEF F, c
  <2>1. Held'
    <3>1. \A s \in Slots : buffer'.slot[s] # Nil =>
            buffer'.slot[s] \in arrived' /\ SN(buffer'.slot[s]) = s
      BY <2>p, <2>c, <2>h
    <3> QED BY <3>1, <2>s DEF Held, SN
  <2>2. Asked'
    <3>1. pump'.scanned => i \in arrived' /\ nacked' = GetNackPair(c, Begin(i), SN(i))
      BY <2>p
    <3>2. GetNackPair(c, Begin(i), SN(i)) = GetNackPair(buffer, Begin(pump.pkt), SN(pump.pkt))'
      BY <2>p, <2>s DEF GetNackPair, Begin, SN
    <3> QED BY <3>1, <3>2, <2>p DEF Asked
  <2>3. Marked'
    <3>1. \E x \in arrived' : F.clearSN = SN(x)
      <4>1. CASE arrived = {}
        BY <4>1, <1>t, <2>f, <2>p DEF Between, NewBuffer
      <4>2. CASE arrived # {}
        BY <4>2, <1>t, <2>f, <2>p DEF Marked
      <4> QED BY <4>1, <4>2
    <3>2. \E x \in arrived' : F.clearTS = TS(x)
      BY <1>t, <2>f, <2>p DEF Marked
    <3>3. /\ \E x \in arrived' : c.clearSN = SN(x)
          /\ \E x \in arrived' : c.clearTS = TS(x)
      <4>1. CASE c = F
        BY <4>1, <3>1, <3>2
      <4>2. ASSUME NEW m \in Walked(F, i),
                   F.slot[m] # Nil, c.clearSN = m, c.clearTS = TS(F.slot[m])
            PROVE  /\ \E x \in arrived' : c.clearSN = SN(x)
                   /\ \E x \in arrived' : c.clearTS = TS(x)
        <5>1. F.slot[m] \in arrived' /\ SN(F.slot[m]) = m
          BY <4>2, <2>h, <2>w
        <5> QED BY <5>1, <4>2
      <4> QED BY <4>1, <4>2, <2>c
    <3> QED BY <3>3, <2>p, <2>s DEF Marked, SN, TS
  <2> QED BY <1>1, <2>1, <2>2, <2>3 DEF Inv
<1> QED BY <1>t, <1>2, <1>3, <1>4, Steps

LEMMA Invariant == Spec => []Inv
<1>1. Init => Inv
  BY InvInit
<1>2. Inv /\ [Next]_vars => Inv'
  BY InvStep
<1> QED BY <1>1, <1>2, PTL DEF Spec

(* Whatever is pushed and whenever the goroutines run, the slots and the   *)
(* marks of a buffer are slots, and the channels keep to their sizes       *)
(* (Push, clearOldPkt and GetNackPair in buffer.go).                       *)
THEOREM TypeCorrect == Spec => []TypeOK
<1>1. Inv => TypeOK
  BY DEF Inv
<1> QED BY <1>1, Invariant, PTL

-----------------------------------------------------------------------------
(* The newest packet. *)

OldAt(n, i) == TSDelta(TS(n), TS(i)) >= MaxAge

NewestIs ==
  /\ Newest \in 0..MaxPackets
  /\ arrived = {} => Newest = 0
  /\ arrived # {} => Newest \in arrived
  /\ \A i \in arrived : i \in 1..MaxPackets /\ i <= Newest

LEMMA Top == TypeOK => NewestIs
<1> SUFFICES ASSUME TypeOK PROVE NewestIs
  OBVIOUS
<1> USE DEF NewestIs
<1>1. arrived \subseteq 1..MaxPackets /\ arrived \subseteq 0..MaxPackets
  BY Constants DEF TypeOK
<1>2. CASE arrived = {}
  BY <1>2, Constants DEF Newest
<1>3. CASE arrived # {}
  <2>1. Max(arrived) \in arrived /\ \A y \in arrived : y <= Max(arrived)
    BY <1>1, <1>3, Largest, Constants
  <2> QED BY <2>1, <1>1, <1>3 DEF Newest
<1> QED BY <1>2, <1>3

LEMMA PushedTop ==
  ASSUME TypeOK, Between, NEW i \in 1..MaxPackets, Push(i)
  PROVE  /\ Newest' = IF i > Newest THEN i ELSE Newest
         /\ i \notin arrived /\ i + MaxLate > Newest
         /\ Newest \in Nat /\ Newest' \in 1..MaxPackets /\ Newest' >= i /\ Newest' >= Newest
         /\ i = Newest => FALSE
<1>1. TypeOK'
  BY TypeStep DEF Next
<1>2. /\ Newest' \in 0..MaxPackets
      /\ arrived' # {} => Newest' \in arrived'
      /\ \A j \in arrived' : j \in 1..MaxPackets /\ j <= Newest'
  <2>1. NewestIs'
    BY <1>1, Top, PTL
  <2> QED BY <2>1 DEF NewestIs
<1>3. arrived' = arrived \cup {i} /\ i \in Receivable
  BY Pushing
<1>4. /\ Newest \in 0..MaxPackets
      /\ arrived = {} => Newest = 0
      /\ arrived # {} => Newest \in arrived
      /\ \A j \in arrived : j \in 1..MaxPackets /\ j <= Newest
  BY Top DEF NewestIs
<1>5. i \in Nat /\ i >= 1 /\ MaxPackets \in Nat /\ MaxLate \in Nat
  BY Constants
<1>6. i \notin arrived /\ i + MaxLate > Newest
  BY <1>3, <1>4, <1>5 DEF Receivable
<1>7. i <= Newest' /\ Newest' \in arrived \cup {i} /\ Newest' \in Nat
  BY <1>2, <1>3, <1>5
<1>8. Newest <= Newest'
  <2>1. CASE arrived = {}
    BY <2>1, <1>4, <1>5, <1>7
  <2>2. CASE arrived # {}
    BY <2>2, <1>2, <1>3, <1>4
  <2> QED BY <2>1, <2>2
<1>9. Newest' = i \/ Newest' <= Newest
  BY <1>4, <1>7
<1>10. i # Newest
  BY <1>4, <1>5, <1>6
<1> QED BY <1>4, <1>5, <1>6, <1>7, <1>8, <1>9, <1>10

(* What is old stays old.                                                  *)
LEMMA OldStays ==
  ASSUME NoTimestampWraps, stream \in Streams,
         NEW i \in 1..MaxPackets, NEW n \in 1..MaxPackets, NEW m \in 1..MaxPackets,
         i <= n, n <= m, OldAt(n, i)
  PROVE  OldAt(m, i)
<1>1. TS(i) \in Int /\ TS(n) \in Int /\ TS(m) \in Int
  BY NumberType, Constants
<1>2. TS(i) <= TS(n) /\ TS(n) <= TS(m)
  <2>1. i \in Int /\ n \in Int /\ m \in Int
    BY Constants
  <2>2. i < n => TS(i) + (n - i) <= TS(n)
    BY TimestampsGrow
  <2>3. n < m => TS(n) + (m - n) <= TS(m)
    BY TimestampsGrow
  <2> QED BY <1>1, <2>1, <2>2, <2>3
<1>3. TSDelta(TS(n), TS(i)) = TS(n) - TS(i) /\ TSDelta(TS(m), TS(i)) = TS(m) - TS(i)
  BY <1>1, <1>2 DEF TSDelta
<1> QED BY <1>1, <1>2, <1>3, Constants DEF OldAt

LEMMA NotOldAtItself ==
  ASSUME stream \in Streams, NEW i \in 1..MaxPackets
  PROVE  ~OldAt(i, i)
<1>1. TS(i) \in Int
  BY NumberType, Constants
<1> QED BY <1>1, DeltaType, Constants DEF OldAt

(* A packet that comes late finds no newer one old in a slot before its    *)
(* own.                                                                    *)
LEMMA LateFindsYoung ==
  ASSUME NoTimestampWraps, LateInTime, stream \in Streams,
         NEW k \in 1..MaxPackets, NEW j \in 1..MaxPackets,
         k < j, j < k + MaxLate, SN(j) <= SN(k)
  PROVE  ~OldAt(k, j)
<1>1. /\ TS(k) \in Int /\ TS(j) \in Int /\ k \in Nat /\ j \in Nat /\ k >= 1 /\ MaxLate \in Nat
      /\ MaxAge \in Nat /\ stream.pause \in Nat /\ stream.sn \in Nat /\ SNs \in Nat
  BY NumberType, StreamType, Constants
<1>2. TS(k) + (j - k) <= TS(j) /\ (k > stream.pause \/ j <= stream.pause => TS(k) + (j - k) = TS(j))
  BY TimestampsGrow
<1>3. TSDelta(TS(k), TS(j)) = TS(j) - TS(k)
  BY <1>1, <1>2, DeltaType
<1>4. CASE k > stream.pause \/ j <= stream.pause
  <2>1. MaxLate <= MaxAge
    BY DEF LateInTime
  <2> QED BY <1>1, <1>2, <1>3, <1>4, <2>1 DEF OldAt
<1>5. CASE k <= stream.pause /\ stream.pause < j
  <2>1. stream.sn + stream.pause + MaxLate <= SNs
    BY <1>1, <1>5 DEF LateInTime
  <2>2. stream.sn + j <= SNs /\ stream.sn + k <= SNs
    BY <1>1, <1>5, <2>1
  <2>3. SN(j) = stream.sn + j - 1 /\ SN(k) = stream.sn + k - 1
    BY <1>1, <2>2, FirstNumbers
  <2> QED BY <1>1, <2>3
<1> QED BY <1>1, <1>4, <1>5

-----------------------------------------------------------------------------
(* Nothing that is there is asked for. *)

(* An empty slot is that of a packet that is too old, and another is that  *)
(* of the last packet of its sequence number.                              *)
Kept == \A i \in arrived : buffer.slot[SN(i)] = Nil => TooOld(i)
Latest == \A i \in arrived : buffer.slot[SN(i)] # Nil => i <= buffer.slot[SN(i)]

KeepInv == Inv /\ Kept /\ Latest

LEMMA KeepPush ==
  ASSUME NoTimestampWraps, LateInTime, KeepInv, NEW k \in 1..MaxPackets, Push(k)
  PROVE  Kept' /\ Latest'
<1> DEFINE F == Filled(k)  c == Swept(k)  N == Newest'
<1>t. TypeOK /\ Between /\ Held /\ Kept /\ Latest /\ stream \in Streams /\ k \in Int
  <2>1. TypeOK /\ Between /\ Held /\ Kept /\ Latest
    BY DEF KeepInv, Inv
  <2>2. k \in Int
    BY Constants
  <2> QED BY <2>1, <2>2 DEF TypeOK
<1>p. stream' = stream /\ buffer'.slot = c.slot /\ arrived' = arrived \cup {k}
  BY <1>t, Pushing DEF Push
<1>n. /\ N = IF k > Newest THEN k ELSE Newest
      /\ k \notin arrived /\ k + MaxLate > Newest
      /\ Newest \in Nat /\ N \in 1..MaxPackets /\ N >= k /\ N >= Newest
  BY <1>t, PushedTop
<1>a. \A i \in arrived : i \in 1..MaxPackets /\ i \in Int /\ i <= Newest /\ i <= N
  BY <1>t, <1>n, Top, Constants DEF NewestIs
<1>F. F \in Buffer /\ \A s \in Slots : F.slot[s] = IF s = SN(k) THEN k ELSE buffer.slot[s]
  BY <1>t, Filling
<1>c. /\ \A s \in Slots : c.slot[s] \in {F.slot[s], Nil}
      /\ \A s \in Slots : c.slot[s] # F.slot[s] => F.slot[s] # Nil /\ s \in Walked(F, k) /\ Old(F, k, s)
  BY <1>F, <1>t, Clearing DEF Swept
<1>s. \A i \in arrived' : SN(i) \in Slots /\ i \in 1..MaxPackets
  <2>1. \A i \in arrived' : i \in 1..MaxPackets /\ i \in Int
    BY <1>p, <1>a, <1>t
  <2> QED BY <2>1, <1>t, NumberType
<1>k. k # Nil /\ SN(k) \in Slots
  BY <1>t, NumberType, Constants DEF Nil
<1> HIDE DEF F, c, N
<1>1. ASSUME NEW i \in arrived', c.slot[SN(i)] = Nil
      PROVE  OldAt(N, i)
  <2> DEFINE s == SN(i)  j == F.slot[s]
  <2>1. s \in Slots /\ i \in 1..MaxPackets
    BY <1>s
  <2>2. CASE j = Nil
    <3>1. i \in arrived /\ buffer.slot[s] = Nil
      BY <2>1, <2>2, <1>F, <1>k, <1>p
    <3>2. OldAt(Newest, i)
      BY <3>1, <1>t DEF Kept, TooOld, OldAt
    <3>3. Newest \in 1..MaxPackets /\ i <= Newest
      BY <3>1, <1>t, <1>a, Top, Constants DEF NewestIs
    <3> QED BY <3>2, <3>3, <1>n, <1>t, <2>1, OldStays
  <2>3. CASE j # Nil
    <3>1. s \in Walked(F, k) /\ OldAt(k, j)
      BY <2>1, <2>3, <1>1, <1>c DEF Old, OldAt
    <3>2. j # k
      BY <3>1, <1>t, NotOldAtItself
    <3>3. s # SN(k) /\ i # k /\ j = buffer.slot[s] /\ i \in arrived
      BY <3>2, <2>1, <1>F, <1>p
    <3>4. j \in arrived /\ SN(j) = s /\ i <= j
      BY <3>3, <2>1, <2>3, <1>t DEF Held, Latest
    <3> HIDE DEF j, s
    <3>5. j \in 1..MaxPackets /\ j <= Newest /\ j \in Int
      BY <3>4, <1>a
    <3>6. SN(j) <= SN(k)
      <4>1. s \in Int /\ SN(k) \in Int
        BY <2>1, <1>k, Constants DEF Slots
      <4> QED BY <4>1, <3>1, <3>4 DEF Walked
    <3>7. ~(k < j)
      <4>1. j < k + MaxLate
        BY <3>5, <1>n, <1>t, Constants
      <4> QED BY <4>1, <3>1, <3>5, <3>6, <1>t, LateFindsYoung
    <3>8. j <= k
      BY <3>5, <3>7, <1>t
    <3>9. TS(i) \in Int /\ TS(j) \in Int /\ TS(k) \in Int /\ TS(i) <= TS(j) /\ TS(j) <= TS(k)
      <4>1. TS(i) \in Int /\ TS(j) \in Int /\ TS(k) \in Int /\ i \in Int
        BY <3>5, <2>1, <1>t, NumberType, Constants
      <4>2. i < j => TS(i) + (j - i) <= TS(j)
        BY <2>1, <3>5, <1>t, TimestampsGrow
      <4>3. j < k => TS(j) + (k - j) <= TS(k)
        BY <3>5, <1>t, TimestampsGrow
      <4> QED BY <4>1, <4>2, <4>3, <3>4, <3>5, <3>8, <1>t
    <3>10. OldAt(k, i)
      <4>1. TSDelta(TS(k), TS(j)) = TS(k) - TS(j) /\ TSDelta(TS(k), TS(i)) = TS(k) - TS(i)
        BY <3>9 DEF TSDelta
      <4> QED BY <4>1, <3>1, <3>9, Constants DEF OldAt
    <3>11. i <= k
      BY <3>4, <3>5, <3>8, <2>1, <1>t, Constants
    <3> QED BY <3>10, <3>11, <2>1, <1>n, <1>t, OldStays
  <2> QED BY <2>2, <2>3
<1>2. ASSUME NEW i \in arrived', c.slot[SN(i)] # Nil
      PROVE  i <= c.slot[SN(i)]
  <2>1. SN(i) \in Slots /\ i \in 1..MaxPackets /\ i \in Int
    BY <1>s, Constants
  <2>2. c.slot[SN(i)] = F.slot[SN(i)]
    BY <2>1, <1>2, <1>c
  <2>3. CASE SN(i) = SN(k)
    <3>1. c.slot[SN(i)] = k
      BY <2>1, <2>2, <2>3, <1>F
    <3>2. ~(k < i)
      <4>1. SUFFICES ASSUME k < i PROVE FALSE
        OBVIOUS
      <4>2. i - k >= SNs
        BY <4>1, <2>1, <2>3, <1>t, SameNumber
      <4>3. i \in arrived /\ i <= Newest
        BY <4>1, <1>p, <1>a, <1>t
      <4>4. MaxLate <= SNs
        BY DEF LateInTime
      <4> QED BY <4>2, <4>3, <4>4, <2>1, <1>n, <1>t, Constants
    <3> QED BY <3>1, <3>2, <2>1, <1>t
  <2>4. CASE SN(i) # SN(k)
    <3>1. i \in arrived /\ c.slot[SN(i)] = buffer.slot[SN(i)]
      BY <2>1, <2>2, <2>4, <1>F, <1>p
    <3> QED BY <3>1, <1>2, <1>t DEF Latest
  <2> QED BY <2>3, <2>4
<1>3. Kept'
  <2>1. \A i \in arrived' : buffer'.slot[SN(i)] = Nil => TSDelta(TS(N), TS(i)) >= MaxAge
    BY <1>1, <1>p DEF OldAt
  <2> QED BY <2>1, <1>p DEF Kept, TooOld, SN, TS, N
<1>4. Latest'
  <2>1. \A i \in arrived' : buffer'.slot[SN(i)] # Nil => i <= buffer'.slot[SN(i)]
    BY <1>2, <1>p
  <2> QED BY <2>1, <1>p DEF Latest, SN
<1> QED BY <1>3, <1>4

LEMMA KeepInit == ASSUME Init PROVE KeepInv
  BY InvInit DEF KeepInv, Init, Kept, Latest

LEMMA KeepStep ==
  ASSUME NoTimestampWraps, LateInTime, KeepInv, [Next]_vars
  PROVE  KeepInv'
<1>1. Inv' /\ TypeOK /\ Between
  BY InvStep DEF KeepInv, Inv
<1>2. CASE Quiet
  BY <1>1, <1>2 DEF Quiet, KeepInv, Kept, Latest, TooOld, Newest, SN, TS
<1>3. CASE Anew
  BY <1>1, <1>3 DEF Anew, KeepInv, Kept, Latest
<1>4. ASSUME NEW i \in 1..MaxPackets, Push(i)
      PROVE  KeepInv'
  BY <1>1, <1>4, KeepPush DEF KeepInv
<1> QED BY <1>1, <1>2, <1>3, <1>4, Steps

(* The slots of a scan are those of the packets of its window.             *)
LEMMA ScanSlots ==
  ASSUME stream \in Streams, NEW p \in Int, NEW s \in Slots, Begin(p) <= s, s < SN(p)
  PROVE  \E i \in p - Window .. p - 1 : SN(i) = s
<1>1. /\ SN(p) \in 0..SNs - 1 /\ SNs \in Nat \ {0} /\ Window \in Nat \ {0} /\ Window < SNs
      /\ s \in 0..SNs - 1 /\ stream.sn \in Int
  BY NumberType, StreamType, Constants DEF Slots
<1> DEFINE d == SN(p) - s  i == p - d
<1>2. d \in Nat /\ d >= 1
  BY <1>1
<1>3. d <= Window
  <2>1. CASE SN(p) >= Window
    <3>1. SN(p) - Window \in 0..SNs - 1
      BY <1>1, <2>1
    <3>2. (SN(p) - Window) % SNs = SN(p) - Window
      BY <1>1, <3>1
    <3> QED BY <1>1, <3>2 DEF Begin
  <2>2. CASE SN(p) < Window
    <3>1. SN(p) - Window + SNs \in 0..SNs - 1
      BY <1>1, <2>2
    <3>2. (SN(p) - Window) % SNs = SN(p) - Window + SNs
      <4> DEFINE x == SN(p) - Window  y == x + SNs
      <4>1. x \in Int /\ y \in 0..SNs - 1
        BY <1>1, <3>1
      <4> HIDE DEF x
      <4>2. x % SNs = y
        BY <1>1, <4>1
      <4> QED BY <4>2 DEF x
    <3> QED BY <1>1, <3>2 DEF Begin
  <2> QED BY <1>1, <2>1, <2>2
<1>4. SN(i) = s
  <2> DEFINE x == stream.sn + p - 1
  <2>1. x \in Int /\ x % SNs = SN(p) /\ stream.sn + i - 1 = x - d
    BY <1>1, <1>2 DEF SN
  <2>2. SN(i) = (x - d) % SNs
    BY <2>1 DEF SN
  <2>4. d <= SN(p) /\ SN(p) - d = s
    BY <1>1
  <2> HIDE DEF x, i, d
  <2>3. (x - d) % SNs = (x % SNs) - d
    <3>1. d <= x % SNs
      BY <2>1, <2>4
    <3> QED BY <1>1, <1>2, <2>1, <3>1, RemainderBefore
  <2> QED BY <2>1, <2>2, <2>3, <2>4
<1>5. i \in p - Window .. p - 1
  BY <1>1, <1>2, <1>3
<1> QED BY <1>4, <1>5

LEMMA ScanExact == ASSUME KeepInv PROVE NackExact
<1> DEFINE p == pump.pkt
<1>t. TypeOK /\ Held /\ Asked /\ Kept /\ stream \in Streams
  BY DEF KeepInv, Inv, TypeOK
<1>1. SUFFICES ASSUME pump.scanned
               PROVE  /\ \A s \in nacked : \E i \in Scanned : SN(i) = s /\ Lost(i)
                      /\ FirstRound /\ SN(p) > Window
                           => \A i \in Scanned : i \in arrived \/ SN(i) \in nacked
  BY DEF NackExact
<1>2. p \in arrived /\ p \in Int /\ p <= Newest /\ Newest \in Int
  <2>1. p \in arrived
    BY <1>1, <1>t DEF Asked
  <2> QED BY <2>1, <1>t, Top, Constants DEF NewestIs
<1>e. /\ nacked \subseteq {s \in Slots : Begin(p) <= s /\ s < SN(p) /\ buffer.slot[s] = Nil}
      /\ 0 < Begin(p) => nacked = {s \in Slots : Begin(p) <= s /\ s < SN(p) /\ buffer.slot[s] = Nil}
  <2>1. nacked = GetNackPair(buffer, Begin(p), SN(p))
    BY <1>1, <1>t DEF Asked
  <2>2. Begin(p) \in Int
    <3>1. SN(p) - Window \in Int
      BY <1>2, <1>t, NumberType, Constants DEF Slots
    <3> QED BY <3>1, Remainder, Constants DEF Begin
  <2> QED BY <2>1, <2>2 DEF GetNackPair
<1> HIDE DEF p
<1>3. ASSUME NEW s \in nacked
      PROVE  \E i \in Scanned : SN(i) = s /\ Lost(i)
  <2>1. s \in Slots /\ Begin(p) <= s /\ s < SN(p) /\ buffer.slot[s] = Nil
    BY <1>e
  <2>2. PICK i \in p - Window .. p - 1 : SN(i) = s
    BY <2>1, <1>2, <1>t, ScanSlots
  <2>3. Lost(i)
    BY <2>1, <2>2, <1>t DEF Lost, Kept
  <2> QED BY <2>2, <2>3 DEF Scanned, p
<1>4. ASSUME FirstRound, SN(p) > Window, NEW i \in Scanned, i \notin arrived
      PROVE  SN(i) \in nacked
  <2>1. /\ stream.sn \in Int /\ SNs \in Nat \ {0} /\ Window \in Nat \ {0} /\ Window < SNs
        /\ stream.sn + Newest <= SNs
    BY <1>4, <1>t, StreamType, Constants DEF FirstRound
  <2>2. SN(p) = stream.sn + p - 1
    <3>1. 1 <= stream.sn + p /\ stream.sn + p <= SNs
      BY <1>2, <2>1, <1>t, Top, StreamType, Constants DEF NewestIs
    <3> QED BY <3>1, <1>2, <1>t, FirstNumbers
  <2>3. i \in Int /\ p - Window <= i /\ i <= p - 1
    BY <1>2, <2>1 DEF Scanned, p
  <2>4. SN(i) = stream.sn + i - 1
    <3>1. 1 <= stream.sn + i /\ stream.sn + i <= SNs
      BY <1>2, <1>4, <2>1, <2>2, <2>3
    <3> QED BY <3>1, <2>3, <1>t, FirstNumbers
  <2>5. Begin(p) = SN(p) - Window
    <3> DEFINE x == SN(p) - Window
    <3>1. x \in 0..SNs - 1
      BY <1>2, <1>4, <2>1, <2>2
    <3> HIDE DEF x
    <3>2. x % SNs = x
      BY <2>1, <3>1
    <3> QED BY <3>2 DEF Begin, x
  <2>6. Begin(p) <= SN(i) /\ SN(i) < SN(p) /\ 0 < Begin(p)
    BY <1>2, <1>4, <2>1, <2>2, <2>3, <2>4, <2>5
  <2>7. SN(i) \in Slots
    BY <2>3, <1>t, NumberType
  <2>8. buffer.slot[SN(i)] = Nil
    <3>1. SUFFICES ASSUME buffer.slot[SN(i)] # Nil PROVE FALSE
      OBVIOUS
    <3> DEFINE j == buffer.slot[SN(i)]
    <3>2. j \in arrived /\ SN(j) = SN(i)
      BY <2>7, <3>1, <1>t DEF Held
    <3> HIDE DEF j
    <3>3. j \in Int /\ 1 <= j /\ j <= Newest
      BY <3>2, <1>t, Top, Constants DEF NewestIs
    <3>4. SN(j) = stream.sn + j - 1
      <4>1. 1 <= stream.sn + j /\ stream.sn + j <= SNs
        BY <3>3, <2>1, <1>2, <1>t, StreamType, Constants
      <4> QED BY <4>1, <3>3, <1>t, FirstNumbers
    <3>5. j = i
      <4>1. stream.sn + j - 1 = stream.sn + i - 1
        BY <3>2, <3>4, <2>4
      <4> QED BY <4>1, <3>3, <2>1, <2>3
    <3> QED BY <3>2, <3>5, <1>4
  <2> QED BY <2>6, <2>7, <2>8, <1>e
<1> QED BY <1>3, <1>4

(* The buffer asks the sender for nothing that is there, and in the first  *)
(* round for all of a window that is not (GetNackPair), for any size of    *)
(* the window and any losses, when no timestamp wraps and no packet comes  *)
(* after one that was sent MaxAge later: what clearing has taken out of a  *)
(* slot is then too old, also when another packet of the same sequence     *)
(* number was in it before.                                                *)
THEOREM ScansAskForWhatIsLost ==
  ASSUME NoTimestampWraps, LateInTime
  PROVE  Spec => []NackExact
<1>1. Init => KeepInv
  BY KeepInit
<1>2. KeepInv /\ [Next]_vars => KeepInv'
  BY KeepStep
<1>3. KeepInv => NackExact
  BY ScanExact
<1> QED BY <1>1, <1>2, <1>3, PTL DEF Spec

-----------------------------------------------------------------------------
(* Nothing is kept too long. *)

(* What is in the buffer in the first round without having been passed by  *)
(* is after the marks and not too old.                                     *)
Live == {i \in arrived \ skipped : buffer.slot[SN(i)] = i}

Fresh ==
  FirstRound =>
    \A i \in Live :
      /\ 0 < buffer.clearSN /\ buffer.clearSN < SN(i)
      /\ 0 < buffer.clearTS /\ buffer.clearTS <= TS(i)
      /\ ~TooOld(i)

FreshInv == Inv /\ Fresh

LEMMA FreshPush ==
  ASSUME NoTimestampWraps, FreshInv, NEW k \in 1..MaxPackets, Push(k), FirstRound',
         NEW i \in arrived' \ skipped', Swept(k).slot[SN(i)] = i
  PROVE  /\ 0 < Swept(k).clearSN /\ Swept(k).clearSN < SN(i)
         /\ 0 < Swept(k).clearTS /\ Swept(k).clearTS <= TS(i)
         /\ ~OldAt(Newest', i)
<1> DEFINE F == Filled(k)  c == Swept(k)  N == Newest'
<1>t. TypeOK /\ Between /\ Held /\ Marked /\ Fresh /\ stream \in Streams
  <2>1. TypeOK /\ Between /\ Held /\ Marked /\ Fresh
    BY DEF FreshInv, Inv
  <2> QED BY <2>1 DEF TypeOK
<1>g. /\ k \in Int /\ stream.sn \in Nat /\ SNs \in Nat \ {0} /\ stream.sn <= SNs - 1
      /\ MaxPackets \in Nat /\ MaxAge \in Nat \ {0}
  BY <1>t, StreamType, Constants
<1>p. /\ stream' = stream /\ arrived' = arrived \cup {k}
      /\ skipped' = IF k < Newest \/ buffer.clearSN = 0 THEN skipped \cup {k} ELSE skipped
  BY <1>t, Pushing DEF Push
<1>n. /\ N = IF k > Newest THEN k ELSE Newest
      /\ k \notin arrived /\ k # Newest
      /\ Newest \in Nat /\ N \in 1..MaxPackets /\ N >= k /\ N >= Newest
  BY <1>t, PushedTop
<1>a. \A x \in arrived : x \in 1..MaxPackets /\ x \in Int /\ x <= Newest
  BY <1>t, <1>g, Top DEF NewestIs
<1>b. \A x \in arrived' : x \in 1..MaxPackets /\ x \in Int /\ 1 <= x /\ x <= N
  BY <1>a, <1>p, <1>n, <1>g
<1>r. stream.sn + N <= SNs /\ FirstRound
  <2>1. stream.sn + N <= SNs
    BY <1>p DEF FirstRound, N
  <2> QED BY <2>1, <1>g, <1>n DEF FirstRound
<1> HIDE DEF N
(* In the first round and without a wrap the numbers and times are in order *)
<1>s. \A x \in arrived' : SN(x) = stream.sn + x - 1
  <2> SUFFICES ASSUME NEW x \in arrived' PROVE SN(x) = stream.sn + x - 1
    OBVIOUS
  <2>1. x \in Int /\ 1 <= stream.sn + x /\ stream.sn + x <= SNs
    BY <1>b, <1>r, <1>g, <1>n
  <2> QED BY <2>1, <1>t, FirstNumbers
<1>o. \A x \in arrived' : SN(x) \in Slots /\ SN(x) \in Int /\ TS(x) \in Int /\ 0 <= TS(x)
  <2> SUFFICES ASSUME NEW x \in arrived'
               PROVE  SN(x) \in Slots /\ SN(x) \in Int /\ TS(x) \in Int /\ 0 <= TS(x)
    OBVIOUS
  <2>1. SN(x) \in Slots /\ TS(x) \in 0..TSs - 1
    BY <1>b, <1>t, NumberType
  <2> QED BY <2>1, Constants DEF Slots
<1>m. \A x, y \in arrived' :
        /\ SN(x) < SN(y) <=> x < y
        /\ SN(x) = SN(y) <=> x = y
        /\ x < y => TS(x) < TS(y)
        /\ x <= y => TS(x) <= TS(y)
  <2> SUFFICES ASSUME NEW x \in arrived', NEW y \in arrived'
               PROVE  /\ SN(x) < SN(y) <=> x < y
                      /\ SN(x) = SN(y) <=> x = y
                      /\ x < y => TS(x) < TS(y)
                      /\ x <= y => TS(x) <= TS(y)
    OBVIOUS
  <2>1. x \in Int /\ y \in Int /\ SN(x) = stream.sn + x - 1 /\ SN(y) = stream.sn + y - 1
    BY <1>b, <1>s
  <2>2. x < y => TS(x) + (y - x) <= TS(y)
    BY <1>b, <1>t, TimestampsGrow
  <2>3. TS(x) \in Int /\ TS(y) \in Int
    BY <1>o
  <2>4. (SN(x) < SN(y) <=> x < y) /\ (SN(x) = SN(y) <=> x = y)
    BY <2>1, <1>g
  <2>5. x < y => TS(x) < TS(y)
    BY <2>1, <2>2, <2>3
  <2>6. x <= y => TS(x) <= TS(y)
    <3>1. CASE x = y
      BY <3>1, <2>3
    <3>2. CASE x # y
      BY <3>2, <2>1, <2>3, <2>5
    <3> QED BY <3>1, <3>2
  <2> QED BY <2>4, <2>5, <2>6
<1>F. /\ F \in Buffer /\ \A s \in Slots : F.slot[s] = IF s = SN(k) THEN k ELSE buffer.slot[s]
      /\ F.clearTS = IF buffer.clearTS = 0 THEN TS(k) ELSE buffer.clearTS
      /\ F.clearSN = IF buffer.clearSN = 0 THEN SN(k) ELSE buffer.clearSN
  BY <1>t, Filling
<1>h. \A s \in Slots : F.slot[s] # Nil => F.slot[s] \in arrived' /\ SN(F.slot[s]) = s
  BY <1>t, <1>p, FilledHolds
<1>c. /\ \A s \in Slots : c.slot[s] \in {F.slot[s], Nil}
      /\ \/ c = F
         \/ \E m \in Walked(F, k) :
              /\ F.slot[m] # Nil /\ Old(F, k, m)
              /\ c.clearSN = m /\ c.clearTS = TS(F.slot[m])
              /\ \A s \in Walked(F, k) : s <= m => c.slot[s] = Nil
      /\ TSDelta(TS(k), F.clearTS) >= MaxAge =>
           \A s \in Walked(F, k) :
             c.slot[s] # Nil => \E y \in Walked(F, k) : y <= s /\ F.slot[y] # Nil /\ ~Old(F, k, y)
  BY <1>F, <1>t, Clearing DEF Swept
<1>w. Walked(F, k) \subseteq Slots /\ \A s \in Slots : s \in Int /\ 0 <= s /\ s <= SNs - 1
  BY <1>F, <1>t, <1>g, WalkedSlots DEF Slots
<1>i. /\ i \in arrived' /\ i \notin skipped' /\ k \in arrived' /\ c.slot[SN(i)] = i
      /\ i # Nil /\ F.slot[SN(i)] = i
  <2>1. i \in arrived' /\ i \notin skipped' /\ k \in arrived' /\ c.slot[SN(i)] = i
    BY <1>p
  <2>2. i # Nil
    BY <2>1, <1>b DEF Nil
  <2> QED BY <2>1, <2>2, <1>c, <1>o
<1> HIDE DEF F, c
(* Before anything is cleared. *)
<1>1. /\ 0 < F.clearSN /\ F.clearSN < SN(i) /\ F.clearSN \in Int
      /\ \E x \in arrived' : F.clearSN = SN(x)
      /\ 0 < F.clearTS /\ F.clearTS <= TS(i) /\ F.clearTS \in Int
      /\ i # k => ~OldAt(Newest, i)
      /\ i = k => N = k
  <2>b. buffer.clearSN \in Slots /\ buffer.clearTS \in Int /\ 0 <= buffer.clearTS
    BY <1>t, Constants DEF TypeOK, Buffer
  <2>1. CASE i = k
    <3>1. ~(k < Newest) /\ buffer.clearSN # 0
      BY <2>1, <1>i, <1>p
    <3>2. N = k /\ Newest < k
      BY <3>1, <1>n, <1>g
    <3>3. arrived # {}
      BY <3>1, <1>t DEF Between, NewBuffer
    <3>4. PICK x \in arrived : buffer.clearSN = SN(x)
      BY <3>3, <1>t DEF Marked
    <3>5. x \in arrived' /\ x < k /\ 1 <= x
      BY <3>2, <1>a, <1>b, <1>p, <1>g, <1>n
    <3>6. F.clearSN = SN(x) /\ SN(x) < SN(k) /\ 0 < SN(x)
      BY <3>1, <3>4, <3>5, <1>F, <1>i, <1>m, <1>w, <2>b
    <3>7. 0 < TS(k)
      <4>1. TS(x) < TS(k)
        BY <3>5, <1>i, <1>m
      <4> QED BY <4>1, <3>5, <1>i, <1>o
    <3>8. 0 < F.clearTS /\ F.clearTS <= TS(k) /\ F.clearTS \in Int
      <4>1. CASE buffer.clearTS = 0
        BY <4>1, <3>7, <1>F, <1>i, <1>o
      <4>2. CASE buffer.clearTS # 0
        <5>1. PICK z \in arrived : buffer.clearTS = TS(z)
          BY <4>2, <1>t DEF Marked
        <5>2. z \in arrived' /\ z <= k
          BY <3>2, <1>a, <1>p, <1>g, <1>n
        <5>3. TS(z) <= TS(k)
          BY <5>2, <1>i, <1>m
        <5> QED BY <4>2, <5>1, <5>3, <2>b, <1>F
      <4> QED BY <4>1, <4>2
    <3> QED BY <2>1, <3>2, <3>5, <3>6, <3>8, <1>o
  <2>2. CASE i # k
    <3>1. i \in arrived /\ i \notin skipped
      BY <2>2, <1>i, <1>p
    <3>2. SN(i) # SN(k)
      BY <2>2, <1>i, <1>m
    <3>3. i \in Live
      BY <3>1, <3>2, <1>F, <1>i, <1>o DEF Live
    <3>4. /\ 0 < buffer.clearSN /\ buffer.clearSN < SN(i)
          /\ 0 < buffer.clearTS /\ buffer.clearTS <= TS(i)
          /\ ~TooOld(i)
      BY <3>3, <1>r, <1>t DEF Fresh
    <3>5. F.clearSN = buffer.clearSN /\ F.clearTS = buffer.clearTS
      BY <3>4, <1>F
    <3>6. \E x \in arrived' : F.clearSN = SN(x)
      BY <3>1, <3>5, <1>t, <1>p DEF Marked
    <3> QED BY <2>2, <2>b, <3>4, <3>5, <3>6, <1>w DEF TooOld, OldAt
  <2> QED BY <2>1, <2>2
<1>2. PICK x \in arrived' : F.clearSN = SN(x)
  BY <1>1
<1>3. /\ SN(i) \in Int /\ SN(i) <= SNs - 1 /\ SN(i) \in Slots /\ i \in Int
      /\ SN(k) \in Int /\ TS(i) \in Int /\ TS(k) \in Int
  BY <1>i, <1>b, <1>o, <1>w
<1>4. Walked(F, k) = F.clearSN + 1 .. SN(k)
  <2> DEFINE q == F.clearSN + 1
  <2>1. q \in 0..SNs - 1
    BY <1>1, <1>3, <1>g
  <2> HIDE DEF q
  <2>2. q % SNs = q
    BY <2>1, <1>g
  <2> QED BY <2>2 DEF Walked, q
(* The marks. *)
<1>5. /\ 0 < c.clearSN /\ c.clearSN < SN(i)
      /\ 0 < c.clearTS /\ c.clearTS <= TS(i)
  <2>1. CASE c = F
    BY <2>1, <1>1
  <2>2. ASSUME NEW m \in Walked(F, k), F.slot[m] # Nil,
               c.clearSN = m, c.clearTS = TS(F.slot[m]),
               \A s \in Walked(F, k) : s <= m => c.slot[s] = Nil
        PROVE  /\ 0 < c.clearSN /\ c.clearSN < SN(i)
               /\ 0 < c.clearTS /\ c.clearTS <= TS(i)
    <3>1. PICK j \in arrived' : j = F.slot[m] /\ SN(j) = m
      BY <2>2, <1>h, <1>w
    <3>2. m \in Int /\ F.clearSN + 1 <= m /\ m <= SN(k) /\ m \in Slots
      BY <1>4, <1>1, <1>3, <1>w
    <3>3. m < SN(i)
      <4>1. SUFFICES ASSUME SN(i) <= m PROVE FALSE
        BY <3>2, <1>3
      <4>2. SN(i) \in Walked(F, k)
        BY <4>1, <3>2, <1>1, <1>3, <1>4
      <4> QED BY <4>1, <4>2, <2>2, <1>i
    <3>4. j < i /\ x < j
      <4>1. SN(j) < SN(i) /\ SN(x) < SN(j)
        BY <3>1, <3>2, <3>3, <1>1, <1>2
      <4> QED BY <4>1, <1>i, <1>m
    <3>5. TS(j) <= TS(i) /\ TS(x) < TS(j)
      <4>1. j <= i
        BY <3>4, <1>b, <1>3
      <4> QED BY <4>1, <3>4, <1>i, <1>m
    <3>6. 0 < TS(j)
      BY <3>5, <1>o
    <3> QED BY <2>2, <3>1, <3>2, <3>3, <3>5, <3>6, <1>1
  <2> QED BY <2>1, <2>2, <1>c
(* The age. *)
<1>6. ~OldAt(N, i)
  <2>1. CASE i = N
    <3>1. ~OldAt(i, i)
      BY <1>i, <1>b, <1>t, NotOldAtItself
    <3> QED BY <2>1, <3>1
  <2>2. CASE i # N /\ N = k
    <3>1. SUFFICES ASSUME OldAt(k, i) PROVE FALSE
      BY <2>2
    <3>2. i < k
      BY <2>2, <1>b, <1>i, <1>g
    <3>3. TS(i) < TS(k) /\ SN(i) < SN(k)
      BY <3>2, <1>i, <1>m
    <3>4. TS(k) - TS(i) >= MaxAge
      <4>1. TSDelta(TS(k), TS(i)) = TS(k) - TS(i)
        BY <3>3, <1>3 DEF TSDelta
      <4> QED BY <4>1, <3>1 DEF OldAt
    <3>5. TSDelta(TS(k), F.clearTS) >= MaxAge
      <4>1. TSDelta(TS(k), F.clearTS) = TS(k) - F.clearTS
        BY <3>3, <1>1, <1>3 DEF TSDelta
      <4> QED BY <4>1, <3>4, <1>1, <1>3, <1>g
    <3>6. SN(i) \in Walked(F, k)
      BY <3>3, <1>1, <1>3, <1>4
    <3>7. PICK y \in Walked(F, k) : y <= SN(i) /\ F.slot[y] # Nil /\ ~Old(F, k, y)
      BY <3>5, <3>6, <1>c, <1>i
    <3>8. PICK j \in arrived' : j = F.slot[y] /\ SN(j) = y
      BY <3>7, <1>h, <1>w
    <3>9. j <= i
      <4>1. ~(SN(i) < SN(j)) 
        BY <3>7, <3>8, <1>o, <1>3
      <4>2. ~(i < j)
        BY <4>1, <1>i, <1>m
      <4> QED BY <4>2, <1>b, <1>3
    <3>10. TS(j) <= TS(i) /\ TS(j) \in Int
      BY <3>9, <1>i, <1>m, <1>o
    <3>11. TSDelta(TS(k), TS(j)) = TS(k) - TS(j)
      BY <3>3, <3>10, <1>3 DEF TSDelta
    <3>12. TSDelta(TS(k), TS(j)) >= MaxAge
      BY <3>4, <3>10, <3>11, <1>3, <1>g
    <3> QED BY <3>7, <3>8, <3>12 DEF Old
  <2>3. CASE N # k
    <3>1. N = Newest /\ i # k
      BY <2>3, <1>n, <1>1
    <3> QED BY <3>1, <1>1
  <2> QED BY <2>1, <2>2, <2>3
<1> QED BY <1>5, <1>6 DEF c, N

LEMMA FreshInit == ASSUME Init PROVE FreshInv
  BY InvInit DEF FreshInv, Init, Fresh, Live

LEMMA FreshStep ==
  ASSUME NoTimestampWraps, FreshInv, [Next]_vars
  PROVE  FreshInv'
<1>1. Inv' /\ TypeOK /\ Between
  BY InvStep DEF FreshInv, Inv
<1>2. CASE Quiet
  BY <1>1, <1>2 DEF Quiet, FreshInv, Fresh, Live, FirstRound, TooOld, Newest, SN, TS
<1>3. CASE Anew
  BY <1>1, <1>3 DEF Anew, FreshInv, Fresh, Live
<1>4. ASSUME NEW k \in 1..MaxPackets, Push(k)
      PROVE  FreshInv'
  <2>1. /\ stream' = stream /\ buffer'.slot = Swept(k).slot
        /\ buffer'.clearTS = Swept(k).clearTS /\ buffer'.clearSN = Swept(k).clearSN
    BY <1>1, <1>4, Pushing DEF Push
  <2>2. ASSUME FirstRound', NEW i \in arrived' \ skipped', buffer'.slot[SN(i)] = i
        PROVE  /\ 0 < buffer'.clearSN /\ buffer'.clearSN < SN(i)
               /\ 0 < buffer'.clearTS /\ buffer'.clearTS <= TS(i)
               /\ ~(TSDelta(TS(Newest'), TS(i)) >= MaxAge)
    BY <2>1, <2>2, <1>4, FreshPush DEF OldAt
  <2>3. Fresh'
    BY <2>1, <2>2 DEF Fresh, Live, TooOld, SN, TS
  <2> QED BY <1>1, <2>3 DEF FreshInv
<1> QED BY <1>1, <1>2, <1>3, <1>4, Steps

LEMMA FreshIsTimely == ASSUME FreshInv PROVE BufferTime
<1>1. SUFFICES ASSUME FirstRound, NEW s \in Slots,
                      buffer.slot[s] # Nil, TooOld(buffer.slot[s]), buffer.slot[s] \notin skipped
               PROVE  FALSE
  BY DEF BufferTime
<1>2. buffer.slot[s] \in arrived /\ SN(buffer.slot[s]) = s
  BY <1>1 DEF FreshInv, Inv, Held
<1>3. buffer.slot[s] \in Live
  BY <1>1, <1>2 DEF Live
<1> QED BY <1>1, <1>3 DEF FreshInv, Fresh

(* In the first round the buffer keeps nothing for longer than MaxAge but  *)
(* what clearing passes by (clearOldPkt), for any losses and any number of *)
(* packets, when no timestamp wraps: what came in its turn is after the    *)
(* mark and not before its time, so clearing starts when it becomes old    *)
(* and does not stop before its slot.                                      *)
THEOREM OldPacketsGo ==
  ASSUME NoTimestampWraps
  PROVE  Spec => []BufferTime
<1>1. Init => FreshInv
  BY FreshInit
<1>2. FreshInv /\ [Next]_vars => FreshInv'
  BY FreshStep
<1>3. FreshInv => BufferTime
  BY FreshIsTimely
<1> QED BY <1>1, <1>2, <1>3, PTL DEF Spec

-----------------------------------------------------------------------------
(* The loops of the NACKs. *)

Working == pump.at # "off"

(* A track has its loop from its first packet on; a channel is closed when *)
(* the track has ended, and those of later tracks are as they were made.   *)
LoopInv ==
  /\ pump.at = "send" => buffer.present
  /\ \A t \in Tracks :
       /\ t > track => queue[t].len = 0 /\ nackLoop[t] = "none"
       /\ t > track \/ (t = track /\ Working) => ~queue[t].closed
       /\ t = track /\ Working /\ ~buffer.present => nackLoop[t] = "none"
       /\ t = track /\ Working /\ buffer.present /\ ~done => Serves(t)
       /\ queue[t].len > 0 /\ ~done => Serves(t)
       /\ Ended(t) /\ Serves(t) => queue[t].closed

LEMMA LoopInit == ASSUME Init PROVE LoopInv
  BY DEF Init, LoopInv, Off, NewBuffer, Working, Ended, Serves

LEMMA LoopStep ==
  ASSUME TypeOK, Between, LoopInv, [Next]_vars
  PROVE  LoopInv'
<1> USE Constants
<1>t. /\ track \in 0..MaxTracks /\ \A t \in Tracks : t \in Nat
      /\ \A t \in Tracks : queue[t].len \in Nat
      /\ pump.at \in {"off", "read", "send"}
  BY DEF TypeOK, Tracks
<1>o. pump.at = "off" => ~buffer.present
  BY DEF Between, NewBuffer
<1>1. ASSUME NEW i \in 1..MaxPackets, Push(i)
      PROVE  LoopInv'
  <2>1. /\ pump.at = "read" /\ pump'.at \in {"read", "send"} /\ buffer'.present
        /\ UNCHANGED <<track, queue, done>>
    BY <1>1, Pushing DEF Push, rtcpVars
  <2>2. track \in Tracks
    BY <2>1 DEF Between
  <2>3. \A t \in Tracks : t # track => nackLoop'[t] = nackLoop[t]
    BY <1>1, <2>2 DEF Push, TypeOK
  <2>4. IF buffer.present THEN nackLoop'[track] = nackLoop[track]
        ELSE nackLoop'[track] = "wait"
    BY <1>1, <2>2 DEF Push, TypeOK
  <2> QED BY <1>t, <2>1, <2>2, <2>3, <2>4 DEF LoopInv, Working, Ended, Serves
<1>2. CASE PushNack
  <2>1. /\ pump.at = "send" /\ pump'.at = "read" /\ buffer.present
        /\ UNCHANGED <<track, buffer, nackLoop, done>>
    BY <1>2 DEF PushNack, TypeOK, bufferVars, rtcpVars, LoopInv
  <2>2. track \in Tracks
    BY <2>1 DEF Between
  <2>3. /\ \A t \in Tracks : t # track => queue'[t] = queue[t]
        /\ queue'[track].closed = queue[track].closed
    BY <1>2, <2>2 DEF PushNack, TypeOK
  <2>4. ~queue[track].closed /\ (~done => Serves(track))
    BY <2>1, <2>2 DEF LoopInv, Working
  <2>5. \A t \in Tracks : Serves(t)' = Serves(t) /\ Ended(t)' = (t < track)
    BY <2>1 DEF Serves, Ended
  <2>6. \A t \in Tracks : Ended(t) <=> t < track
    BY <2>1 DEF Ended
  <2>7. \A t \in Tracks : t > track => t # track
    BY <1>t
  <2> QED BY <2>1, <2>2, <2>3, <2>4, <2>5, <2>6, <2>7 DEF LoopInv, Working
<1>3. CASE TrackStarts
  <2>1. /\ pump.at = "off" /\ pump'.at = "read" /\ track' = track + 1
        /\ UNCHANGED <<buffer, queue, nackLoop, done>> /\ ~buffer.present
    BY <1>3, <1>o DEF TrackStarts, TypeOK, bufferVars, queueVars, rtcpVars
  <2>2. \A t \in Tracks : Ended(t)' <=> Ended(t)
    BY <1>t, <2>1 DEF Ended
  <2> QED BY <1>t, <2>1, <2>2 DEF LoopInv, Working, Serves
<1>4. CASE TrackEnds
  <2>1. /\ pump.at = "read" /\ pump'.at = "off" /\ ~buffer'.present
        /\ UNCHANGED <<track, nackLoop, done>>
    BY <1>4 DEF TrackEnds, Off, NewBuffer, rtcpVars
  <2>2. track \in Tracks
    BY <2>1 DEF Between
  <2>3. /\ \A t \in Tracks : queue'[t].len = queue[t].len
        /\ \A t \in Tracks : t # track => queue'[t].closed = queue[t].closed
        /\ buffer.present => queue'[track].closed
    BY <1>4, <2>2 DEF TrackEnds, Stopped, TypeOK
  <2> QED BY <1>t, <2>1, <2>2, <2>3 DEF LoopInv, Working, Ended, Serves
<1>5. ASSUME NEW u \in Tracks, NackLoop(u)
      PROVE  LoopInv'
  <2>1. UNCHANGED <<pump, track, buffer, done>>
    BY <1>5 DEF NackLoop, NackLoopTakes, NackLoopForwards, NackLoopEnds, pumpVars,
                bufferVars, rtcpVars
  <2>2. /\ \A t \in Tracks : t # u => queue'[t] = queue[t] /\ nackLoop'[t] = nackLoop[t]
        /\ queue'[u].closed = queue[u].closed
        /\ Serves(u) /\ queue'[u].len \in 0..queue[u].len
        /\ \/ Serves(u)'
           \/ /\ nackLoop'[u] = "ended" /\ queue'[u] = queue[u]
              /\ done \/ (queue[u].closed /\ queue[u].len = 0)
    <3>1. CASE NackLoopTakes(u)
      BY <1>t, <3>1 DEF NackLoopTakes, TypeOK, Serves
    <3>2. CASE NackLoopForwards(u)
      BY <1>t, <3>2 DEF NackLoopForwards, TypeOK, Serves
    <3>3. CASE NackLoopEnds(u)
      BY <1>t, <3>3 DEF NackLoopEnds, TypeOK, Serves
    <3> QED BY <1>5, <3>1, <3>2, <3>3 DEF NackLoop
  <2>3. ~(u > track) /\ (u = track /\ Working => buffer.present)
    BY <2>2 DEF LoopInv, Serves
  <2> QED BY <1>t, <2>1, <2>2, <2>3 DEF LoopInv, Working, Ended, Serves
<1>6. CASE UNCHANGED <<pump, track, buffer, queue, nackLoop>> /\ (done => done')
  BY <1>6 DEF LoopInv, Working, Ended, Serves
<1>7. ASSUME NEW l \in Loops, LoopTicks(l) \/ Loop(l)
      PROVE  LoopInv'
  BY <1>6, <1>7 DEF LoopTicks, Loop, LoopSends, LoopEnds, pumpVars, bufferVars, queueVars
<1>8. CASE Consumer \/ Reset
  BY <1>6, <1>8 DEF Consumer, ConsumerWrites, ConsumerEnds, Reset, pumpVars, bufferVars,
                    queueVars
<1>9. CASE UNCHANGED vars
  BY <1>6, <1>9 DEF vars, bufferVars, queueVars, rtcpVars
<1> QED BY <1>1, <1>2, <1>3, <1>4, <1>5, <1>7, <1>8, <1>9 DEF Next

(* Every NACK has the loop that takes it, and the loop of an ended track   *)
(* was told of the end by its closed channel, unless a reset cancelled the *)
(* context: what NacksFlow needs of every state (AddBuffer, RemoveBuffer   *)
(* and startNackLoop in jitterbuffer.go).                                  *)
THEOREM LoopsAreThere == Spec => []LoopsServe
<1>1. Init => LoopInv
  BY LoopInit
<1>2. TypeOK /\ Between /\ LoopInv /\ [Next]_vars => LoopInv'
  BY LoopStep
<1>3. Inv => TypeOK /\ Between
  BY DEF Inv
<1>4. LoopInv /\ Between => LoopsServe
  BY DEF LoopInv, Between, LoopsServe, Waiting, Working
<1> QED BY <1>1, <1>2, <1>3, <1>4, Invariant, PTL DEF Spec
=============================================================================
