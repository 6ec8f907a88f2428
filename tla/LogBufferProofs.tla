---------------------------- MODULE LogBufferProofs ----------------------------
(***************************************************************************)
(* What the operations of LogBuffer.tla do to a buffer, to the ring, and   *)
(* to a stream that follows the buffer: lemmas for those who use one.      *)
(***************************************************************************)
EXTENDS LogBuffer, SequenceTheorems, TLAPS

(* The records IsLogBuffer speaks of.                                      *)
LogRecords ==
  [written : Nat, subs : SUBSET Viewers, chan : [Viewers -> Seq(Nat)]]

-----------------------------------------------------------------------------
(* Runs of consecutive numbers: k of them, after s.                        *)

Run(s, k) == [i \in 1 .. k |-> s + i]

LEMMA RunIsSeq ==
  ASSUME NEW s \in Nat, NEW k \in Nat
  PROVE  /\ Run(s, k) \in Seq(Nat)
         /\ Len(Run(s, k)) = k
         /\ Run(s, 0) = <<>>
BY DEF Run

LEMMA RunAppend ==
  ASSUME NEW s \in Nat, NEW k \in Nat
  PROVE  Append(Run(s, k), s + k + 1) = Run(s, k + 1)
BY RunIsSeq DEF Run

LEMMA RunTail ==
  ASSUME NEW s \in Nat, NEW k \in Nat, k > 0
  PROVE  /\ Head(Run(s, k)) = s + 1
         /\ Tail(Run(s, k)) = Run(s + 1, k - 1)
<1>1. Head(Run(s, k)) = s + 1
  BY RunIsSeq DEF Run
<1>2. Run(s, k) \in Seq(Nat) /\ Run(s, k) # <<>> /\ Len(Run(s, k)) = k
  BY RunIsSeq
<1>3. /\ Tail(Run(s, k)) \in Seq(Nat)
      /\ Len(Tail(Run(s, k))) = k - 1
      /\ \A i \in 1 .. k - 1 : Tail(Run(s, k))[i] = Run(s, k)[i + 1]
  BY <1>2, HeadTailProperties
<1>4. \A i \in 1 .. k - 1 : Tail(Run(s, k))[i] = (s + 1) + i
  BY <1>3 DEF Run
<1>5. /\ Run(s + 1, k - 1) \in Seq(Nat)
      /\ Len(Run(s + 1, k - 1)) = k - 1
      /\ \A i \in 1 .. k - 1 : Run(s + 1, k - 1)[i] = (s + 1) + i
  BY RunIsSeq DEF Run
<1> DEFINE t == Tail(Run(s, k))
           r == Run(s + 1, k - 1)
<1>6. t \in Seq(Nat) /\ r \in Seq(Nat) /\ Len(t) = Len(r)
  BY <1>3, <1>5
<1>7. \A i \in 1 .. Len(t) : t[i] = r[i]
  BY <1>3, <1>4, <1>5
<1>8. t = r
  <2> HIDE DEF t, r
  <2> QED
    BY <1>6, <1>7, SeqEqual
<1> QED
  BY <1>1, <1>8

-----------------------------------------------------------------------------
(* The operations, field by field.                                         *)

LEMMA NewBuffer ==
  /\ NewLogBuffer \in LogRecords /\ IsLogBuffer(NewLogBuffer)
  /\ NewLogBuffer.subs = {}
BY LogBufferAssumption DEF NewLogBuffer, LogRecords, IsLogBuffer

(* The history ends with the last line written.                            *)
LEMMA NewestWritten ==
  ASSUME NEW b, b.written \in Nat
  PROVE  Newest(b) = b.written
<1>1. CASE b.written = 0
  BY <1>1, LogBufferAssumption DEF Newest, Lines
<1>2. CASE b.written > 0
  <2>1. b.written \in Lines(b) /\ \A m \in Lines(b) : m <= b.written
    BY <1>2, LogBufferAssumption DEF Lines
  <2>2. \A n \in Lines(b) \cup {0} :
          (\A m \in Lines(b) : m <= n) => n = b.written
    BY <2>1, <1>2 DEF Lines
  <2> QED
    BY <2>1, <2>2 DEF Newest
<1> QED
  BY <1>1, <1>2

LEMMA WriteFields ==
  ASSUME NEW b \in LogRecords
  PROVE  /\ Write(b) \in LogRecords
         /\ Write(b).written = b.written + 1
         /\ Write(b).subs = b.subs
         /\ \A v \in Viewers : Write(b).chan[v] =
              IF v \in b.subs /\ Len(b.chan[v]) < SubCap
              THEN Append(b.chan[v], b.written + 1) ELSE b.chan[v]
<1> DEFINE c == [v \in Viewers |->
                   IF v \in b.subs /\ Len(b.chan[v]) < SubCap
                   THEN Append(b.chan[v], b.written + 1) ELSE b.chan[v]]
<1>1. c \in [Viewers -> Seq(Nat)]
  <2>1. \A v \in Viewers : /\ b.chan[v] \in Seq(Nat)
                           /\ Append(b.chan[v], b.written + 1) \in Seq(Nat)
    BY DEF LogRecords
  <2> QED
    BY <2>1
<1>2. Write(b) = [written |-> b.written + 1, subs |-> b.subs, chan |-> c]
  BY DEF Write
<1> HIDE DEF c
<1>3. /\ Write(b) \in LogRecords
      /\ Write(b).written = b.written + 1
      /\ Write(b).subs = b.subs
      /\ Write(b).chan = c
  BY <1>1, <1>2 DEF LogRecords
<1> QED
  BY <1>3 DEF c

LEMMA SubscribeFields ==
  ASSUME NEW b \in LogRecords, NEW v \in Viewers
  PROVE  /\ SubscribeWithHistory(b, v) \in LogRecords
         /\ SubscribeWithHistory(b, v).written = b.written
         /\ SubscribeWithHistory(b, v).subs = b.subs \cup {v}
         /\ \A u \in Viewers : SubscribeWithHistory(b, v).chan[u] =
              IF u = v THEN <<>> ELSE b.chan[u]
<1>1. [b.chan EXCEPT ![v] = <<>>] \in [Viewers -> Seq(Nat)]
  BY DEF LogRecords
<1> QED
  BY <1>1 DEF SubscribeWithHistory, LogRecords

LEMMA UnsubscribeFields ==
  ASSUME NEW b \in LogRecords, NEW v \in Viewers
  PROVE  /\ Unsubscribe(b, v) \in LogRecords
         /\ Unsubscribe(b, v).written = b.written
         /\ Unsubscribe(b, v).subs = b.subs \ {v}
         /\ \A u \in Viewers : Unsubscribe(b, v).chan[u] =
              IF u = v THEN <<>> ELSE b.chan[u]
<1>1. [b.chan EXCEPT ![v] = <<>>] \in [Viewers -> Seq(Nat)]
  BY DEF LogRecords
<1> QED
  BY <1>1 DEF Unsubscribe, LogRecords

LEMMA ReceivedFields ==
  ASSUME NEW b \in LogRecords, NEW v \in Viewers, b.chan[v] # <<>>
  PROVE  /\ Received(b, v) \in LogRecords
         /\ Head(b.chan[v]) \in Nat
         /\ Received(b, v).written = b.written
         /\ Received(b, v).subs = b.subs
         /\ \A u \in Viewers : Received(b, v).chan[u] =
              IF u = v THEN Tail(b.chan[v]) ELSE b.chan[u]
<1>1. b.chan[v] \in Seq(Nat)
  BY DEF LogRecords
<1>2. Tail(b.chan[v]) \in Seq(Nat) /\ Head(b.chan[v]) \in Nat
  BY <1>1, HeadTailProperties
<1>3. [b.chan EXCEPT ![v] = Tail(b.chan[v])] \in [Viewers -> Seq(Nat)]
  BY <1>2 DEF LogRecords
<1> QED
  BY <1>2, <1>3 DEF Received, LogRecords

-----------------------------------------------------------------------------
(* No channel exceeds its capacity, and none holds a line that was not     *)
(* written.                                                                *)

(* A longer log has the numbers of a shorter one.                          *)
LEMMA SeqOfMore ==
  ASSUME NEW n \in Nat, NEW s \in Seq(1 .. n)
  PROVE  s \in Seq(1 .. n + 1) /\ Append(s, n + 1) \in Seq(1 .. n + 1)
<1>1. s \in Seq(1 .. n + 1)
  BY 1 .. n \subseteq 1 .. n + 1
<1> QED
  BY <1>1

LEMMA WriteKeeps ==
  ASSUME NEW b \in LogRecords, IsLogBuffer(b)
  PROVE  IsLogBuffer(Write(b))
<1>1. ASSUME NEW v \in Viewers
      PROVE  /\ Write(b).chan[v] \in Seq(1 .. b.written + 1)
             /\ Len(Write(b).chan[v]) <= SubCap
  <2>1. b.written \in Nat /\ b.chan[v] \in Seq(1 .. b.written)
                          /\ Len(b.chan[v]) <= SubCap
    BY DEF IsLogBuffer
  <2>2. CASE v \in b.subs /\ Len(b.chan[v]) < SubCap
    <3>1. Write(b).chan[v] = Append(b.chan[v], b.written + 1)
      BY <2>2, WriteFields
    <3>2. Append(b.chan[v], b.written + 1) \in Seq(1 .. b.written + 1)
      BY <2>1, SeqOfMore
    <3>3. Len(Append(b.chan[v], b.written + 1)) = Len(b.chan[v]) + 1
          /\ Len(b.chan[v]) \in Nat
      BY <2>1
    <3> QED
      BY <2>2, <3>1, <3>2, <3>3, LogBufferAssumption
  <2>3. CASE ~(v \in b.subs /\ Len(b.chan[v]) < SubCap)
    BY <2>1, <2>3, WriteFields, SeqOfMore
  <2> QED
    BY <2>2, <2>3
<1> QED
  BY <1>1, WriteFields DEF IsLogBuffer, LogRecords

LEMMA SubscribeKeeps ==
  ASSUME NEW b \in LogRecords, NEW v \in Viewers, IsLogBuffer(b)
  PROVE  /\ IsLogBuffer(SubscribeWithHistory(b, v))
         /\ IsLogBuffer(Unsubscribe(b, v))
<1>1. <<>> \in Seq(1 .. b.written) /\ Len(<<>>) <= SubCap
  BY LogBufferAssumption
<1>2. b.written \in Nat /\ b.subs \subseteq Viewers
  BY DEF IsLogBuffer
<1>3. ASSUME NEW c, c.written = b.written, c.subs \subseteq Viewers,
             \A u \in Viewers : c.chan[u] = IF u = v THEN <<>> ELSE b.chan[u]
      PROVE  IsLogBuffer(c)
  <2>1. ASSUME NEW u \in Viewers
        PROVE  c.chan[u] \in Seq(1 .. b.written) /\ Len(c.chan[u]) <= SubCap
    <3>1. CASE u = v
      BY <1>1, <1>3, <3>1
    <3>2. CASE u # v
      BY <1>3, <3>2 DEF IsLogBuffer
    <3> QED
      BY <3>1, <3>2
  <2> QED
    BY <1>2, <1>3, <2>1 DEF IsLogBuffer
<1> QED
  BY <1>2, <1>3, SubscribeFields, UnsubscribeFields

LEMMA ReceivedKeeps ==
  ASSUME NEW b \in LogRecords, NEW v \in Viewers, IsLogBuffer(b),
         b.chan[v] # <<>>
  PROVE  IsLogBuffer(Received(b, v))
<1> DEFINE s == b.chan[v]
<1>1. s \in Seq(1 .. b.written) /\ Len(s) <= SubCap
  BY DEF IsLogBuffer
<1>2. Tail(s) \in Seq(1 .. b.written) /\ Len(Tail(s)) = Len(s) - 1
  BY <1>1, HeadTailProperties
<1>3. Len(s) \in Nat /\ SubCap \in Nat
  BY <1>1, LogBufferAssumption
<1>4. Len(Tail(s)) <= SubCap
  BY <1>1, <1>2, <1>3
<1> QED
  BY <1>2, <1>4, ReceivedFields DEF IsLogBuffer, LogRecords

-----------------------------------------------------------------------------
(* A stream follows a buffer: it is subscribed and, unless it has missed a *)
(* line, its channel goes on where the browser is, up to the last line.    *)

Follows(b, v, at, missing) ==
  /\ v \in b.subs
  /\ ~missing => /\ at <= b.written
                 /\ b.chan[v] = Run(at, b.written - at)

LEMMA FollowWrite ==
  ASSUME NEW b \in LogRecords, NEW v \in Viewers, NEW at \in Nat,
         NEW missing \in BOOLEAN, Follows(b, v, at, missing)
  PROVE  Follows(Write(b), v, at, missing \/ Full(b, v))
<1>1. v \in Write(b).subs
  BY WriteFields DEF Follows
<1>2. ASSUME ~missing, ~Full(b, v)
      PROVE  /\ at <= Write(b).written
             /\ Write(b).chan[v] = Run(at, Write(b).written - at)
  <2>1. /\ b.written \in Nat /\ at <= b.written
        /\ b.chan[v] = Run(at, b.written - at)
    BY <1>2 DEF Follows, LogRecords
  <2>2. /\ b.written - at \in Nat
        /\ at + (b.written - at) + 1 = b.written + 1
        /\ (b.written + 1) - at = (b.written - at) + 1
    BY <2>1
  <2>3. Len(b.chan[v]) \in Nat
    BY DEF LogRecords
  <2>4. Len(b.chan[v]) < SubCap
    BY <1>1, <1>2, <2>3, WriteFields, LogBufferAssumption DEF Full
  <2>5. Write(b).chan[v] = Append(b.chan[v], b.written + 1)
    BY <1>1, <2>4, WriteFields
  <2>6. Append(b.chan[v], b.written + 1) = Run(at, (b.written - at) + 1)
    BY <2>1, <2>2, RunAppend
  <2> QED
    BY <2>1, <2>2, <2>5, <2>6, WriteFields
<1> QED
  BY <1>1, <1>2 DEF Follows

LEMMA FollowSubscribe ==
  ASSUME NEW b \in LogRecords, NEW v \in Viewers, NEW missing
  PROVE  Follows(SubscribeWithHistory(b, v), v, Newest(b), missing)
<1>1. b.written \in Nat /\ Newest(b) = b.written
  BY NewestWritten DEF LogRecords
<1>2. SubscribeWithHistory(b, v).chan[v] = <<>>
  BY SubscribeFields DEF LogRecords
<1>3. Run(b.written, b.written - b.written) = <<>>
  BY <1>1, RunIsSeq
<1> QED
  BY <1>1, <1>2, <1>3, SubscribeFields DEF Follows

LEMMA FollowReceived ==
  ASSUME NEW b \in LogRecords, NEW v \in Viewers, NEW at \in Nat,
         NEW missing \in BOOLEAN, Follows(b, v, at, missing), b.chan[v] # <<>>
  PROVE  Follows(Received(b, v), v, Head(b.chan[v]), missing)
<1> DEFINE c == Received(b, v)
<1>1. /\ v \in c.subs /\ c.written = b.written
      /\ c.chan[v] = Tail(b.chan[v])
  BY ReceivedFields DEF Follows, LogRecords
<1>2. ASSUME ~missing
      PROVE  /\ Head(b.chan[v]) <= b.written
             /\ Tail(b.chan[v]) = Run(Head(b.chan[v]), b.written - Head(b.chan[v]))
  <2> DEFINE k == b.written - at
  <2>1. b.written \in Nat /\ at <= b.written /\ b.chan[v] = Run(at, k)
    BY <1>2 DEF Follows, LogRecords
  <2>2. /\ k \in Nat /\ k - 1 = b.written - (at + 1)
        /\ k > 0 => at + 1 <= b.written
    BY <2>1
  <2> HIDE DEF k
  <2>3. k > 0
    BY <2>1, <2>2, RunIsSeq
  <2>4. Head(b.chan[v]) = at + 1 /\ Tail(b.chan[v]) = Run(at + 1, k - 1)
    BY <2>1, <2>2, <2>3, RunTail
  <2> QED
    BY <2>2, <2>3, <2>4
<1> QED
  BY <1>1, <1>2 DEF Follows

(* What one stream does is nothing to another.                             *)
LEMMA FollowOther ==
  ASSUME NEW b \in LogRecords, NEW v \in Viewers, NEW u \in Viewers, u # v,
         NEW at \in Nat, NEW missing \in BOOLEAN, Follows(b, u, at, missing)
  PROVE  /\ Follows(SubscribeWithHistory(b, v), u, at, missing)
         /\ Follows(Unsubscribe(b, v), u, at, missing)
         /\ b.chan[v] # <<>> => Follows(Received(b, v), u, at, missing)
<1>1. Follows(SubscribeWithHistory(b, v), u, at, missing)
  BY SubscribeFields DEF Follows
<1>2. Follows(Unsubscribe(b, v), u, at, missing)
  BY UnsubscribeFields DEF Follows
<1>3. b.chan[v] # <<>> => Follows(Received(b, v), u, at, missing)
  BY ReceivedFields DEF Follows
<1> QED
  BY <1>1, <1>2, <1>3
=============================================================================
