------------------------------ MODULE LogBuffer ------------------------------
(***************************************************************************)
(* internal/runtime/logs.go: the ring of the last lines of an app or of a  *)
(* deploy, and its subscribers.  Lines are numbered as they are written,   *)
(* and a subscriber's channel holds numbers.  Every operation runs under   *)
(* the buffer's own mutex, hence is one step of whoever calls it.          *)
(***************************************************************************)
EXTENDS Naturals, Sequences

CONSTANTS
  Viewers,  \* the streams that may subscribe
  Ring,     \* lines kept for those who subscribe later (1000)
  SubCap    \* capacity of a subscriber's channel (256)

ASSUME LogBufferAssumption == Ring \in Nat \ {0} /\ SubCap \in Nat \ {0}

NewLogBuffer == [written |-> 0, subs |-> {}, chan |-> [v \in Viewers |-> <<>>]]

\* The numbers of the lines in the ring: the history of a new subscriber.
Lines(b) == {n \in 1 .. b.written : n + Ring > b.written}

Newest(b) == CHOOSE n \in Lines(b) \cup {0} : \A m \in Lines(b) : m <= n

\* Mutant: the send waits for nobody and has no bound.
WriteUnbounded(b) ==
  [written |-> b.written + 1,
   subs |-> b.subs,
   chan |-> [v \in Viewers |->
               IF v \in b.subs THEN Append(b.chan[v], b.written + 1)
               ELSE b.chan[v]]]

\* A subscriber whose channel is full does not get the line.
Write(b) ==
  [written |-> b.written + 1,
   subs |-> b.subs,
   chan |-> [v \in Viewers |->
               IF v \in b.subs /\ Len(b.chan[v]) < SubCap
               THEN Append(b.chan[v], b.written + 1) ELSE b.chan[v]]]

Full(b, v) == v \in b.subs /\ Len(b.chan[v]) >= SubCap

SubscribeWithHistory(b, v) ==
  [written |-> b.written,
   subs |-> b.subs \cup {v},
   chan |-> [b.chan EXCEPT ![v] = <<>>]]

Unsubscribe(b, v) ==
  [written |-> b.written,
   subs |-> b.subs \ {v},
   chan |-> [b.chan EXCEPT ![v] = <<>>]]

Received(b, v) == [b EXCEPT !.chan[v] = Tail(@)]

IsLogBuffer(b) ==
  /\ b.written \in Nat
  /\ b.subs \subseteq Viewers
  /\ \A v \in Viewers :
       /\ b.chan[v] \in Seq(1 .. b.written)
       /\ Len(b.chan[v]) <= SubCap
=============================================================================
