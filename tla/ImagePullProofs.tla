--------------------------- MODULE ImagePullProofs ---------------------------
(***************************************************************************)
(* ImagePull.tla, for any number of apps, pull goroutines and viewers and  *)
(* any capacity of the channels: outcomes of pulls and lives of channels.  *)
(***************************************************************************)
EXTENDS ImagePull, TLAPS

-----------------------------------------------------------------------------
(* Types: no channel holds more than its capacity.                         *)

LEMMA TypeInit == Init => TypeOK
BY ImagePullAssumption DEF Init, TypeOK, PCs

LEMMA StopTypes == TypeOK /\ Stop => TypeOK'
<1> SUFFICES ASSUME TypeOK, Stop PROVE TypeOK'
  OBVIOUS
<1>1. 0 \in 0 .. Cap /\ 0 \in 0 .. Messages
  BY ImagePullAssumption
<1>2. /\ buffered' \in [Pullers -> 0 .. Cap]
      /\ left' \in [Pullers -> 0 .. Messages]
  BY <1>1 DEF Stop
<1>3. /\ pulls' \in [Apps -> Pullers \cup {None}]
      /\ found' \in [Pullers -> Pullers \cup {None}]
      /\ watches' \in [Viewers -> Pullers \cup {None}]
  BY DEF Stop
<1>4. /\ closed' \in [Pullers -> BOOLEAN]
      /\ pc' \in [Pullers -> PCs]
      /\ up' \in BOOLEAN
  BY DEF Stop, PCs
<1> QED
  BY <1>2, <1>3, <1>4 DEF TypeOK, Stop

LEMMA TypeStep == TypeOK /\ [Next]_vars => TypeOK'
<1> SUFFICES ASSUME TypeOK, [Next]_vars PROVE TypeOK'
  OBVIOUS
<1> USE ImagePullAssumption DEF TypeOK, PCs, Sending, At, Goto, chans, pullers
<1>1. ASSUME NEW k \in Pullers, NEW a \in Apps, Request(k, a) PROVE TypeOK'
  BY <1>1 DEF Request
<1>2. ASSUME NEW k \in Pullers, Pull(k) PROVE TypeOK'
  <2>1. CASE Check(k)
    BY <2>1 DEF Check, Registered
  <2>2. CASE Announce(k)
    BY <2>2 DEF Announce, SetStatus
  <2>3. CASE OpenPullChannel(k)
    BY <2>3 DEF OpenPullChannel
  <2>4. CASE SendProgress(k)
    BY <2>4 DEF SendProgress
  <2>5. CASE PullFails(k)
    BY <2>5 DEF PullFails
  <2>6. CASE Pulled(k)
    BY <2>6 DEF Pulled
  <2>7. CASE Panic(k)
    BY <2>7, StopTypes DEF Panic
  <2>8. CASE Send(k)
    <3>1. buffered[k] + 1 \in 0 .. Cap
      BY <2>8 DEF Send, Room
    <3>2. buffered' \in [Pullers -> 0 .. Cap]
      BY <2>8, <3>1 DEF Send
    <3>3. pc' \in [Pullers -> PCs]
      BY <2>8 DEF Send, After
    <3> QED
      BY <2>8, <3>2, <3>3 DEF Send
  <2>9. CASE ErrorStatus(k)
    BY <2>9 DEF ErrorStatus, SetStatus
  <2>10. CASE Settle(k)
    BY <2>10 DEF Settle, SetStatus
  <2>11. CASE Unregister(k)
    BY <2>11 DEF Unregister, Registered
  <2>12. CASE Close(k)
    BY <2>12 DEF Close
  <2> QED
    BY <1>2, <2>1, <2>2, <2>3, <2>4, <2>5, <2>6, <2>7,
       <2>8, <2>9, <2>10, <2>11, <2>12 DEF Pull
<1>3. ASSUME NEW v \in Viewers, NEW a \in Apps, View(v, a) PROVE TypeOK'
  BY <1>3 DEF View
<1>4. ASSUME NEW v \in Viewers, Stream(v) \/ Disconnect(v) PROVE TypeOK'
  <2>1. CASE Receive(v)
    <3>1. watches[v] \in Pullers /\ buffered[watches[v]] - 1 \in 0 .. Cap
      BY <2>1 DEF Receive
    <3>2. buffered' \in [Pullers -> 0 .. Cap]
      BY <2>1, <3>1 DEF Receive
    <3> QED
      BY <2>1, <3>2 DEF Receive
  <2>2. CASE StreamEnds(v) \/ Disconnect(v)
    BY <2>2 DEF StreamEnds, Disconnect
  <2> QED
    BY <1>4, <2>1, <2>2 DEF Stream
<1>5. CASE Shutdown
  BY <1>5, StopTypes DEF Shutdown
<1>6. CASE Boot
  BY <1>6 DEF Boot
<1>7. CASE UNCHANGED vars
  BY <1>7 DEF vars
<1> QED
  BY <1>1, <1>2, <1>3, <1>4, <1>5, <1>6, <1>7 DEF Next

(* Every variable keeps its type; no channel holds more than its capacity  *)
(* (registry/pull.go:102-109).                                             *)
THEOREM TypeCorrect == Spec => []TypeOK
BY TypeInit, TypeStep, PTL DEF Spec

-----------------------------------------------------------------------------
(* Rows.  A server that is down has no goroutine.                          *)

LEMMA RowStep ==
  TypeOK /\ PullingBacked /\ [Next]_vars => PullingBacked'
<1> SUFFICES ASSUME TypeOK /\ PullingBacked, [Next]_vars PROVE PullingBacked'
  OBVIOUS
<1> USE ImagePullAssumption
    DEF TypeOK, PullingBacked, Pulling, PCs, Sending, At, Goto, chans, pullers
<1>1. ASSUME NEW k \in Pullers, NEW a \in Apps, Request(k, a)
      PROVE  PullingBacked'
  BY <1>1 DEF Request
<1>2. ASSUME NEW k \in Pullers, Pull(k) PROVE PullingBacked'
  <2>1. CASE Check(k)
    BY <2>1 DEF Check, Registered
  <2>2. CASE Announce(k)
    BY <2>2 DEF Announce, SetStatus
  <2>3. CASE OpenPullChannel(k)
    BY <2>3 DEF OpenPullChannel
  <2>4. CASE SendProgress(k)
    BY <2>4 DEF SendProgress
  <2>5. CASE PullFails(k)
    BY <2>5 DEF PullFails
  <2>6. CASE Pulled(k)
    BY <2>6 DEF Pulled
  <2>7. CASE Panic(k)
    BY <2>7 DEF Panic, Stop
  <2>8. CASE Send(k)
    BY <2>8 DEF Send, Room, After
  <2>9. CASE ErrorStatus(k)
    BY <2>9 DEF ErrorStatus, SetStatus
  <2>10. CASE Settle(k)
    BY <2>10 DEF Settle, SetStatus
  <2>11. CASE Unregister(k)
    BY <2>11 DEF Unregister, Registered
  <2>12. CASE Close(k)
    BY <2>12 DEF Close
  <2> QED
    BY <1>2, <2>1, <2>2, <2>3, <2>4, <2>5, <2>6, <2>7,
       <2>8, <2>9, <2>10, <2>11, <2>12 DEF Pull
<1>3. ASSUME NEW v \in Viewers, NEW a \in Apps, View(v, a) PROVE PullingBacked'
  BY <1>3 DEF View
<1>4. ASSUME NEW v \in Viewers, Stream(v) \/ Disconnect(v) PROVE PullingBacked'
  BY <1>4 DEF Stream, Receive, StreamEnds, Disconnect
<1>5. CASE Shutdown
  BY <1>5 DEF Shutdown, Stop
<1>6. CASE Boot
  BY <1>6 DEF Boot
<1>7. CASE UNCHANGED vars
  BY <1>7 DEF vars
<1> QED
  BY <1>1, <1>2, <1>3, <1>4, <1>5, <1>6, <1>7 DEF Next

(* A row marked "pulling" has a goroutine that will write its outcome, or  *)
(* the server is down and the next boot resets the row (apps.go:168-209,   *)
(* store/apps.go:207).                                                     *)
THEOREM Backed == Spec => []PullingBacked
<1>1. Init => PullingBacked
  BY DEF Init, PullingBacked
<1> QED
  BY <1>1, TypeInit, TypeStep, RowStep, PTL DEF Spec

-----------------------------------------------------------------------------
(* Channels.  A registered channel belongs to a pull of its app and is     *)
(* open; one that is about to be closed is open, registered nowhere, and   *)
(* in the hands of one goroutine, a pull of the same app; one that is      *)
(* about to be made is neither registered nor about to be closed.          *)

Unused(k) ==
  /\ \A a \in Apps : pulls[a] # k
  /\ \A j \in Pullers : pc[j] = "close" => found[j] # k

ChanInv ==
  /\ \A a \in Apps : pulls[a] # None =>
       kapp[pulls[a]] = a /\ ~closed[pulls[a]]
  /\ \A k \in Pullers : pc[k] = "close" =>
       /\ found[k] \in Pullers /\ ~closed[found[k]]
       /\ kapp[found[k]] = kapp[k]
       /\ \A a \in Apps : pulls[a] # found[k]
  /\ \A j, k \in Pullers :
       pc[j] = "close" /\ pc[k] = "close" /\ found[j] = found[k] => j = k
  /\ \A k \in Pullers : pc[k] \in {"check", "announce", "open"} => Unused(k)

LEMMA ChanStep == TypeOK /\ ChanInv /\ [Next]_vars => ChanInv'
<1> SUFFICES ASSUME TypeOK /\ ChanInv, [Next]_vars PROVE ChanInv'
  OBVIOUS
<1> USE ImagePullAssumption
    DEF TypeOK, ChanInv, Unused, PCs, Sending, At, Goto, chans, pullers
<1>1. ASSUME NEW k \in Pullers, NEW a \in Apps, Request(k, a) PROVE ChanInv'
  BY <1>1 DEF Request
<1>2. ASSUME NEW k \in Pullers, Pull(k) PROVE ChanInv'
  <2>1. CASE Check(k)
    BY <2>1 DEF Check, Registered
  <2>2. CASE Announce(k)
    BY <2>2 DEF Announce, SetStatus
  <2>3. CASE OpenPullChannel(k)
    BY <2>3 DEF OpenPullChannel
  <2>4. CASE SendProgress(k)
    BY <2>4 DEF SendProgress
  <2>5. CASE PullFails(k)
    BY <2>5 DEF PullFails
  <2>6. CASE Pulled(k)
    BY <2>6 DEF Pulled
  <2>7. CASE Panic(k)
    BY <2>7 DEF Panic, Stop
  <2>8. CASE Send(k)
    BY <2>8 DEF Send, Room, After
  <2>9. CASE ErrorStatus(k)
    BY <2>9 DEF ErrorStatus, SetStatus
  <2>10. CASE Settle(k)
    BY <2>10 DEF Settle, SetStatus
  <2>11. CASE Unregister(k)
    BY <2>11 DEF Unregister, Registered
  <2>12. CASE Close(k)
    BY <2>12 DEF Close
  <2> QED
    BY <1>2, <2>1, <2>2, <2>3, <2>4, <2>5, <2>6, <2>7,
       <2>8, <2>9, <2>10, <2>11, <2>12 DEF Pull
<1>3. ASSUME NEW v \in Viewers, NEW a \in Apps, View(v, a) PROVE ChanInv'
  BY <1>3 DEF View
<1>4. ASSUME NEW v \in Viewers, Stream(v) \/ Disconnect(v) PROVE ChanInv'
  BY <1>4 DEF Stream, Receive, StreamEnds, Disconnect
<1>5. CASE Shutdown
  BY <1>5 DEF Shutdown, Stop
<1>6. CASE Boot
  BY <1>6 DEF Boot
<1>7. CASE UNCHANGED vars
  BY <1>7 DEF vars
<1> QED
  BY <1>1, <1>2, <1>3, <1>4, <1>5, <1>6, <1>7 DEF Next

THEOREM ChanInvariance == Spec => []ChanInv
<1>1. Init => ChanInv
  BY DEF Init, ChanInv
<1> QED
  BY <1>1, TypeInit, TypeStep, ChanStep, PTL DEF Spec

(* A registered channel is open, so no viewer takes a pull in progress for *)
(* one that is complete (manager.go:259-269).                              *)
THEOREM Open == Spec => []RegisteredOpen
<1>1. ChanInv => RegisteredOpen
  BY DEF ChanInv, RegisteredOpen
<1> QED
  BY <1>1, ChanInvariance, PTL

(* No channel is closed twice, whatever pulls of one app overlap.          *)
THEOREM Once == Spec => []ClosedOnce
<1>1. ChanInv => ClosedOnce
  BY DEF ChanInv, ClosedOnce
<1> QED
  BY <1>1, ChanInvariance, PTL

(* A channel that no other pull of the app can have taken is closed by its *)
(* own pull, which has written the outcome (apps.go:168-209, 280).         *)
THEOREM Complete == Spec => CompleteMeansWritten
<1> DEFINE Written ==
      \A k \in Pullers :
        ~closed[k] /\ closed'[k] /\ Alone(k) => status[kapp[k]] # "pulling"
<1>1. TypeOK /\ PullingBacked /\ ChanInv /\ [Next]_vars => [Written]_vars
  <2> SUFFICES ASSUME TypeOK, PullingBacked, ChanInv, Next, NEW k \in Pullers,
                      ~closed[k], closed'[k], Alone(k)
               PROVE  status[kapp[k]] # "pulling"
    OBVIOUS
  <2>1. PICK j \in Pullers : Close(j) /\ found[j] = k
    <3>1. ASSUME NEW j \in Pullers, Pull(j)
          PROVE  Close(j) /\ found[j] = k
      BY <3>1
      DEF Pull, Check, Announce, OpenPullChannel, SendProgress, PullFails,
          Pulled, Panic, Stop, Send, ErrorStatus, Settle, Unregister, Close,
          TypeOK, chans
    <3> QED
      BY <3>1 DEF Next, Request, View, Stream, Receive, StreamEnds, Disconnect,
                  Shutdown, Stop, Boot, chans
  <2>2. up /\ pc[j] = "close" /\ kapp[j] = kapp[k]
    BY <2>1 DEF Close, At, ChanInv
  <2>3. j = k
    BY <2>2 DEF Alone
  <2>4. ASSUME NEW i \in Pullers, kapp[i] = kapp[k] PROVE ~Pulling(i)
    <3>1. CASE i = k
      BY <2>2, <2>3, <3>1 DEF Pulling
    <3>2. CASE i # k
      <4>1. pc[i] \in {"idle", "check", "announce"}
        BY <2>4, <3>2 DEF Alone
      <4> QED
        BY <4>1 DEF Pulling
    <3> QED
      BY <3>1, <3>2
  <2> QED
    BY <2>2, <2>4 DEF PullingBacked, TypeOK
<1> QED
  BY <1>1, TypeCorrect, Backed, ChanInvariance, PTL
  DEF Spec, CompleteMeansWritten
=============================================================================
