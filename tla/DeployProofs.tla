----------------------------- MODULE DeployProofs -----------------------------
(***************************************************************************)
(* Deploy.tla, for any number of requests, browsers, apps and messages and *)
(* any capacity of the channels: one deploy at a time, a relay that is     *)
(* never ahead of its pull, and streams without gaps.                      *)
(***************************************************************************)
EXTENDS Deploy, LogBufferProofs

-----------------------------------------------------------------------------
(* The slot.                                                               *)

SlotType ==
  /\ deploy \in Deployers \cup {None}
  /\ done \in [Deployers -> BOOLEAN]
  /\ pc \in [Deployers -> PCs]
  /\ found \in [Deployers -> Deployers \cup {None}]

(* A request between its StartDeploy and the close of its Done is the one  *)
(* in Manager.deploy, still open.                                          *)
SlotInv ==
  /\ SlotType
  /\ \A d \in Deployers : Holds(d) => deploy = d /\ ~done[d]
  /\ \A d \in Deployers : pc[d] = "close" => found[d] = d

LEMMA SlotInit == Init => SlotInv
BY DEF Init, SlotInv, SlotType, PCs, Holds, Running

LEMMA SlotStep == SlotInv /\ [Next]_vars => SlotInv'
<1> SUFFICES ASSUME SlotInv, [Next]_vars PROVE SlotInv'
  OBVIOUS
<1> USE DeployAssumption DEF SlotInv, SlotType, PCs, Running, Holds, At, Goto
<1>1. ASSUME NEW d \in Deployers, Request(d) PROVE SlotInv'
  BY <1>1 DEF Request, slot
<1>2. ASSUME NEW d \in Deployers, Handler(d) PROVE SlotInv'
  <2>1. CASE Refused(d)
    BY <2>1 DEF Refused, slot
  <2>2. CASE StartDeploy(d)
    BY <2>2 DEF StartDeploy, Busy
  <2>3. CASE Imported(d)
    BY <2>3 DEF Imported, slot
  <2>4. CASE Skip(d)
    BY <2>4 DEF Skip, NextApp, slot
  <2>5. CASE BeginPull(d)
    BY <2>5 DEF BeginPull, slot
  <2>6. CASE SendProgress(d)
    BY <2>6 DEF SendProgress, slot
  <2>7. CASE ClosePull(d)
    BY <2>7 DEF ClosePull, slot
  <2>8. CASE PullFailed(d)
    BY <2>8 DEF PullFailed, NextApp, slot
  <2>9. CASE Pulled(d)
    BY <2>9 DEF Pulled, slot
  <2>10. CASE StartApp(d)
    BY <2>10 DEF StartApp, slot
  <2>11. CASE Prune(d)
    BY <2>11 DEF Prune, NextApp, slot
  <2>12. CASE Complete(d)
    BY <2>12 DEF Complete, slot
  <2>13. CASE FinishRead(d)
    BY <2>13 DEF FinishRead, slot
  <2>14. CASE FinishClose(d)
    BY <2>14 DEF FinishClose
  <2> QED
    BY <1>2, <2>1, <2>2, <2>3, <2>4, <2>5, <2>6, <2>7, <2>8, <2>9, <2>10,
       <2>11, <2>12, <2>13, <2>14 DEF Handler
<1>3. ASSUME NEW d \in Deployers, Relay(d) PROVE SlotInv'
  BY <1>3 DEF Relay, RelayLine, RelayEnds, slot
<1>4. ASSUME NEW v \in Viewers,
             CurrentDeploy(v) \/ Stream(v) \/ Disconnect(v)
      PROVE  SlotInv'
  BY <1>4 DEF CurrentDeploy, Stream, Subscribe, SendHistory, GoLive, Receive,
              SayDone, TellDone, Return, Disconnect, StreamEnds, slot
<1>5. CASE UNCHANGED vars
  BY <1>5 DEF vars, slot
<1> QED
  BY <1>1, <1>2, <1>3, <1>4, <1>5 DEF Next

THEOREM SlotInvariance == Spec => []SlotInv
BY SlotInit, SlotStep, PTL DEF Spec

(* At most one deploy is under way (manager.go:67-83).                     *)
THEOREM OneAtATime == Spec => []OneDeploy
<1>1. SlotInv => OneDeploy
  BY DEF SlotInv, OneDeploy
<1> QED
  BY <1>1, SlotInvariance, PTL

(* FinishDeploy closes the Done of its own deploy, which is open           *)
(* (manager.go:86-97).                                                     *)
THEOREM FinishOwn == Spec => []FinishesOwn
<1>1. SlotInv => FinishesOwn
  BY DEF SlotInv, FinishesOwn, Holds
<1> QED
  BY <1>1, SlotInvariance, PTL

-----------------------------------------------------------------------------
(* The relay of a pull.                                                    *)

RelayInv ==
  /\ pc \in [Deployers -> PCs]
  /\ relay \in [Deployers -> {"none", "open", "closed", "ended"}]
  /\ \A d \in Deployers : relay[d] = "open" => pc[d] = "pull"
  /\ \A d \in Deployers : relay[d] = "closed" => pc[d] \in {"join", "pulled"}

LEMMA RelayInit == Init => RelayInv
BY DEF Init, RelayInv, PCs

LEMMA RelayStep == RelayInv /\ [Next]_vars => RelayInv'
<1> SUFFICES ASSUME RelayInv, [Next]_vars PROVE RelayInv'
  OBVIOUS
<1> USE DEF RelayInv, PCs, Running, At, Goto
<1>1. ASSUME NEW d \in Deployers, Request(d) PROVE RelayInv'
  BY <1>1 DEF Request, pull
<1>2. ASSUME NEW d \in Deployers, Handler(d) PROVE RelayInv'
  <2>1. CASE Refused(d)
    BY <2>1 DEF Refused, pull
  <2>2. CASE StartDeploy(d)
    BY <2>2 DEF StartDeploy, pull
  <2>3. CASE Imported(d)
    BY <2>3 DEF Imported, pull
  <2>4. CASE Skip(d)
    BY <2>4 DEF Skip, NextApp, pull
  <2>5. CASE BeginPull(d)
    BY <2>5 DEF BeginPull
  <2>6. CASE SendProgress(d)
    BY <2>6 DEF SendProgress
  <2>7. CASE ClosePull(d)
    BY <2>7 DEF ClosePull
  <2>8. CASE PullFailed(d)
    BY <2>8 DEF PullFailed, Relayed, NextApp, pull
  <2>9. CASE Pulled(d)
    BY <2>9 DEF Pulled, Relayed, pull
  <2>10. CASE StartApp(d)
    BY <2>10 DEF StartApp, pull
  <2>11. CASE Prune(d)
    BY <2>11 DEF Prune, NextApp, pull
  <2>12. CASE Complete(d)
    BY <2>12 DEF Complete, pull
  <2>13. CASE FinishRead(d)
    BY <2>13 DEF FinishRead, pull
  <2>14. CASE FinishClose(d)
    BY <2>14 DEF FinishClose, pull
  <2> QED
    BY <1>2, <2>1, <2>2, <2>3, <2>4, <2>5, <2>6, <2>7, <2>8, <2>9, <2>10,
       <2>11, <2>12, <2>13, <2>14 DEF Handler
<1>3. ASSUME NEW d \in Deployers, Relay(d) PROVE RelayInv'
  BY <1>3 DEF Relay, RelayLine, RelayEnds
<1>4. ASSUME NEW v \in Viewers,
             CurrentDeploy(v) \/ Stream(v) \/ Disconnect(v)
      PROVE  RelayInv'
  BY <1>4 DEF CurrentDeploy, Stream, Subscribe, SendHistory, GoLive, Receive,
              SayDone, TellDone, Return, Disconnect, StreamEnds, pull
<1>5. CASE UNCHANGED vars
  BY <1>5 DEF vars, pull
<1> QED
  BY <1>1, <1>2, <1>3, <1>4, <1>5 DEF Next

(* No line of a pull is written after the verdict on it, nor after the end *)
(* of the deploy (portability.go:229, 239, 248).                           *)
THEOREM Ordered == Spec => LinesInOrder
<1>1. RelayInv /\ [Next]_vars =>
        [\A d \in Deployers :
           RelayLine(d) => pc[d] \in {"pull", "join", "pulled"}]_vars
  BY DEF RelayInv, RelayLine
<1> QED
  BY <1>1, RelayInit, RelayStep, PTL DEF Spec, LinesInOrder

-----------------------------------------------------------------------------
(* The queue: an app whose turn it is has not been counted off yet.        *)

QueueInv ==
  /\ pc \in [Deployers -> PCs]
  /\ todo \in [Deployers -> 0 .. Queue]
  /\ left \in [Deployers -> 0 .. Messages]
  /\ pullCh \in [Deployers -> 0 .. ChCap]
  /\ \A d \in Deployers :
       pc[d] \in {"pull", "join", "pulled", "start", "prune"} => todo[d] > 0

LEMMA QueueInit == Init => QueueInv
BY DeployAssumption DEF Init, QueueInv, PCs

LEMMA QueueStep == QueueInv /\ [Next]_vars => QueueInv'
<1> SUFFICES ASSUME QueueInv, [Next]_vars PROVE QueueInv'
  OBVIOUS
<1> USE DeployAssumption DEF QueueInv, PCs, Running, At, Goto
<1>1. ASSUME NEW d \in Deployers, Request(d) PROVE QueueInv'
  BY <1>1 DEF Request, pull
<1>2. ASSUME NEW d \in Deployers, Handler(d) PROVE QueueInv'
  <2>1. CASE Refused(d) \/ StartDeploy(d) \/ FinishRead(d) \/ FinishClose(d)
    BY <2>1 DEF Refused, StartDeploy, FinishRead, FinishClose, pull
  <2>2. CASE Imported(d)
    BY <2>2 DEF Imported, pull
  <2>3. CASE Skip(d)
    BY <2>3 DEF Skip, NextApp, pull
  <2>4. CASE BeginPull(d)
    BY <2>4 DEF BeginPull
  <2>5. CASE SendProgress(d)
    BY <2>5 DEF SendProgress
  <2>6. CASE ClosePull(d)
    BY <2>6 DEF ClosePull
  <2>7. CASE PullFailed(d)
    BY <2>7 DEF PullFailed, NextApp, pull
  <2>8. CASE Pulled(d) \/ StartApp(d)
    BY <2>8 DEF Pulled, StartApp, pull
  <2>9. CASE Prune(d)
    BY <2>9 DEF Prune, NextApp, pull
  <2>10. CASE Complete(d)
    BY <2>10 DEF Complete, pull
  <2> QED
    BY <1>2, <2>1, <2>2, <2>3, <2>4, <2>5, <2>6, <2>7, <2>8, <2>9, <2>10
       DEF Handler
<1>3. ASSUME NEW d \in Deployers, Relay(d) PROVE QueueInv'
  BY <1>3 DEF Relay, RelayLine, RelayEnds
<1>4. ASSUME NEW v \in Viewers,
             CurrentDeploy(v) \/ Stream(v) \/ Disconnect(v)
      PROVE  QueueInv'
  BY <1>4 DEF CurrentDeploy, Stream, Subscribe, SendHistory, GoLive, Receive,
              SayDone, TellDone, Return, Disconnect, StreamEnds, pull
<1>5. CASE UNCHANGED vars
  BY <1>5 DEF vars, pull
<1> QED
  BY <1>1, <1>2, <1>3, <1>4, <1>5 DEF Next

-----------------------------------------------------------------------------
(* The streams.                                                            *)

Attached == {"history", "check", "live", "told"}

(* A deploy that is about to get a new log is watched by nobody, and an    *)
(* attached stream follows the log it watches.                             *)
StreamInv ==
  /\ pc \in [Deployers -> PCs]
  /\ log \in [Deployers -> LogRecords]
  /\ \A d \in Deployers : IsLogBuffer(log[d])
  /\ vpc \in [Viewers -> {"idle", "attach"} \cup Attached]
  /\ watches \in [Viewers -> Deployers \cup {None}]
  /\ seen \in [Viewers -> Nat]
  /\ missed \in [Viewers -> BOOLEAN]
  /\ deploy \in Deployers \cup {None}
  /\ \A d \in Deployers : pc[d] = "acquire" =>
       deploy # d /\ \A v \in Viewers : watches[v] # d
  /\ \A v \in Viewers : vpc[v] # "idle" => watches[v] \in Deployers
  /\ \A v \in Viewers : vpc[v] \in Attached =>
       Follows(log[watches[v]], v, seen[v], missed[v])

LEMMA StreamInit == Init => StreamInv
BY NewBuffer DEF Init, StreamInv, PCs, Attached

(* Say, whoever writes the line.                                           *)
LEMMA StreamSay ==
  ASSUME NEW d \in Deployers, StreamInv, Say(d), pc' \in [Deployers -> PCs],
         UNCHANGED deploy,
         \A e \in Deployers : pc'[e] = "acquire" => pc[e] = "acquire"
  PROVE  StreamInv'
<1> DEFINE b == log[d]
<1>1. b \in LogRecords /\ IsLogBuffer(b)
  BY DEF StreamInv
<1>2. Write(b) \in LogRecords /\ IsLogBuffer(Write(b))
  BY <1>1, WriteFields, WriteKeeps
<1>3. /\ log' = [log EXCEPT ![d] = Write(b)]
      /\ missed' = [v \in Viewers |-> missed[v] \/ Full(b, v)]
      /\ UNCHANGED <<vpc, watches, seen>>
  BY DEF Say
<1>4. /\ log' \in [Deployers -> LogRecords]
      /\ \A e \in Deployers : IsLogBuffer(log'[e])
      /\ missed' \in [Viewers -> BOOLEAN]
  BY <1>2, <1>3 DEF StreamInv, Full
<1>5. ASSUME NEW v \in Viewers, vpc[v] \in Attached
      PROVE  Follows(log'[watches[v]], v, seen[v], missed'[v])
  <2>1. /\ watches[v] \in Deployers /\ seen[v] \in Nat /\ missed[v] \in BOOLEAN
        /\ Follows(log[watches[v]], v, seen[v], missed[v])
    BY <1>5 DEF StreamInv, Attached
  <2>2. CASE watches[v] # d
    <3>1. log'[watches[v]] = log[watches[v]] /\ (missed[v] => missed'[v])
      BY <1>3, <2>1, <2>2 DEF StreamInv
    <3> QED
      BY <2>1, <3>1 DEF Follows
  <2>3. CASE watches[v] = d
    <3>1. Follows(Write(b), v, seen[v], missed[v] \/ Full(b, v))
      BY <1>1, <2>1, <2>3, FollowWrite
    <3>2. log'[watches[v]] = Write(b) /\ missed'[v] = (missed[v] \/ Full(b, v))
      BY <1>3, <2>3 DEF StreamInv
    <3> QED
      BY <3>1, <3>2
  <2> QED
    BY <2>2, <2>3
<1> QED
  BY <1>3, <1>4, <1>5 DEF StreamInv

(* A step that leaves the logs and the streams alone.                      *)
LEMMA StreamFrame ==
  ASSUME StreamInv, UNCHANGED <<log, viewer, deploy>>,
         pc' \in [Deployers -> PCs],
         \A d \in Deployers : pc'[d] = "acquire" => pc[d] = "acquire"
  PROVE  StreamInv'
BY DEF StreamInv, viewer

(* A step of one stream: the others follow their logs as before.           *)
LEMMA StreamOwn ==
  ASSUME StreamInv, NEW v \in Viewers, NEW c \in LogRecords, IsLogBuffer(c),
         watches[v] \in Deployers,
         \/ c = SubscribeWithHistory(log[watches[v]], v)
         \/ c = Unsubscribe(log[watches[v]], v)
         \/ c = Received(log[watches[v]], v) /\ log[watches[v]].chan[v] # <<>>,
         log' = [log EXCEPT ![watches[v]] = c],
         NEW n \in Nat, seen' = [seen EXCEPT ![v] = n],
         NEW m \in BOOLEAN, missed' = [missed EXCEPT ![v] = m],
         NEW l \in {"idle"} \cup Attached, vpc' = [vpc EXCEPT ![v] = l],
         NEW w \in {watches[v], None}, watches' = [watches EXCEPT ![v] = w],
         l # "idle" => w = watches[v] /\ Follows(c, v, n, m),
         UNCHANGED <<pc, deploy>>
  PROVE  StreamInv'
<1> DEFINE b == log[watches[v]]
<1>1. b \in LogRecords
  BY DEF StreamInv
<1>2. /\ log' \in [Deployers -> LogRecords] /\ log'[watches[v]] = c
      /\ \A d \in Deployers : IsLogBuffer(log'[d])
  BY DEF StreamInv
<1>3. ASSUME NEW u \in Viewers, vpc'[u] \in Attached
      PROVE  Follows(log'[watches'[u]], u, seen'[u], missed'[u])
  <2>1. CASE u = v
    <3>1. /\ vpc'[v] = l /\ seen'[v] = n /\ missed'[v] = m
          /\ l # "idle" => watches'[v] = watches[v]
      BY DEF StreamInv
    <3> QED
      BY <1>2, <1>3, <2>1, <3>1 DEF Attached
  <2>2. CASE u # v
    <3>1. /\ vpc[u] \in Attached /\ watches'[u] = watches[u]
          /\ seen'[u] = seen[u] /\ missed'[u] = missed[u]
      BY <1>3, <2>2 DEF StreamInv
    <3>2. /\ watches[u] \in Deployers
          /\ seen[u] \in Nat /\ missed[u] \in BOOLEAN
          /\ Follows(log[watches[u]], u, seen[u], missed[u])
      BY <3>1 DEF StreamInv, Attached
    <3>3. CASE watches[u] = watches[v]
      <4>1. Follows(c, u, seen[u], missed[u])
        BY <1>1, <2>2, <3>2, <3>3, FollowOther
      <4> QED
        BY <1>2, <3>1, <3>3, <4>1
    <3>4. CASE watches[u] # watches[v]
      <4>1. log'[watches[u]] = log[watches[u]]
        BY <3>2, <3>4 DEF StreamInv
      <4> QED
        BY <3>1, <3>2, <4>1
    <3> QED
      BY <3>3, <3>4
  <2> QED
    BY <2>1, <2>2
<1>4. /\ seen' \in [Viewers -> Nat] /\ missed' \in [Viewers -> BOOLEAN]
      /\ vpc' \in [Viewers -> {"idle", "attach"} \cup Attached]
      /\ watches' \in [Viewers -> Deployers \cup {None}]
      /\ \A u \in Viewers : vpc'[u] # "idle" => watches'[u] \in Deployers
      /\ \A d \in Deployers : pc'[d] = "acquire" =>
           deploy' # d /\ \A u \in Viewers : watches'[u] # d
  BY DeployAssumption DEF StreamInv, Attached
<1> QED
  BY <1>2, <1>3, <1>4 DEF StreamInv

LEMMA StreamStep == StreamInv /\ [Next]_vars => StreamInv'
<1> SUFFICES ASSUME StreamInv, [Next]_vars PROVE StreamInv'
  OBVIOUS
<1> DEFINE Kept == /\ pc' \in [Deployers -> PCs]
                   /\ \A e \in Deployers :
                        pc'[e] = "acquire" => pc[e] = "acquire"
<1>0. pc \in [Deployers -> PCs]
  BY DEF StreamInv
<1>1. ASSUME NEW d \in Deployers, Request(d) PROVE StreamInv'
  BY <1>1 DEF Request, StreamInv, At, Goto, PCs, slot, viewer
<1>2. ASSUME NEW d \in Deployers, Handler(d) PROVE StreamInv'
  <2>1. CASE Refused(d)
    <3>1. Kept
      BY <1>0, <2>1 DEF Refused, Goto, PCs
    <3> QED
      BY <2>1, <3>1, StreamFrame DEF Refused, slot
  <2>2. CASE StartDeploy(d)
    <3>1. \A v \in Viewers : watches[v] # d
      BY <2>2 DEF StartDeploy, At, StreamInv
    <3>2. /\ log' = [log EXCEPT ![d] = NewLogBuffer]
          /\ pc' = [pc EXCEPT ![d] = "import"]
          /\ pc[d] = "acquire" /\ deploy' = d
          /\ UNCHANGED <<vpc, watches, seen, missed>>
      BY <2>2 DEF StartDeploy, At, Goto, viewer
    <3>3. /\ log' \in [Deployers -> LogRecords]
          /\ \A e \in Deployers : IsLogBuffer(log'[e])
          /\ \A v \in Viewers : vpc[v] \in Attached =>
               log'[watches[v]] = log[watches[v]]
      BY <3>1, <3>2, NewBuffer DEF StreamInv, Attached
    <3>4. /\ pc' \in [Deployers -> PCs]
          /\ \A e \in Deployers : pc'[e] = "acquire" =>
               deploy' # e /\ \A v \in Viewers : watches'[v] # e
      BY <3>2 DEF StreamInv, PCs
    <3> QED
      BY <3>2, <3>3, <3>4 DEF StreamInv
  <2>3. CASE Imported(d) \/ Skip(d) \/ BeginPull(d) \/ PullFailed(d)
               \/ Pulled(d) \/ StartApp(d) \/ Prune(d) \/ Complete(d)
    <3>1. Kept
      BY <1>0, <2>3 DEF Imported, Skip, BeginPull, PullFailed, Pulled,
           StartApp, Prune, Complete, NextApp, Goto, PCs, Running
    <3>2. Say(d) /\ UNCHANGED deploy
      BY <2>3 DEF Imported, Skip, BeginPull, PullFailed, Pulled, StartApp,
           Prune, Complete, slot
    <3> QED
      BY <3>1, <3>2, StreamSay
  <2>4. CASE SendProgress(d)
    BY <1>0, <2>4, StreamFrame DEF SendProgress, slot
  <2>5. CASE ClosePull(d)
    <3>1. Kept
      BY <1>0, <2>5 DEF ClosePull, Goto, PCs, Running
    <3> QED
      BY <2>5, <3>1, StreamFrame DEF ClosePull, slot
  <2>6. CASE FinishRead(d)
    <3>1. Kept
      BY <1>0, <2>6 DEF FinishRead, Goto, PCs
    <3> QED
      BY <2>6, <3>1, StreamFrame DEF FinishRead, slot
  <2>7. CASE FinishClose(d)
    <3>1. Kept
      BY <1>0, <2>7 DEF FinishClose, Goto, PCs
    <3> QED
      BY <2>7, <3>1, StreamFrame DEF FinishClose
  <2> QED
    BY <1>2, <2>1, <2>2, <2>3, <2>4, <2>5, <2>6, <2>7 DEF Handler
<1>3. ASSUME NEW d \in Deployers, Relay(d) PROVE StreamInv'
  <2>1. CASE RelayLine(d)
    BY <1>0, <2>1, StreamSay DEF RelayLine, slot
  <2>2. CASE RelayEnds(d)
    BY <1>0, <2>2, StreamFrame DEF RelayEnds, slot
  <2> QED
    BY <1>3, <2>1, <2>2 DEF Relay
<1>4. ASSUME NEW v \in Viewers, CurrentDeploy(v) PROVE StreamInv'
  BY <1>4 DEF CurrentDeploy, StreamInv, Attached, slot
<1>5. ASSUME NEW v \in Viewers, Subscribe(v) PROVE StreamInv'
  <2> DEFINE b == log[watches[v]]
             c == SubscribeWithHistory(b, v)
  <2>1. /\ watches[v] \in Deployers /\ b \in LogRecords /\ IsLogBuffer(b)
        /\ watches' = [watches EXCEPT ![v] = watches[v]]
    BY <1>5 DEF Subscribe, StreamInv, Attached
  <2>2. c \in LogRecords /\ IsLogBuffer(c) /\ Follows(c, v, Newest(b), FALSE)
    BY <2>1, SubscribeFields, SubscribeKeeps, FollowSubscribe
  <2>3. Newest(b) \in Nat
    BY <2>1, NewestWritten DEF LogRecords
  <2>4. /\ log' = [log EXCEPT ![watches[v]] = c]
        /\ seen' = [seen EXCEPT ![v] = Newest(b)]
        /\ missed' = [missed EXCEPT ![v] = FALSE]
        /\ vpc' = [vpc EXCEPT ![v] = "history"]
        /\ UNCHANGED <<pc, deploy>>
    BY <1>5 DEF Subscribe, SetLog, slot
  <2> HIDE DEF c
  <2> QED
    BY <2>1, <2>2, <2>3, <2>4, StreamOwn DEF Attached, c
<1>6. ASSUME NEW v \in Viewers, SendHistory(v) \/ GoLive(v) \/ SayDone(v)
      PROVE  StreamInv'
  BY <1>6 DEF SendHistory, GoLive, SayDone, TellDone, StreamInv, Attached, slot
<1>7. ASSUME NEW v \in Viewers, Receive(v) PROVE StreamInv'
  <2> DEFINE b == log[watches[v]]
             c == Received(b, v)
  <2>1. /\ watches[v] \in Deployers /\ b \in LogRecords /\ IsLogBuffer(b)
        /\ b.chan[v] # <<>> /\ seen[v] \in Nat /\ missed[v] \in BOOLEAN
        /\ Follows(b, v, seen[v], missed[v])
        /\ watches' = [watches EXCEPT ![v] = watches[v]]
        /\ missed' = [missed EXCEPT ![v] = missed[v]]
        /\ vpc' = [vpc EXCEPT ![v] = "live"]
    BY <1>7 DEF Receive, StreamInv, Attached
  <2>2. /\ c \in LogRecords /\ IsLogBuffer(c) /\ Head(b.chan[v]) \in Nat
        /\ Follows(c, v, Head(b.chan[v]), missed[v])
    BY <2>1, ReceivedFields, ReceivedKeeps, FollowReceived
  <2>3. /\ log' = [log EXCEPT ![watches[v]] = c]
        /\ seen' = [seen EXCEPT ![v] = Head(b.chan[v])]
        /\ UNCHANGED <<pc, deploy>>
    BY <1>7 DEF Receive, SetLog, slot
  <2> HIDE DEF c
  <2> QED
    BY <2>1, <2>2, <2>3, StreamOwn DEF Attached, c
<1>8. ASSUME NEW v \in Viewers, Return(v) \/ Disconnect(v) PROVE StreamInv'
  <2> DEFINE c == Unsubscribe(log[watches[v]], v)
  <2>1. /\ watches[v] \in Deployers /\ log[watches[v]] \in LogRecords
        /\ IsLogBuffer(log[watches[v]])
    BY <1>8 DEF Return, Disconnect, StreamInv, Attached
  <2>2. c \in LogRecords /\ IsLogBuffer(c)
    BY <2>1, UnsubscribeFields, SubscribeKeeps
  <2>3. /\ log' = [log EXCEPT ![watches[v]] = c]
        /\ vpc' = [vpc EXCEPT ![v] = "idle"]
        /\ watches' = [watches EXCEPT ![v] = None]
        /\ seen' = [seen EXCEPT ![v] = 0]
        /\ missed' = [missed EXCEPT ![v] = FALSE]
        /\ UNCHANGED <<pc, deploy>>
    BY <1>8 DEF Return, Disconnect, StreamEnds, SetLog, slot
  <2> HIDE DEF c
  <2> QED
    BY <2>1, <2>2, <2>3, StreamOwn DEF c
<1>9. CASE UNCHANGED vars
  BY <1>0, <1>9, StreamFrame DEF vars, slot
<1> QED
  BY <1>1, <1>2, <1>3, <1>4, <1>5, <1>6, <1>7, <1>8, <1>9 DEF Next, Stream

(* Until its channel has been full, a browser has been sent a run of lines *)
(* without a gap, and its channel holds all that follow, up to and with    *)
(* the moment it is told the end; these, SubCap at most, are never sent    *)
(* (logs.go:22-37, 59-71, portability.go:140-171).                         *)
THEOREM Contiguous == Spec => []NoGap
<1>1. StreamInv => NoGap
  <2> SUFFICES ASSUME StreamInv, NEW v \in Viewers,
                      vpc[v] \in Attached, ~missed[v]
               PROVE  LET b == log[watches[v]]
                      IN /\ b.chan[v] = [i \in 1 .. b.written - seen[v]
                                           |-> seen[v] + i]
                         /\ b.written <= seen[v] + SubCap
    BY DEF NoGap, Attached
  <2> DEFINE b == log[watches[v]]
             k == b.written - seen[v]
  <2>1. /\ watches[v] \in Deployers /\ seen[v] \in Nat
        /\ Follows(b, v, seen[v], missed[v]) /\ IsLogBuffer(b)
    BY DEF StreamInv, Attached
  <2>2. /\ b.chan[v] = Run(seen[v], k) /\ Len(b.chan[v]) <= SubCap
        /\ k \in Nat /\ b.written \in Nat
    BY <2>1 DEF Follows, IsLogBuffer
  <2> HIDE DEF k
  <2>3. k <= SubCap
    BY <2>1, <2>2, RunIsSeq
  <2> QED
    BY <2>1, <2>2, <2>3, LogBufferAssumption DEF k, Run
<1> QED
  BY <1>1, StreamInit, StreamStep, PTL DEF Spec

(* Every variable keeps its type, and no channel exceeds its capacity,  *)
(* neither that of a pull nor that of a stream (logs.go:32-37).            *)
THEOREM TypeCorrect == Spec => []TypeOK
<1>1. SlotInv /\ RelayInv /\ QueueInv /\ StreamInv => TypeOK
  BY DEF SlotInv, SlotType, RelayInv, QueueInv, StreamInv, Attached, TypeOK
<1> QED
  BY <1>1, SlotInit, SlotStep, RelayInit, RelayStep, QueueInit, QueueStep,
     StreamInit, StreamStep, PTL DEF Spec
=============================================================================
