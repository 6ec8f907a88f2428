-------------------------------- MODULE Deploy --------------------------------
(***************************************************************************)
(* The sequential deploy: the slot of internal/runtime/manager.go, the     *)
(* handlers and the goroutine of internal/api/portability.go, and the      *)
(* progress stream they feed.  A deploy, its DeployState and its log are   *)
(* named after the request that started it.  What it does to the row and   *)
(* the process of an app is the "deploy" request of Manager.tla.           *)
(***************************************************************************)
EXTENDS LogBuffer

CONSTANTS
  Deployers,  \* requests; one is used again once its log is forgotten
  None,
  Queue,      \* apps in an export file
  Messages,   \* progress messages of a pull
  ChCap       \* capacity of the channel they go through (128)

ASSUME DeployAssumption ==
  /\ None \notin Deployers
  /\ Queue \in Nat /\ Messages \in Nat /\ ChCap \in Nat \ {0}

VARIABLES
  deploy,   \* Manager.deploy
  done,     \* DeployState.Done is closed
  log,      \* DeployState.Log
  pc,       \* where a request, and the goroutine it starts, is
  found,    \* the DeployState FinishDeploy has read
  todo,     \* apps still to deploy
  left,     \* progress messages registry.Pull and Extract have still to send
  pullCh,   \* messages in the channel of the current pull
  relay,    \* the goroutine that copies them into the log
  vpc,      \* where a progress stream is
  watches,  \* the deploy it shows
  seen,     \* the last line it sent to the browser, its history included
  missed    \* a line was written while its channel was full

slot   == <<deploy, done>>
pull   == <<left, pullCh, relay>>
viewer == <<vpc, watches, seen, missed>>
vars   == <<slot, log, pc, found, todo, pull, viewer>>

Running == {"next", "pull", "join", "pulled", "start", "prune"}
PCs == {"idle", "acquire", "import", "finish", "close"} \cup Running

TypeOK ==
  /\ deploy \in Deployers \cup {None}
  /\ done \in [Deployers -> BOOLEAN]
  /\ \A d \in Deployers : IsLogBuffer(log[d])
  /\ pc \in [Deployers -> PCs]
  /\ found \in [Deployers -> Deployers \cup {None}]
  /\ todo \in [Deployers -> 0 .. Queue]
  /\ left \in [Deployers -> 0 .. Messages]
  /\ pullCh \in [Deployers -> 0 .. ChCap]
  /\ relay \in [Deployers -> {"none", "open", "closed", "ended"}]
  /\ vpc \in [Viewers -> {"idle", "attach", "history", "check", "live",
                          "told"}]
  /\ watches \in [Viewers -> Deployers \cup {None}]
  /\ seen \in [Viewers -> Nat]
  /\ missed \in [Viewers -> BOOLEAN]

At(d, l) == pc[d] = l

Goto(d, l) == pc' = [pc EXCEPT ![d] = l]

(* One line stands for those that are written in one go.                   *)
Say(d) ==
  /\ log' = [log EXCEPT ![d] = Write(@)]
  /\ missed' = [v \in Viewers |-> missed[v] \/ Full(log[d], v)]
  /\ UNCHANGED <<vpc, watches, seen>>

-----------------------------------------------------------------------------
(* postSequentialDeploy.                                                   *)

Request(d) ==
  /\ At(d, "idle")
  /\ deploy # d /\ \A v \in Viewers : watches[v] # d
  /\ Goto(d, "acquire")
  /\ UNCHANGED <<slot, log, found, todo, pull, viewer>>

\* Mutant: StartDeploy does not look whether the last deploy has finished.
NeverBusy == FALSE

Busy == deploy # None /\ ~done[deploy]

Refused(d) ==
  /\ At(d, "acquire") /\ Busy
  /\ Goto(d, "idle")
  /\ UNCHANGED <<slot, log, found, todo, pull, viewer>>

StartDeploy(d) ==
  /\ At(d, "acquire") /\ ~Busy
  /\ deploy' = d
  /\ done' = [done EXCEPT ![d] = FALSE]
  /\ log' = [log EXCEPT ![d] = NewLogBuffer]
  /\ Goto(d, "import")
  /\ UNCHANGED <<found, todo, pull, viewer>>

(* ImportParsed keeps its errors in the result, and the branch that ends   *)
(* the deploy on one is never taken.                                       *)
Imported(d) ==
  /\ At(d, "import")
  /\ Say(d)
  /\ todo' = [todo EXCEPT ![d] = Queue]
  /\ Goto(d, "next")
  /\ UNCHANGED <<slot, found, pull>>

-----------------------------------------------------------------------------
(* runSequentialDeploy.                                                    *)

NextApp(d) ==
  /\ todo' = [todo EXCEPT ![d] = @ - 1]
  /\ Goto(d, "next")

Skip(d) ==
  /\ At(d, "next") /\ todo[d] > 0
  /\ Say(d)
  /\ NextApp(d)
  /\ UNCHANGED <<slot, found, pull>>

BeginPull(d) ==
  /\ At(d, "next") /\ todo[d] > 0
  /\ Say(d)
  /\ left' = [left EXCEPT ![d] = Messages]
  /\ pullCh' = [pullCh EXCEPT ![d] = 0]
  /\ relay' = [relay EXCEPT ![d] = "open"]
  /\ Goto(d, "pull")
  /\ UNCHANGED <<slot, found, todo>>

SendProgress(d) ==
  /\ At(d, "pull") /\ left[d] > 0
  /\ left' = [left EXCEPT ![d] = @ - 1]
  /\ pullCh' = [pullCh EXCEPT ![d] = IF @ < ChCap THEN @ + 1 ELSE @]
  /\ UNCHANGED <<slot, log, pc, found, todo, relay, viewer>>

(* Pull and Extract have returned, with an error (at any point) or without;*)
(* either way the channel is closed and the relay waited for.              *)
ClosePull(d) ==
  /\ At(d, "pull")
  /\ \E l \in IF left[d] = 0 THEN {"join", "pulled"} ELSE {"join"} : Goto(d, l)
  /\ left' = [left EXCEPT ![d] = 0]
  /\ relay' = [relay EXCEPT ![d] = "closed"]
  /\ UNCHANGED <<slot, log, found, todo, pullCh, viewer>>

RelayLine(d) ==
  /\ relay[d] \in {"open", "closed"} /\ pullCh[d] > 0
  /\ pullCh' = [pullCh EXCEPT ![d] = @ - 1]
  /\ Say(d)
  /\ UNCHANGED <<slot, pc, found, todo, left, relay>>

RelayEnds(d) ==
  /\ relay[d] = "closed" /\ pullCh[d] = 0
  /\ relay' = [relay EXCEPT ![d] = "ended"]
  /\ UNCHANGED <<slot, log, pc, found, todo, left, pullCh, viewer>>

\* Mutant: <-pullRelayed is missing.
NotJoined(d) == TRUE

Relayed(d) == relay[d] = "ended"

PullFailed(d) ==
  /\ At(d, "join") /\ Relayed(d)
  /\ Say(d)
  /\ NextApp(d)
  /\ UNCHANGED <<slot, found, pull>>

Pulled(d) ==
  /\ At(d, "pulled") /\ Relayed(d)
  /\ Say(d)
  /\ Goto(d, "start")
  /\ UNCHANGED <<slot, found, todo, pull>>

(* A Start that fails, or a process that has exited 5 s later, is told and *)
(* the deploy goes on.                                                     *)
StartApp(d) ==
  /\ At(d, "start")
  /\ Say(d)
  /\ Goto(d, "prune")
  /\ UNCHANGED <<slot, found, todo, pull>>

Prune(d) ==
  /\ At(d, "prune")
  /\ Say(d)
  /\ NextApp(d)
  /\ UNCHANGED <<slot, found, pull>>

\* Mutant: the goroutine ends without FinishDeploy.
CompleteForgets(d) ==
  /\ At(d, "next") /\ todo[d] = 0
  /\ Say(d)
  /\ Goto(d, "idle")
  /\ UNCHANGED <<slot, found, todo, pull>>

Complete(d) ==
  /\ At(d, "next") /\ todo[d] = 0
  /\ Say(d)
  /\ Goto(d, "finish")
  /\ UNCHANGED <<slot, found, todo, pull>>

(* FinishDeploy reads Manager.deploy under the mutex and closes its Done   *)
(* after it.                                                               *)
FinishRead(d) ==
  /\ At(d, "finish")
  /\ found' = [found EXCEPT ![d] = deploy]
  /\ Goto(d, "close")
  /\ UNCHANGED <<slot, log, todo, pull, viewer>>

FinishClose(d) ==
  /\ At(d, "close")
  /\ done' = [done EXCEPT ![found[d]] = TRUE]
  /\ found' = [found EXCEPT ![d] = None]
  /\ Goto(d, "idle")
  /\ UNCHANGED <<deploy, log, todo, pull, viewer>>

-----------------------------------------------------------------------------
(* getDeployStream.                                                        *)

CurrentDeploy(v) ==
  /\ vpc[v] = "idle" /\ deploy # None
  /\ watches' = [watches EXCEPT ![v] = deploy]
  /\ vpc' = [vpc EXCEPT ![v] = "attach"]
  /\ UNCHANGED <<slot, log, pc, found, todo, pull, seen, missed>>

SetLog(v, b) == log' = [log EXCEPT ![watches[v]] = b]

\* Mutant: the history is copied first and the lock taken again to subscribe.
SubscribeLater(v) ==
  /\ vpc[v] = "attach"
  /\ SetLog(v, SubscribeWithHistory(log[watches[v]], v))
  /\ \E n \in 0 .. log[watches[v]].written : seen' = [seen EXCEPT ![v] = n]
  /\ missed' = [missed EXCEPT ![v] = FALSE]
  /\ vpc' = [vpc EXCEPT ![v] = "history"]
  /\ UNCHANGED <<slot, pc, found, todo, pull, watches>>

Subscribe(v) ==
  /\ vpc[v] = "attach"
  /\ SetLog(v, SubscribeWithHistory(log[watches[v]], v))
  /\ seen' = [seen EXCEPT ![v] = Newest(log[watches[v]])]
  /\ missed' = [missed EXCEPT ![v] = FALSE]
  /\ vpc' = [vpc EXCEPT ![v] = "history"]
  /\ UNCHANGED <<slot, pc, found, todo, pull, watches>>

SendHistory(v) ==
  /\ vpc[v] = "history"
  /\ vpc' = [vpc EXCEPT ![v] = "check"]
  /\ UNCHANGED <<slot, log, pc, found, todo, pull, watches, seen, missed>>

(* The deploy was over already, or it was not and the stream waits.        *)
GoLive(v) ==
  /\ vpc[v] = "check" /\ ~done[watches[v]]
  /\ vpc' = [vpc EXCEPT ![v] = "live"]
  /\ UNCHANGED <<slot, log, pc, found, todo, pull, watches, seen, missed>>

Receive(v) ==
  /\ vpc[v] = "live"
  /\ log[watches[v]].chan[v] # <<>>
  /\ seen' = [seen EXCEPT ![v] = Head(log[watches[v]].chan[v])]
  /\ SetLog(v, Received(log[watches[v]], v))
  /\ UNCHANGED <<slot, pc, found, todo, pull, vpc, watches, missed>>

StreamEnds(v) ==
  /\ SetLog(v, Unsubscribe(log[watches[v]], v))
  /\ vpc' = [vpc EXCEPT ![v] = "idle"]
  /\ watches' = [watches EXCEPT ![v] = None]
  /\ seen' = [seen EXCEPT ![v] = 0]
  /\ missed' = [missed EXCEPT ![v] = FALSE]
  /\ UNCHANGED <<slot, pc, found, todo, pull>>

TellDone(v) ==
  /\ done[watches[v]]
  /\ vpc' = [vpc EXCEPT ![v] = "told"]
  /\ UNCHANGED <<slot, log, pc, found, todo, pull, watches, seen, missed>>

\* Mutant: the select of the loop does not listen to Done.
SayDoneAtOnce(v) == vpc[v] = "check" /\ TellDone(v)

(* "event: done", in the check or in the loop, whose select takes either   *)
(* case when a line is waiting too.                                        *)
SayDone(v) == vpc[v] \in {"check", "live"} /\ TellDone(v)

(* The deferred Unsubscribe: what is in the channel is never sent.         *)
Return(v) == vpc[v] = "told" /\ StreamEnds(v)

Disconnect(v) == vpc[v] = "live" /\ StreamEnds(v)

-----------------------------------------------------------------------------
Init ==
  /\ deploy = None
  /\ done = [d \in Deployers |-> FALSE]
  /\ log = [d \in Deployers |-> NewLogBuffer]
  /\ pc = [d \in Deployers |-> "idle"]
  /\ found = [d \in Deployers |-> None]
  /\ todo = [d \in Deployers |-> 0]
  /\ left = [d \in Deployers |-> 0]
  /\ pullCh = [d \in Deployers |-> 0]
  /\ relay = [d \in Deployers |-> "none"]
  /\ vpc = [v \in Viewers |-> "idle"]
  /\ watches = [v \in Viewers |-> None]
  /\ seen = [v \in Viewers |-> 0]
  /\ missed = [v \in Viewers |-> FALSE]

Handler(d) ==
  \/ Refused(d) \/ StartDeploy(d) \/ Imported(d)
  \/ Skip(d) \/ BeginPull(d) \/ SendProgress(d) \/ ClosePull(d)
  \/ PullFailed(d) \/ Pulled(d) \/ StartApp(d) \/ Prune(d) \/ Complete(d)
  \/ FinishRead(d) \/ FinishClose(d)

Relay(d) == RelayLine(d) \/ RelayEnds(d)

Stream(v) ==
  \/ Subscribe(v) \/ SendHistory(v) \/ GoLive(v) \/ Receive(v)
  \/ SayDone(v) \/ Return(v)

Next ==
  \/ \E d \in Deployers : Request(d) \/ Handler(d) \/ Relay(d)
  \/ \E v \in Viewers : CurrentDeploy(v) \/ Stream(v) \/ Disconnect(v)

Spec == Init /\ [][Next]_vars

(* Goroutines run; a pull ends within its 30 min and a start within its    *)
(* stops and sleeps.  Nobody need ask for a deploy, nor look at one.       *)
Fairness ==
  /\ \A d \in Deployers : WF_vars(Handler(d)) /\ WF_vars(Relay(d))
  /\ \A v \in Viewers : WF_vars(Stream(v))

FairSpec == Spec /\ Fairness

-----------------------------------------------------------------------------
Holds(d) == pc[d] \in {"import", "finish", "close"} \cup Running

(* At most one deploy is under way, from StartDeploy to the close of its   *)
(* Done (manager.go:67-97), whatever requests come in between: two of them *)
(* would pull two images at a time onto a disk that has room for one.      *)
OneDeploy ==
  \A d, e \in Deployers : Holds(d) /\ Holds(e) => d = e

(* FinishDeploy looks Manager.deploy up again: it finds its own deploy,    *)
(* open, so it neither ends another one nor closes a channel twice.        *)
FinishesOwn ==
  \A d \in Deployers : pc[d] = "close" => found[d] = d /\ ~done[d]

(* The lines of a pull come before the verdict on it, and none comes after *)
(* the end of the deploy: the relay has been waited for                    *)
(* (portability.go:229, 239, 248).                                         *)
LinesInOrder ==
  [][\A d \in Deployers :
       RelayLine(d) => pc[d] \in {"pull", "join", "pulled"}]_vars

(* Until its stream has fallen behind by a full channel (logs.go:32-37),   *)
(* what a browser has been sent is every line from its history on, in      *)
(* order and once, up to the one in seen, and its channel holds all that   *)
(* follow: "so no lines are missed between the snapshot and the            *)
(* subscription" (portability.go:140-141).  It is so too when it has been  *)
(* told "done" (portability.go:151-171), which may come with lines in the  *)
(* channel: these are never sent, the last SubCap of the log at most.      *)
NoGap ==
  \A v \in Viewers :
    vpc[v] \in {"history", "check", "live", "told"} /\ ~missed[v] =>
      LET b == log[watches[v]]
      IN /\ b.chan[v] = [i \in 1 .. b.written - seen[v] |-> seen[v] + i]
         /\ b.written <= seen[v] + SubCap

(* Every deploy frees the slot in the end, however its pulls and starts    *)
(* fail; otherwise no deploy could be started until the next boot.         *)
SlotFreed == \A d \in Deployers : deploy = d ~> done[d]

(* A browser that stays is told the end, even when the deploy ended        *)
(* between its subscription and its wait.                                  *)
StreamsEnd == \A v \in Viewers : vpc[v] # "idle" ~> vpc[v] = "idle"
=============================================================================
