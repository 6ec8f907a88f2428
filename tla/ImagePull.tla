------------------------------ MODULE ImagePull ------------------------------
(***************************************************************************)
(* Image pulls and their progress streams: postPullApp, postPullAll,       *)
(* runPull and getPullProgress of internal/api/apps.go, the pull channels  *)
(* of internal/runtime/manager.go, and the messages internal/registry      *)
(* sends.  What runs beside a pull is in Manager.tla; here an app is its   *)
(* status and its registered channel.  A channel is named after the puller *)
(* that made it.                                                           *)
(***************************************************************************)
EXTENDS Naturals

CONSTANTS
  Apps,      \* app IDs
  Pullers,   \* pull goroutines; one is reused once its channel is forgotten
  Viewers,   \* browsers that follow a pull
  None,
  Cap,       \* capacity of a pull channel (64)
  Messages   \* progress messages of a pull: 4 + 2 * its layers

ASSUME ImagePullAssumption ==
  /\ None \notin Pullers
  /\ Cap \in Nat \ {0} /\ Messages \in Nat

VARIABLES
  status,    \* apps.status, of which pulls write three values
  pulls,     \* Manager.pulls: the channel registered for an app, or None
  buffered,  \* messages in a channel
  closed,    \* the channel is closed
  pc, kapp,  \* where a puller is, and its app
  left,      \* progress messages it has still to send
  found,     \* the channel ClosePullChannel took out of the map
  watches,   \* the channel a viewer receives from, or None
  up         \* the server process runs

vars == <<status, pulls, buffered, closed, pc, kapp, left, found, watches, up>>

chans   == <<pulls, buffered, closed>>
pullers == <<pc, kapp, left, found>>

Sending == {"sendError", "sendAuto", "sendDone"}
PCs == {"idle", "check", "announce", "open", "progress", "errorStatus",
        "settle", "unregister", "close"} \cup Sending

TypeOK ==
  /\ status \in [Apps -> {"stopped", "pulling", "error"}]
  /\ pulls \in [Apps -> Pullers \cup {None}]
  /\ buffered \in [Pullers -> 0 .. Cap]
  /\ closed \in [Pullers -> BOOLEAN]
  /\ pc \in [Pullers -> PCs]
  /\ kapp \in [Pullers -> Apps]
  /\ left \in [Pullers -> 0 .. Messages]
  /\ found \in [Pullers -> Pullers \cup {None}]
  /\ watches \in [Viewers -> Pullers \cup {None}]
  /\ up \in BOOLEAN

At(k, l) == up /\ pc[k] = l

Goto(k, l) ==
  /\ pc' = [pc EXCEPT ![k] = l]
  /\ UNCHANGED <<kapp, left, found>>

SetStatus(k, s) == status' = [status EXCEPT ![kapp[k]] = s]

-----------------------------------------------------------------------------
(* The handlers: is a pull registered?  then mark the row and start the    *)
(* goroutine, which registers its channel.                                 *)

Request(k, a) ==
  /\ At(k, "idle")
  /\ \A v \in Viewers : watches[v] # k
  /\ \A b \in Apps : pulls[b] # k
  /\ \A j \in Pullers : found[j] # k
  /\ pc' = [pc EXCEPT ![k] = "check"]
  /\ kapp' = [kapp EXCEPT ![k] = a]
  /\ UNCHANGED <<status, chans, left, found, watches, up>>

Registered(a) == pulls[a] # None

Check(k) ==
  /\ At(k, "check")
  /\ Goto(k, IF Registered(kapp[k]) THEN "idle" ELSE "announce")
  /\ UNCHANGED <<status, chans, watches, up>>

Announce(k) ==
  /\ At(k, "announce")
  /\ SetStatus(k, "pulling")
  /\ Goto(k, "open")
  /\ UNCHANGED <<chans, watches, up>>

OpenPullChannel(k) ==
  /\ At(k, "open")
  /\ pulls' = [pulls EXCEPT ![kapp[k]] = k]
  /\ buffered' = [buffered EXCEPT ![k] = 0]
  /\ closed' = [closed EXCEPT ![k] = FALSE]
  /\ left' = [left EXCEPT ![k] = Messages]
  /\ pc' = [pc EXCEPT ![k] = "progress"]
  /\ UNCHANGED <<status, kapp, found, watches, up>>

-----------------------------------------------------------------------------
(* runPull.  A send on a closed channel panics, and a panic in a goroutine *)
(* ends the server.                                                        *)

Stop ==
  /\ up' = FALSE
  /\ pulls' = [a \in Apps |-> None]
  /\ buffered' = [k \in Pullers |-> 0]
  /\ closed' = [k \in Pullers |-> FALSE]
  /\ pc' = [k \in Pullers |-> "idle"]
  /\ left' = [k \in Pullers |-> 0]
  /\ found' = [k \in Pullers |-> None]
  /\ watches' = [v \in Viewers |-> None]
  /\ UNCHANGED <<status, kapp>>

Panic(k) ==
  /\ closed[k]
  /\ \/ At(k, "progress") /\ left[k] > 0
     \/ up /\ pc[k] \in Sending
  /\ Stop

\* Mutant: the default case is missing, and the buffer has no bound.
SendUnbounded(k) ==
  /\ At(k, "progress") /\ left[k] > 0 /\ ~closed[k]
  /\ left' = [left EXCEPT ![k] = @ - 1]
  /\ buffered' = [buffered EXCEPT ![k] = @ + 1]
  /\ UNCHANGED <<status, pulls, closed, pc, kapp, found, watches, up>>

(* sendProgress: dropped when the buffer is full.                          *)
SendProgress(k) ==
  /\ At(k, "progress") /\ left[k] > 0 /\ ~closed[k]
  /\ left' = [left EXCEPT ![k] = @ - 1]
  /\ buffered' = [buffered EXCEPT ![k] = IF @ < Cap THEN @ + 1 ELSE @]
  /\ UNCHANGED <<status, pulls, closed, pc, kapp, found, watches, up>>

(* Pull or Extract returns an error, at any point, by the 30 min timeout   *)
(* at the latest.                                                          *)
PullFails(k) ==
  /\ At(k, "progress")
  /\ left' = [left EXCEPT ![k] = 0]
  /\ pc' = [pc EXCEPT ![k] = "sendError"]
  /\ UNCHANGED <<status, chans, kapp, found, watches, up>>

(* Extracted.  Fields of the row are filled in from the image config, and  *)
(* told to the viewer, or there is nothing to fill in.                     *)
Pulled(k) ==
  /\ At(k, "progress") /\ left[k] = 0
  /\ \E l \in {"sendAuto", "settle"} : Goto(k, l)
  /\ UNCHANGED <<status, chans, watches, up>>

After(l) == CASE l = "sendError" -> "errorStatus"
              [] l = "sendAuto" -> "settle"
              [] l = "sendDone" -> "unregister"

Room(k) == buffered[k] < Cap

(* ch <- "...": waits for room.                                            *)
Send(k) ==
  /\ up /\ pc[k] \in Sending /\ ~closed[k] /\ Room(k)
  /\ buffered' = [buffered EXCEPT ![k] = @ + 1]
  /\ Goto(k, After(pc[k]))
  /\ UNCHANGED <<status, pulls, closed, watches, up>>

\* Mutant: an error path that returns without writing the status.
ErrorForgotten(k) ==
  /\ At(k, "errorStatus")
  /\ Goto(k, "unregister")
  /\ UNCHANGED <<status, chans, watches, up>>

ErrorStatus(k) ==
  /\ At(k, "errorStatus")
  /\ SetStatus(k, "error")
  /\ Goto(k, "unregister")
  /\ UNCHANGED <<chans, watches, up>>

Settle(k) ==
  /\ At(k, "settle")
  /\ SetStatus(k, "stopped")
  /\ Goto(k, "sendDone")
  /\ UNCHANGED <<chans, watches, up>>

-----------------------------------------------------------------------------
(* ClosePullChannel: takes whatever channel is registered out of the map   *)
(* under the mutex, closes it after.                                       *)

\* Mutant: the entry is left in the map.
UnregisterKept(k) ==
  /\ At(k, "unregister")
  /\ found' = [found EXCEPT ![k] = pulls[kapp[k]]]
  /\ pc' = [pc EXCEPT ![k] = IF Registered(kapp[k]) THEN "close" ELSE "idle"]
  /\ UNCHANGED <<status, chans, kapp, left, watches, up>>

Unregister(k) ==
  /\ At(k, "unregister")
  /\ found' = [found EXCEPT ![k] = pulls[kapp[k]]]
  /\ pulls' = [pulls EXCEPT ![kapp[k]] = None]
  /\ pc' = [pc EXCEPT ![k] = IF Registered(kapp[k]) THEN "close" ELSE "idle"]
  /\ UNCHANGED <<status, buffered, closed, kapp, left, watches, up>>

\* Mutant: the deferred close is missing.
CloseNothing(k) ==
  /\ At(k, "close")
  /\ found' = [found EXCEPT ![k] = None]
  /\ pc' = [pc EXCEPT ![k] = "idle"]
  /\ UNCHANGED <<status, chans, kapp, left, watches, up>>

Close(k) ==
  /\ At(k, "close")
  /\ closed' = [closed EXCEPT ![found[k]] = TRUE]
  /\ found' = [found EXCEPT ![k] = None]
  /\ pc' = [pc EXCEPT ![k] = "idle"]
  /\ UNCHANGED <<status, pulls, buffered, kapp, left, watches, up>>

-----------------------------------------------------------------------------
(* getPullProgress: finds the channel within 2 s or gives up, then takes   *)
(* messages (from the other viewers too: one channel serves them all)      *)
(* until it is closed and empty, or the browser goes away.                 *)

View(v, a) ==
  /\ up /\ watches[v] = None /\ pulls[a] # None
  /\ watches' = [watches EXCEPT ![v] = pulls[a]]
  /\ UNCHANGED <<status, chans, pullers, up>>

\* Mutant: a viewer takes the messages once the pull is over.
ReceiveLate(v) ==
  /\ watches[v] # None /\ buffered[watches[v]] > 0 /\ closed[watches[v]]
  /\ buffered' = [buffered EXCEPT ![watches[v]] = @ - 1]
  /\ UNCHANGED <<status, pulls, closed, pullers, watches, up>>

Receive(v) ==
  /\ watches[v] # None /\ buffered[watches[v]] > 0
  /\ buffered' = [buffered EXCEPT ![watches[v]] = @ - 1]
  /\ UNCHANGED <<status, pulls, closed, pullers, watches, up>>

StreamEnds(v) ==
  /\ watches[v] # None /\ closed[watches[v]] /\ buffered[watches[v]] = 0
  /\ watches' = [watches EXCEPT ![v] = None]
  /\ UNCHANGED <<status, chans, pullers, up>>

Disconnect(v) ==
  /\ watches[v] # None
  /\ watches' = [watches EXCEPT ![v] = None]
  /\ UNCHANGED <<status, chans, pullers, up>>

-----------------------------------------------------------------------------
(* The platform stops the server; the next boot resets the rows.           *)

Shutdown == up /\ Stop

\* Mutant: the reset knows only "running".
BootRunningOnly ==
  /\ ~up /\ up' = TRUE
  /\ UNCHANGED <<status, chans, pullers, watches>>

Boot ==
  /\ ~up /\ up' = TRUE
  /\ status' = [a \in Apps |-> IF status[a] = "pulling" THEN "stopped"
                                                        ELSE status[a]]
  /\ UNCHANGED <<chans, pullers, watches>>

Init ==
  /\ status \in [Apps -> {"stopped", "error"}]
  /\ pulls = [a \in Apps |-> None]
  /\ buffered = [k \in Pullers |-> 0]
  /\ closed = [k \in Pullers |-> FALSE]
  /\ pc = [k \in Pullers |-> "idle"]
  /\ \E a \in Apps : kapp = [k \in Pullers |-> a]
  /\ left = [k \in Pullers |-> 0]
  /\ found = [k \in Pullers |-> None]
  /\ watches = [v \in Viewers |-> None]
  /\ up = TRUE

Pull(k) ==
  \/ Check(k) \/ Announce(k) \/ OpenPullChannel(k)
  \/ SendProgress(k) \/ PullFails(k) \/ Pulled(k) \/ Panic(k)
  \/ Send(k) \/ ErrorStatus(k) \/ Settle(k) \/ Unregister(k) \/ Close(k)

Stream(v) == Receive(v) \/ StreamEnds(v)

Next ==
  \/ \E k \in Pullers, a \in Apps : Request(k, a)
  \/ \E k \in Pullers : Pull(k)
  \/ \E v \in Viewers, a \in Apps : View(v, a)
  \/ \E v \in Viewers : Stream(v) \/ Disconnect(v)
  \/ Shutdown \/ Boot

Spec == Init /\ [][Next]_vars

(* Goroutines run, and a download ends or times out.  No browser need      *)
(* come, stay or go; nothing needs to stop the server.                     *)
Fairness ==
  /\ \A k \in Pullers : WF_vars(Pull(k))
  /\ \A v \in Viewers : WF_vars(Stream(v))
  /\ WF_vars(Boot)

FairSpec == Spec /\ Fairness

-----------------------------------------------------------------------------
Pulling(k) == pc[k] \in {"open", "progress", "errorStatus", "settle",
                         "sendError", "sendAuto"}

(* A row says "pulling" only while a goroutine is bound to write its       *)
(* outcome (apps.go:168-209), through errors, a second pull of the same    *)
(* app and a restart of the server (store/apps.go:207): Start refuses such *)
(* an app, so a stale mark would lock it.                                  *)
PullingBacked ==
  up => \A a \in Apps : status[a] = "pulling"
                          => \E k \in Pullers : kapp[k] = a /\ Pulling(k)

(* The channel a new viewer finds is open (manager.go:259-269 unregisters  *)
(* before it closes): nobody is told "Pull complete" of a pull it could    *)
(* still find in progress.                                                 *)
RegisteredOpen == \A a \in Apps : pulls[a] # None => ~closed[pulls[a]]

(* No channel is closed twice, which would panic, however many pulls of    *)
(* the app end at the same time: each takes its channel from the map under *)
(* the mutex (manager.go:260-265).                                         *)
ClosedOnce ==
  /\ \A k \in Pullers : pc[k] = "close" => ~closed[found[k]]
  /\ \A j, k \in Pullers :
       pc[j] = "close" /\ pc[k] = "close" /\ found[j] = found[k] => j = k

(* No other pull of the app is between its mark and the close.             *)
Alone(k) ==
  \A j \in Pullers \ {k} :
    kapp[j] = kapp[k] => pc[j] \in {"idle", "check", "announce"}

(* "Pull complete." (apps.go:280) comes after the outcome is in the row,   *)
(* when no second pull of the app runs: the page it reloads shows it.      *)
CompleteMeansWritten ==
  [][\A k \in Pullers :
       ~closed[k] /\ closed'[k] /\ Alone(k) => status[kapp[k]] # "pulling"]_vars

(* A viewer that stays is told the end of the pull, when no second pull of *)
(* the app runs; so while one stays, the full channel holds up no pull for *)
(* ever, whatever other viewers do.                                        *)
ViewersEnd == \A v \in Viewers : watches[v] # None ~> watches[v] = None

-----------------------------------------------------------------------------
(* What comments and messages of the code say and the code does not do.    *)

(* "messages are dropped if the channel is full" (registry/pull.go:23): a  *)
(* pull ends whether or not anybody watches.                               *)
PullEnds == \A k \in Pullers : pc[k] # "idle" ~> pc[k] = "idle"
=============================================================================
