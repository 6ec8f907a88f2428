------------------------------- MODULE Manager -------------------------------
(***************************************************************************)
(* The app supervisor: internal/runtime/manager.go and process.go, driven  *)
(* by the handlers of internal/api and by the sequential deploy.  One      *)
(* request goroutine per element of Reqs, one record per launched process  *)
(* with its watcher and pruner goroutines, the manager mutex, and the rows *)
(* of the apps table they all write without it.                            *)
(***************************************************************************)
CONSTANTS
  Apps,           \* app IDs
  Reqs,           \* goroutines that serve a request or run a deploy
  Procs,          \* Process records; one is reused once nothing refers to it
  None,           \* the nil pointer; an unlocked mutex
  ChrootEnabled,  \* chroot(2) is available (sysattr_linux.go)
  Deaf,           \* the apps whose program ignores SIGTERM and SIGINT
  Asked           \* the kinds of request that clients make

Ops == {"start", "stop", "restart", "delete", "pull", "pullall", "deploy"}

ASSUME ManagerAssumption ==
  /\ None \notin Procs /\ None \notin Reqs
  /\ ChrootEnabled \in BOOLEAN
  /\ Deaf \subseteq Apps
  /\ Asked \subseteq Ops

VARIABLES
  status,    \* apps.status of a row, "absent" when there is no row
  rootfs,    \* apps.rootfs_path # ""
  mu,        \* the request that holds Manager.mu inside Start, or None
  procs,     \* Manager.procs: the process of an app, or None
  papp,      \* the app a process was launched for
  os,        \* the operating system's view of the process
  sig,       \* the strongest signal it was sent while alive
  stopping,  \* Process.stopping
  chroot,    \* it was launched in chroot mode
  watcher,   \* the goroutine that waits for the process
  pruner,    \* the goroutine that prunes the rootfs 3 s after the start
  op, pc,    \* what a request does and where it is
  rapp,      \* the app it is about
  target,    \* the Process its Stop has found
  got        \* the row its Start has read

store == <<status, rootfs>>
proc  == <<papp, os, sig, stopping, chroot>>
req   == <<op, pc, rapp, target, got>>
vars  == <<store, mu, procs, proc, watcher, pruner, req>>

Statuses == {"stopped", "pulling", "running", "crashed", "error", "absent"}
PCs      == {"idle", "lookup", "find", "mark", "signal", "wait", "stopped",
             "start", "launch", "running", "delrow", "admit", "announce",
             "fetch", "settle", "prune"}
Row      == [rootfs : BOOLEAN, prune : BOOLEAN]
NoRow    == [rootfs |-> FALSE, prune |-> FALSE]
Exited   == {"exitOk", "exitErr"}

TypeOK ==
  /\ status \in [Apps -> Statuses]
  /\ rootfs \in [Apps -> BOOLEAN]
  /\ \A a \in Apps : status[a] = "absent" => ~rootfs[a]
  /\ mu \in Reqs \cup {None}
  /\ procs \in [Apps -> Procs \cup {None}]
  /\ papp \in [Procs -> Apps]
  /\ os \in [Procs -> {"free", "alive"} \cup Exited]
  /\ sig \in [Procs -> {"none", "term", "kill"}]
  /\ stopping \in [Procs -> BOOLEAN]
  /\ chroot \in [Procs -> BOOLEAN]
  /\ watcher \in [Procs -> {"idle", "wait", "delete", "check", "report"}]
  /\ pruner \in [Procs -> {"idle", "sleep", "prune"}]
  /\ op \in [Reqs -> Ops \cup {"none"}]
  /\ pc \in [Reqs -> PCs]
  /\ rapp \in [Reqs -> Apps]
  /\ target \in [Reqs -> Procs \cup {None}]
  /\ got \in [Reqs -> Row]

-----------------------------------------------------------------------------
(* The store.  An UPDATE of a row that is not there changes nothing.       *)

UpdateStatus(a, s) ==
  status' = [status EXCEPT ![a] = IF @ = "absent" THEN @ ELSE s]

UpdateRootfsPath(a, set) ==
  rootfs' = [rootfs EXCEPT ![a] = set /\ status[a] # "absent"]

(* A row appears: the new-app form, or an import of an exported ID.        *)
Create(a) ==
  /\ status[a] = "absent"
  /\ status' = [status EXCEPT ![a] = "stopped"]
  /\ rootfs' = [rootfs EXCEPT ![a] = FALSE]
  /\ UNCHANGED <<mu, procs, proc, watcher, pruner, req>>

-----------------------------------------------------------------------------
(* Requests.  Goto moves a request; Finish ends it.                        *)

At(r, l) == pc[r] = l

Goto(r, l) ==
  /\ pc' = [pc EXCEPT ![r] = l]
  /\ UNCHANGED <<op, rapp, target, got>>

Finish(r) ==
  /\ op' = [op EXCEPT ![r] = "none"]
  /\ pc' = [pc EXCEPT ![r] = "idle"]
  /\ target' = [target EXCEPT ![r] = None]
  /\ got' = [got EXCEPT ![r] = NoRow]
  /\ UNCHANGED rapp

Entry(o) ==
  CASE o = "start" -> "start"
    [] o = "stop" -> "find"
    [] o \in {"restart", "delete"} -> "lookup"
    [] o \in {"pull", "pullall"} -> "admit"
    [] o = "deploy" -> "announce"

(* Start, Stop and Restart take any ID; the other handlers read the row    *)
(* first.  One deploy at a time (StartDeploy).                             *)
NewRequest(r, o, a) ==
  /\ op[r] = "none"
  /\ o \in {"delete", "pull", "pullall", "deploy"} => status[a] # "absent"
  /\ o = "deploy" => \A q \in Reqs : op[q] # "deploy"
  /\ op' = [op EXCEPT ![r] = o]
  /\ pc' = [pc EXCEPT ![r] = Entry(o)]
  /\ rapp' = [rapp EXCEPT ![r] = a]
  /\ UNCHANGED <<store, mu, procs, proc, watcher, pruner, target, got>>

(* Where a request goes on when Stop returned, when Stop returned an       *)
(* error, and when Start returned.                                         *)
AfterStop(r) ==
  CASE op[r] = "stop" -> "idle"
    [] op[r] = "delete" -> "delrow"
    [] OTHER -> "start"

AfterStopError(r) ==
  CASE op[r] = "delete" -> "delrow"
    [] op[r] = "deploy" -> "start"
    [] OTHER -> "idle"

AfterStart(r) == IF op[r] = "deploy" THEN "prune" ELSE "idle"

Continue(r, l) == IF l = "idle" THEN Finish(r) ELSE Goto(r, l)

(* IsRunning, in Restart, deleteApp and runSequentialDeploy.               *)
Lookup(r) ==
  /\ At(r, "lookup") /\ mu = None
  /\ Goto(r, IF procs[rapp[r]] # None THEN "find"
             ELSE IF op[r] = "delete" THEN "delrow" ELSE "start")
  /\ UNCHANGED <<store, mu, procs, proc, watcher, pruner>>

-----------------------------------------------------------------------------
(* Stop.                                                                   *)

Find(r) ==
  /\ At(r, "find") /\ mu = None
  /\ IF procs[rapp[r]] = None
     THEN Continue(r, AfterStopError(r))
     ELSE /\ target' = [target EXCEPT ![r] = procs[rapp[r]]]
          /\ pc' = [pc EXCEPT ![r] = "mark"]
          /\ UNCHANGED <<op, rapp, got>>
  /\ UNCHANGED <<store, mu, procs, proc, watcher, pruner>>

\* Mutant: stop signals without marking.
MarkNothing(r) ==
  /\ At(r, "mark")
  /\ Goto(r, "signal")
  /\ UNCHANGED <<store, mu, procs, proc, watcher, pruner>>

(* markStopping.  The mark of a record whose watcher has ended is read by  *)
(* nobody, and is left out.                                                *)
Mark(r) ==
  /\ At(r, "mark")
  /\ stopping' = [stopping EXCEPT ![target[r]] = os[target[r]] # "free"]
  /\ Goto(r, "signal")
  /\ UNCHANGED <<store, mu, procs, papp, os, sig, chroot, watcher, pruner>>

(* SIGTERM to the group, SIGINT to the leader, cancel: nothing happens to  *)
(* a process that is already dead.                                         *)
Signal(r) ==
  /\ At(r, "signal")
  /\ sig' = [sig EXCEPT ![target[r]] =
               IF os[target[r]] = "alive" /\ @ = "none" THEN "term" ELSE @]
  /\ Goto(r, "wait")
  /\ UNCHANGED <<store, mu, procs, papp, os, stopping, chroot, watcher,
                 pruner>>

Done(p) == watcher[p] # "wait"

(* The select of Stop: <-proc.done, or the 10 s timer.                     *)
Await(r) ==
  /\ At(r, "wait")
  /\ Done(target[r])
  /\ Goto(r, "stopped")
  /\ UNCHANGED <<store, mu, procs, proc, watcher, pruner>>

Timeout(r) ==
  /\ At(r, "wait")
  /\ ~Done(target[r])
  /\ Goto(r, "stopped")
  /\ UNCHANGED <<store, mu, procs, proc, watcher, pruner>>

Stopped(r) ==
  /\ At(r, "stopped")
  /\ UpdateStatus(rapp[r], "stopped")
  /\ IF AfterStop(r) = "idle"
     THEN Finish(r)
     ELSE /\ pc' = [pc EXCEPT ![r] = AfterStop(r)]
          /\ target' = [target EXCEPT ![r] = None]
          /\ UNCHANGED <<op, rapp, got>>
  /\ UNCHANGED <<rootfs, mu, procs, proc, watcher, pruner>>

-----------------------------------------------------------------------------
(* Start: the mutex is held from the check of procs to the return.  The    *)
(* prune_after_start flag, which a form may edit at any time, is read as   *)
(* either value.                                                           *)

\* Mutant: Start does not look into procs.
SlotIgnored(r) == FALSE

SlotTaken(r) == procs[rapp[r]] # None

\* Mutant: Start returns with the mutex locked.
KeepLock == UNCHANGED mu

Unlock == mu' = None

\* Mutant: the mutex covers the look into procs, not the launch.
LockNothing(r) == UNCHANGED mu

Lock(r) == mu' = r

RefuseRunning(r) ==
  /\ At(r, "start") /\ mu = None
  /\ SlotTaken(r)
  /\ Continue(r, AfterStart(r))
  /\ UNCHANGED <<store, mu, procs, proc, watcher, pruner>>

RefuseRow(r) ==
  /\ At(r, "start") /\ mu = None
  /\ ~SlotTaken(r)
  /\ status[rapp[r]] \in {"absent", "pulling"}
  /\ Continue(r, AfterStart(r))
  /\ UNCHANGED <<store, mu, procs, proc, watcher, pruner>>

Admitted(r) ==
  /\ At(r, "start") /\ mu = None
  /\ ~SlotTaken(r)
  /\ status[rapp[r]] \notin {"absent", "pulling"}
  /\ Lock(r)
  /\ \E b \in {FALSE, rootfs[rapp[r]]} :
       got' = [got EXCEPT ![r] = [rootfs |-> rootfs[rapp[r]], prune |-> b]]
  /\ pc' = [pc EXCEPT ![r] = "launch"]
  /\ UNCHANGED <<store, procs, proc, watcher, pruner, op, rapp, target>>

(* A Process record that no goroutine refers to any more.                  *)
Fresh(p) ==
  /\ os[p] = "free" /\ pruner[p] = "idle"
  /\ \A r \in Reqs : target[r] # p

Launch(r, p) ==
  /\ At(r, "launch") /\ Fresh(p)
  /\ procs' = [procs EXCEPT ![rapp[r]] = p]
  /\ papp' = [papp EXCEPT ![p] = rapp[r]]
  /\ os' = [os EXCEPT ![p] = "alive"]
  /\ chroot' = [chroot EXCEPT ![p] = got[r].rootfs /\ ChrootEnabled]
  /\ Goto(r, "running")
  /\ UNCHANGED <<store, mu, sig, stopping, watcher, pruner>>

LaunchFails(r) ==
  /\ At(r, "launch")
  /\ UpdateStatus(rapp[r], "error")
  /\ Unlock
  /\ got' = [got EXCEPT ![r] = NoRow]
  /\ op' = [op EXCEPT ![r] = IF AfterStart(r) = "idle" THEN "none" ELSE @]
  /\ pc' = [pc EXCEPT ![r] = AfterStart(r)]
  /\ UNCHANGED <<rootfs, procs, proc, watcher, pruner, rapp, target>>

(* UpdateStatus, then the watcher and the pruner are spawned; the deferred *)
(* Unlock.                                                                 *)
Running(r) ==
  /\ At(r, "running")
  /\ UpdateStatus(rapp[r], "running")
  /\ watcher' = [watcher EXCEPT ![procs[rapp[r]]] = "wait"]
  /\ pruner' = [pruner EXCEPT ![procs[rapp[r]]] =
                  IF got[r].prune /\ got[r].rootfs THEN "sleep" ELSE "idle"]
  /\ Unlock
  /\ got' = [got EXCEPT ![r] = NoRow]
  /\ op' = [op EXCEPT ![r] = IF AfterStart(r) = "idle" THEN "none" ELSE @]
  /\ pc' = [pc EXCEPT ![r] = AfterStart(r)]
  /\ UNCHANGED <<rootfs, procs, proc, rapp, target>>

-----------------------------------------------------------------------------
(* deleteApp after its Stop, pulls, and the deploy's own steps.            *)

\* Mutant: the row is marked deleted and keeps its rootfs_path.
SoftDeleteRow(r) ==
  /\ At(r, "delrow")
  /\ status' = [status EXCEPT ![rapp[r]] = "absent"]
  /\ Finish(r)
  /\ UNCHANGED <<rootfs, mu, procs, proc, watcher, pruner>>

DeleteRow(r) ==
  /\ At(r, "delrow")
  /\ status' = [status EXCEPT ![rapp[r]] = "absent"]
  /\ rootfs' = [rootfs EXCEPT ![rapp[r]] = FALSE]
  /\ Finish(r)
  /\ UNCHANGED <<mu, procs, proc, watcher, pruner>>

(* postPullApp asks IsRunning; postPullAll goes by the status column.      *)
(* That both ask for a registered pull too is in ImagePull.tla: here two   *)
(* pulls of an app may always overlap.                                     *)
PullAdmitted(r) ==
  IF op[r] = "pull" THEN procs[rapp[r]] = None
  ELSE status[rapp[r]] \in {"stopped", "error", "crashed"}

Admit(r) ==
  /\ At(r, "admit")
  /\ op[r] = "pull" => mu = None
  /\ Continue(r, IF PullAdmitted(r) THEN "announce" ELSE "idle")
  /\ UNCHANGED <<store, mu, procs, proc, watcher, pruner>>

Announce(r) ==
  /\ At(r, "announce")
  /\ UpdateStatus(rapp[r], "pulling")
  /\ Goto(r, "fetch")
  /\ UNCHANGED <<rootfs, mu, procs, proc, watcher, pruner>>

FetchFails(r) ==
  /\ At(r, "fetch")
  /\ UpdateStatus(rapp[r], "error")
  /\ Finish(r)
  /\ UNCHANGED <<rootfs, mu, procs, proc, watcher, pruner>>

Fetched(r) ==
  /\ At(r, "fetch")
  /\ UpdateRootfsPath(rapp[r], TRUE)
  /\ Goto(r, "settle")
  /\ UNCHANGED <<status, mu, procs, proc, watcher, pruner>>

Settle(r) ==
  /\ At(r, "settle")
  /\ UpdateStatus(rapp[r], "stopped")
  /\ Continue(r, IF op[r] = "deploy" THEN "lookup" ELSE "idle")
  /\ UNCHANGED <<rootfs, mu, procs, proc, watcher, pruner>>

DeployPrune(r) ==
  /\ At(r, "prune")
  /\ UpdateRootfsPath(rapp[r], FALSE)
  /\ Finish(r)
  /\ UNCHANGED <<status, mu, procs, proc, watcher, pruner>>

-----------------------------------------------------------------------------
(* A process.  Exit is its own doing; Obey is the effect of a signal; Kill *)
(* is os/exec's reaction to the cancelled context, which only a process    *)
(* started with CommandContext has (in chroot mode the cancelled context   *)
(* sends SIGTERM once more, which changes nothing).                        *)

Dies(p) ==
  /\ os[p] = "alive"
  /\ \E how \in Exited : os' = [os EXCEPT ![p] = how]
  /\ UNCHANGED <<store, mu, procs, papp, sig, stopping, chroot, watcher,
                 pruner, req>>

Exit(p) == sig[p] = "none" /\ Dies(p)

Obey(p) ==
  /\ sig[p] = "kill" \/ (sig[p] = "term" /\ papp[p] \notin Deaf)
  /\ Dies(p)

\* Mutant: exec.Command, which knows no context.
KillNever(p) == FALSE

Kill(p) ==
  /\ os[p] = "alive" /\ sig[p] = "term" /\ ~chroot[p]
  /\ sig' = [sig EXCEPT ![p] = "kill"]
  /\ UNCHANGED <<store, mu, procs, papp, os, stopping, chroot, watcher,
                 pruner, req>>

(* A deaf program may still end by itself.                                 *)
ExitDeaf(p) == sig[p] = "term" /\ papp[p] \in Deaf /\ Dies(p)

-----------------------------------------------------------------------------
(* The watcher goroutine of Start.                                         *)

\* Mutant: Wait returns before the process has ended.
ReapedEarly(p) == TRUE

Reaped(p) == os[p] \in Exited

WatchWait(p) ==
  /\ watcher[p] = "wait" /\ Reaped(p)
  /\ watcher' = [watcher EXCEPT ![p] = "delete"]
  /\ UNCHANGED <<store, mu, procs, proc, pruner, req>>

\* Mutant: an intentional stop returns before the delete.
WatchDeleteCrashed(p) ==
  /\ watcher[p] = "delete" /\ mu = None
  /\ procs' = [procs EXCEPT ![papp[p]] = IF stopping[p] THEN p ELSE None]
  /\ watcher' = [watcher EXCEPT ![p] = "check"]
  /\ UNCHANGED <<store, mu, proc, pruner, req>>

WatchDelete(p) ==
  /\ watcher[p] = "delete" /\ mu = None
  /\ procs' = [procs EXCEPT ![papp[p]] = None]
  /\ watcher' = [watcher EXCEPT ![p] = "check"]
  /\ UNCHANGED <<store, mu, proc, pruner, req>>

(* The goroutine returns; the record is reset, nobody reads it again.      *)
WatchEnd(p) ==
  /\ watcher' = [watcher EXCEPT ![p] = "idle"]
  /\ os' = [os EXCEPT ![p] = "free"]
  /\ sig' = [sig EXCEPT ![p] = "none"]
  /\ stopping' = [stopping EXCEPT ![p] = FALSE]
  /\ chroot' = [chroot EXCEPT ![p] = FALSE]
  /\ UNCHANGED <<rootfs, mu, procs, papp, pruner, req>>

\* Mutant: every exit is taken for an intentional stop.
AlwaysStopping(p) == TRUE

IsStopping(p) == stopping[p]

WatchCheck(p) ==
  /\ watcher[p] = "check"
  /\ IF IsStopping(p)
     THEN WatchEnd(p) /\ UNCHANGED status
     ELSE /\ watcher' = [watcher EXCEPT ![p] = "report"]
          /\ UNCHANGED <<store, mu, procs, proc, pruner, req>>

WatchReport(p) ==
  /\ watcher[p] = "report"
  /\ UpdateStatus(papp[p], IF os[p] = "exitErr" THEN "crashed" ELSE "stopped")
  /\ WatchEnd(p)

-----------------------------------------------------------------------------
(* The pruner goroutine of Start: it asks for the app, not the process.    *)

PruneCheck(p) ==
  /\ pruner[p] = "sleep" /\ mu = None
  /\ pruner' = [pruner EXCEPT ![p] =
                  IF procs[papp[p]] # None THEN "prune" ELSE "idle"]
  /\ UNCHANGED <<store, mu, procs, proc, watcher, req>>

PruneWrite(p) ==
  /\ pruner[p] = "prune"
  /\ UpdateRootfsPath(papp[p], FALSE)
  /\ pruner' = [pruner EXCEPT ![p] = "idle"]
  /\ UNCHANGED <<status, mu, procs, proc, watcher, req>>

-----------------------------------------------------------------------------
(* The rows of earlier runs, after ResetRunningToStopped (main.go).        *)
Init ==
  /\ status \in [Apps -> Statuses \ {"running", "pulling"}]
  /\ rootfs \in [Apps -> BOOLEAN]
  /\ \A a \in Apps : status[a] = "absent" => ~rootfs[a]
  /\ mu = None
  /\ procs = [a \in Apps |-> None]
  /\ \E a \in Apps : papp = [p \in Procs |-> a] /\ rapp = [r \in Reqs |-> a]
  /\ os = [p \in Procs |-> "free"]
  /\ sig = [p \in Procs |-> "none"]
  /\ stopping = [p \in Procs |-> FALSE]
  /\ chroot = [p \in Procs |-> FALSE]
  /\ watcher = [p \in Procs |-> "idle"]
  /\ pruner = [p \in Procs |-> "idle"]
  /\ op = [r \in Reqs |-> "none"]
  /\ pc = [r \in Reqs |-> "idle"]
  /\ target = [r \in Reqs |-> None]
  /\ got = [r \in Reqs |-> NoRow]

StopStep(r) == Find(r) \/ Mark(r) \/ Signal(r) \/ Await(r) \/ Timeout(r)
                 \/ Stopped(r)

StartStep(r) == \/ RefuseRunning(r) \/ RefuseRow(r) \/ Admitted(r)
                \/ \E p \in Procs : Launch(r, p)
                \/ LaunchFails(r) \/ Running(r)

PullStep(r) == Admit(r) \/ Announce(r) \/ FetchFails(r) \/ Fetched(r)
                 \/ Settle(r) \/ DeployPrune(r)

Handler(r) == Lookup(r) \/ StopStep(r) \/ StartStep(r) \/ DeleteRow(r)

Watcher(p) == WatchWait(p) \/ WatchDelete(p) \/ WatchCheck(p) \/ WatchReport(p)

Pruner(p) == PruneCheck(p) \/ PruneWrite(p)

Next ==
  \/ \E a \in Apps : Create(a)
  \/ \E r \in Reqs, o \in Asked, a \in Apps : NewRequest(r, o, a)
  \/ \E r \in Reqs : Handler(r) \/ PullStep(r)
  \/ \E p \in Procs : Exit(p) \/ ExitDeaf(p) \/ Obey(p) \/ Kill(p)
  \/ \E p \in Procs : Watcher(p) \/ Pruner(p)

Spec == Init /\ [][Next]_vars

(* Go runs every goroutine that can run, and sync.Mutex hands itself to a  *)
(* waiter in starvation mode, hence SF for the handlers, which lock.  The  *)
(* kernel delivers signals.  Nothing makes a client ask, a download end or *)
(* a program exit by itself.                                               *)
Fairness ==
  /\ \A r \in Reqs : SF_vars(Handler(r))
  /\ \A p \in Procs : WF_vars(Watcher(p)) /\ WF_vars(Kill(p) \/ Obey(p))

FairSpec == Spec /\ Fairness

-----------------------------------------------------------------------------
(* Safety.                                                                 *)

(* A process that runs is in Manager.procs under its app, so Stop can      *)
(* reach it and Start refuses a second one: neither a late delete of an    *)
(* older watcher (manager.go:151) nor an early one loses it.               *)
EveryInstanceTracked ==
  \A p \in Procs : os[p] = "alive" => procs[papp[p]] = p

(* A process that Stop signalled while it ran is never reported crashed or *)
(* exited by its watcher: the stopping mark precedes the signal            *)
(* (process.go:470-477) and the watcher reads it after the exit.           *)
StopNotReportedAsCrash ==
  \A p \in Procs : watcher[p] = "report" => sig[p] = "none"

Pending(r) == pc[r] \in {"mark", "signal", "wait", "stopped"}

(* The status column says "running" only while somebody is bound to        *)
(* correct it: an unmarked process whose watcher will report its exit, a   *)
(* watcher about to report, or a Stop that has not written yet             *)
(* (manager.go:154-163, 206).  Otherwise the dashboard would show a dead   *)
(* app as running for ever.                                                *)
RunningBacked ==
  \A a \in Apps : status[a] = "running" =>
    \/ \E p \in Procs :
         /\ papp[p] = a
         /\ \/ ~stopping[p] /\ (procs[a] = p \/ watcher[p] = "check")
            \/ watcher[p] = "report"
    \/ \E r \in Reqs : rapp[r] = a /\ Pending(r)

-----------------------------------------------------------------------------
(* Liveness.                                                               *)

(* Start, Stop, Restart and Delete return, whatever the app does           *)
(* (manager.go:201-204 bounds the wait; nobody sleeps holding mu).         *)
RequestsFinish ==
  \A r \in Reqs :
    op[r] \in {"start", "stop", "restart", "delete"} ~> op[r] = "none"

(* A status of "running" with no process behind it does not last.          *)
RunningCorrected ==
  \A a \in Apps : (status[a] = "running" /\ procs[a] = None)
                     ~> (status[a] # "running" \/ procs[a] # None)

(* A process that Stop signalled in rootfs-prefix mode ends, even one that *)
(* ignores the signals: the cancelled context kills it (process.go:82).    *)
ForceKilled ==
  \A p \in Procs : (os[p] = "alive" /\ sig[p] # "none" /\ ~chroot[p])
                      ~> os[p] # "alive"

(* The slots of Supervisor.tla: procs, and the processes that run.         *)
S == INSTANCE Supervisor WITH
       holder <- procs, alive <- {p \in Procs : os[p] = "alive"}

(* One process per app, its slot emptied only after its death ...          *)
OneInstance == S!SupSpec

(* ... and always emptied in the end.                                      *)
SlotReleased == S!Released

-----------------------------------------------------------------------------
(* What comments and messages of the code say and the code does not do.    *)

(* "Restart stops then starts the app" (manager.go:210): with no other     *)
(* request about, its Start is not refused as "already running".           *)
RestartNotRefused ==
  [][\A r \in Reqs : op[r] = "restart" => ~RefuseRunning(r)]_vars

(* "Stop ... waits up to 10 s, then force-kills via context"               *)
(* (manager.go:189): whatever the mode, a signalled process ends.          *)
StopForceKills ==
  \A p \in Procs : (os[p] = "alive" /\ sig[p] # "none") ~> os[p] # "alive"
=============================================================================
