----------------------------- MODULE ServerProofs -----------------------------
(***************************************************************************)
(* Server.tla, for any number of apps, requests and processes: what the    *)
(* manager guarantees survives any number of crashes and boots, whatever   *)
(* rows a crash leaves behind.                                             *)
(***************************************************************************)
EXTENDS Server, ManagerProofs

(* Nothing is in memory while the server is down.                          *)
Nothing ==
  /\ mu = None
  /\ procs = [a \in Apps |-> None]
  /\ os = [p \in Procs |-> "free"]
  /\ sig = [p \in Procs |-> "none"]
  /\ stopping = [p \in Procs |-> FALSE]
  /\ watcher = [p \in Procs |-> "idle"]
  /\ op = [r \in Reqs |-> "none"]
  /\ pc = [r \in Reqs |-> "idle"]

PullAt(r) == pc[r] \in {"fetch", "settle"}

PullingMarked ==
  \A a \in Apps : status[a] = "pulling" => \E r \in Reqs : rapp[r] = a /\ PullAt(r)

ServerInv ==
  /\ BootTypeOK
  /\ CoreInv
  /\ phase = "down" => Nothing
  /\ phase # "down" => RunningBacked /\ PullingMarked

LEMMA NothingCore == ASSUME TypeOK, Nothing PROVE CoreInv
BY ManagerAssumption
   DEF TypeOK, Nothing, CoreInv, LockInv, SlotInv, LifeInv, TargetInv, Locking,
       Aiming, Exited

LEMMA BootInitInv == BootInit => ServerInv
<1> SUFFICES ASSUME BootInit PROVE ServerInv
  OBVIOUS
<1>1. TypeOK
  BY ManagerAssumption
     DEF BootInit, TypeOK, Statuses, Exited, Ops, PCs, Row, NoRow
<1>2. Nothing
  BY DEF BootInit, Nothing
<1> QED
  BY <1>1, <1>2, NothingCore DEF BootInit, ServerInv, BootTypeOK

(* A step that marks no row as pulling and leaves those who pull.          *)
LEMMA PullFrame ==
  ASSUME PullingMarked,
         \A a \in Apps : status'[a] = "pulling" => status[a] = "pulling",
         \A r \in Reqs : PullAt(r) => PullAt(r)' /\ rapp'[r] = rapp[r]
  PROVE  PullingMarked'
BY DEF PullingMarked

LEMMA PullSteps ==
  ASSUME TypeOK, PullingMarked, NEW r \in Reqs, PullStep(r)
  PROVE  PullingMarked'
<1> USE ManagerAssumption DEF TypeOK, PCs, PullAt, At, Goto, Finish, Continue
<1>1. CASE Admit(r)
  BY <1>1, PullFrame DEF Admit, store
<1>2. CASE Announce(r)
  <2>1. PullAt(r)' /\ rapp' = rapp
    BY <1>2 DEF Announce
  <2>2. \A a \in Apps : a # rapp[r] => status'[a] = status[a]
    BY <1>2 DEF Announce, UpdateStatus
  <2>3. \A q \in Reqs : PullAt(q) => PullAt(q)'
    BY <1>2 DEF Announce
  <2> QED
    BY <2>1, <2>2, <2>3 DEF PullingMarked
<1>3. CASE FetchFails(r) \/ Settle(r)
  <2>1. /\ status'[rapp[r]] # "pulling"
        /\ \A a \in Apps : a # rapp[r] => status'[a] = status[a]
    BY <1>3 DEF FetchFails, Settle, UpdateStatus
  <2>2. rapp' = rapp /\ \A q \in Reqs : q # r => pc'[q] = pc[q]
    BY <1>3 DEF FetchFails, Settle
  <2> QED
    BY <2>1, <2>2 DEF PullingMarked
<1>4. CASE Fetched(r)
  BY <1>4, PullFrame DEF Fetched
<1>5. CASE DeployPrune(r)
  BY <1>5, PullFrame DEF DeployPrune
<1> QED
  BY <1>1, <1>2, <1>3, <1>4, <1>5 DEF PullStep

LEMMA PullHandlers ==
  ASSUME TypeOK, PullingMarked, NEW r \in Reqs, Handler(r)
  PROVE  PullingMarked'
<1> USE ManagerAssumption
    DEF TypeOK, PCs, PullAt, At, Goto, Finish, Continue, store
<1>1. CASE Lookup(r) \/ Find(r) \/ Mark(r) \/ Signal(r) \/ Await(r) \/ Timeout(r)
  BY <1>1, PullFrame DEF Lookup, Find, Mark, Signal, Await, Timeout
<1>2. CASE Stopped(r)
  BY <1>2, PullFrame DEF Stopped, UpdateStatus
<1>3. CASE RefuseRunning(r) \/ RefuseRow(r) \/ Admitted(r)
  BY <1>3, PullFrame DEF RefuseRunning, RefuseRow, Admitted
<1>4. CASE \E p \in Procs : Launch(r, p)
  BY <1>4, PullFrame DEF Launch
<1>5. CASE LaunchFails(r) \/ Running(r)
  BY <1>5, PullFrame DEF LaunchFails, Running, UpdateStatus
<1>6. CASE DeleteRow(r)
  BY <1>6, PullFrame DEF DeleteRow
<1> QED
  BY <1>1, <1>2, <1>3, <1>4, <1>5, <1>6 DEF Handler, StopStep, StartStep

LEMMA PullingStep ==
  ASSUME TypeOK, LockInv, PullingMarked, [Next]_vars
  PROVE  PullingMarked'
<1>1. ASSUME NEW a \in Apps, Create(a) PROVE PullingMarked'
  BY <1>1, PullFrame DEF TypeOK, Create, req, PullAt
<1>2. ASSUME NEW r \in Reqs, NEW o \in Asked, NEW a \in Apps, NewRequest(r, o, a)
      PROVE  PullingMarked'
  BY <1>2, PullFrame DEF TypeOK, LockInv, NewRequest, PullAt, store
<1>3. ASSUME NEW p \in Procs, Exit(p) \/ ExitDeaf(p) \/ Obey(p) \/ Kill(p)
      PROVE  PullingMarked'
  BY <1>3, PullFrame DEF Exit, ExitDeaf, Obey, Kill, Dies, PullAt, store, req
<1>4. ASSUME NEW p \in Procs, Watcher(p) \/ Pruner(p)
      PROVE  PullingMarked'
  BY <1>4, PullFrame
     DEF TypeOK, Watcher, Pruner, WatchWait, WatchDelete, WatchCheck, WatchReport,
         WatchEnd, PruneCheck, PruneWrite, UpdateStatus, PullAt, store, req
<1>5. CASE UNCHANGED vars
  BY <1>5, PullFrame DEF vars, PullAt, store, req
<1> QED
  BY <1>1, <1>2, <1>3, <1>4, <1>5, PullHandlers, PullSteps DEF Next

LEMMA ServeStep ==
  ASSUME ServerInv, phase # "down", [Next]_vars, UNCHANGED boot
  PROVE  ServerInv'
<1>1. TypeOK' /\ CoreInv' /\ RunningBacked'
  BY TypeStep, CoreStep, BackedStep DEF ServerInv, BootTypeOK, IInv
<1>2. PullingMarked'
  BY PullingStep DEF ServerInv, BootTypeOK, CoreInv
<1> QED
  BY <1>1, <1>2 DEF ServerInv, BootTypeOK, boot

LEMMA BootStep == ASSUME ServerInv, Boot PROVE ServerInv'
<1>1. \A a \in Apps : status'[a] \notin {"running", "pulling"}
  BY DEF ServerInv, BootTypeOK, TypeOK, Boot, Reset
<1>2. TypeOK'
  BY DEF ServerInv, BootTypeOK, TypeOK, Boot, Reset, Statuses, proc, req
<1>3. Nothing'
  BY DEF ServerInv, Nothing, Boot, proc, req
<1>4. CoreInv'
  BY <1>2, <1>3, NothingCore, PTL
<1> QED
  BY <1>1, <1>2, <1>4
     DEF ServerInv, BootTypeOK, RunningBacked, PullingMarked, Boot

LEMMA AutoStartStep ==
  ASSUME ServerInv, NEW a \in Apps, AutoStart(a)
  PROVE  ServerInv'
<1> USE ManagerAssumption, ServerAssumption
    DEF ServerInv, BootTypeOK, AutoStart, store, proc
<1>0. /\ pc[Main] = "idle" /\ pc' = [pc EXCEPT ![Main] = "start"]
      /\ \A q \in Reqs : q # Main => pc'[q] = pc[q] /\ rapp'[q] = rapp[q]
                                     /\ op'[q] = op[q]
      /\ pc'[Main] = "start" /\ op'[Main] = "start"
  BY DEF TypeOK, CoreInv, LockInv
<1>1. TypeOK'
  BY DEF TypeOK, PCs, Ops
<1>2. LockInv'
  BY <1>0 DEF CoreInv, LockInv, Locking, TypeOK
<1>3. SlotInv'
  BY <1>0 DEF CoreInv, SlotInv, LockInv, Locking, TypeOK
<1>4. LifeInv'
  BY DEF CoreInv, LifeInv
<1>5. TargetInv'
  BY <1>0 DEF CoreInv, TargetInv, Aiming
<1>6. RunningBacked'
  BY <1>0 DEF RunningBacked, Pending
<1>7. PullingMarked'
  BY <1>0, PullFrame DEF PullAt
<1> QED
  BY <1>1, <1>2, <1>3, <1>4, <1>5, <1>6, <1>7 DEF CoreInv

LEMMA CrashStep == ASSUME ServerInv, Crash PROVE ServerInv'
<1>1. TypeOK'
  BY ManagerAssumption
     DEF ServerInv, BootTypeOK, TypeOK, Crash, store, Exited, Ops, PCs, Row, NoRow
<1>2. Nothing'
  BY DEF Nothing, Crash
<1>3. CoreInv'
  BY <1>1, <1>2, NothingCore, PTL
<1> QED
  BY <1>1, <1>2, <1>3 DEF ServerInv, BootTypeOK, Crash

LEMMA ServerNextInv == ServerInv /\ [BootNext]_bvars => ServerInv'
<1> SUFFICES ASSUME ServerInv, [BootNext]_bvars PROVE ServerInv'
  OBVIOUS
<1>1. CASE Serve
  BY <1>1, ServeStep DEF Serve, Up
<1>2. CASE Boot
  BY <1>2, BootStep
<1>3. CASE ListAutoStart \/ Listen
  BY <1>3
     DEF ListAutoStart, Listen, ServerInv, BootTypeOK, TypeOK, CoreInv, LockInv,
         SlotInv, LifeInv, TargetInv, Locking, Aiming, RunningBacked, Pending,
         PullingMarked, PullAt, vars, store, proc, req
<1>4. ASSUME NEW a \in Apps, AutoStart(a) PROVE ServerInv'
  BY <1>4, AutoStartStep
<1>5. CASE Crash
  BY <1>5, CrashStep
<1>6. CASE UNCHANGED bvars
  BY <1>6
     DEF ServerInv, BootTypeOK, TypeOK, CoreInv, LockInv,
         SlotInv, LifeInv, TargetInv, Locking, Aiming, RunningBacked, Pending,
         PullingMarked, PullAt, Nothing, bvars, boot, vars, store, proc, req
<1> QED
  BY <1>1, <1>2, <1>3, <1>4, <1>5, <1>6 DEF BootNext, MainStep

THEOREM ServerInvariance == BootSpec => []ServerInv
BY BootInitInv, ServerNextInv, PTL DEF BootSpec

(* The types of Manager.tla, over crashes and boots.                       *)
THEOREM BootTypes == BootSpec => []BootTypeOK
<1>1. ServerInv => BootTypeOK
  BY DEF ServerInv
<1> QED
  BY <1>1, ServerInvariance, PTL

(* While the server is up, "running" and "pulling" are backed, whatever    *)
(* rows the last crash left (main.go:58, store/apps.go:207).               *)
THEOREM MarksStayBacked == BootSpec => []MarksBacked
<1>1. ServerInv => MarksBacked
  BY DEF ServerInv, MarksBacked, PullingMarked, PullAt
<1> QED
  BY <1>1, ServerInvariance, PTL

(* After a crash and a boot, too, no process is out of reach               *)
(* (manager.go:121).                                                       *)
THEOREM TrackedOverCrashes == BootSpec => []EveryInstanceTracked
<1>1. ServerInv => EveryInstanceTracked
  BY DEF ServerInv, BootTypeOK, TypeOK, CoreInv, LifeInv, EveryInstanceTracked,
         Exited
<1> QED
  BY <1>1, ServerInvariance, PTL
=============================================================================
