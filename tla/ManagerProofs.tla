---------------------------- MODULE ManagerProofs ----------------------------
(***************************************************************************)
(* Theorems about Manager.tla, for any number of apps, requests and        *)
(* processes: its inductive invariant, the safety properties that follow   *)
(* from it, and that Manager implements Supervisor.                        *)
(***************************************************************************)
EXTENDS Manager, TLAPS

Locking(r) == pc[r] \in {"launch", "running"}
Aiming(r)  == pc[r] \in {"mark", "signal", "wait", "stopped"}

(* The mutex is held from Admitted to Running or LaunchFails, and the slot *)
(* that Start saw empty stays empty until its own Launch fills it.         *)
LockInv ==
  \A r \in Reqs :
    /\ mu = r <=> Locking(r)
    /\ op[r] = "none" => pc[r] = "idle"
    /\ pc[r] = "launch" => procs[rapp[r]] = None
    /\ pc[r] = "running" => /\ procs[rapp[r]] \in Procs
                            /\ watcher[procs[rapp[r]]] = "idle"
                            /\ ~stopping[procs[rapp[r]]]

(* A filled slot holds a launched process of that app whose watcher has    *)
(* not deleted it; without a watcher only while its Start holds mu.        *)
SlotInv ==
  \A a \in Apps : procs[a] # None =>
    /\ papp[procs[a]] = a
    /\ os[procs[a]] # "free"
    /\ watcher[procs[a]] \in {"idle", "wait", "delete"}
    /\ watcher[procs[a]] = "idle" => mu # None /\ pc[mu] = "running"
                                               /\ rapp[mu] = a

(* The life of a process, and the mark that precedes its signals.          *)
LifeInv ==
  \A p \in Procs :
    /\ watcher[p] \in {"wait", "delete"} => procs[papp[p]] = p
    /\ os[p] \notin {"free"} /\ watcher[p] = "idle" => procs[papp[p]] = p
    /\ watcher[p] = "wait" => os[p] # "free"
    /\ watcher[p] \in {"delete", "check", "report"} => os[p] \in Exited
    /\ os[p] = "free" => ~stopping[p] /\ watcher[p] = "idle"
    /\ sig[p] # "none" => stopping[p] /\ os[p] # "free"
    /\ watcher[p] = "report" => sig[p] = "none"

(* What a Stop has found is a process of its app, which has a watcher or   *)
(* is gone, and is marked when the Stop is about to signal it.             *)
TargetInv ==
  \A r \in Reqs : Aiming(r) =>
    /\ target[r] \in Procs
    /\ papp[target[r]] = rapp[r]
    /\ watcher[target[r]] = "idle" => os[target[r]] = "free"
    /\ pc[r] = "signal" => stopping[target[r]] \/ os[target[r]] = "free"

CoreInv == LockInv /\ SlotInv /\ LifeInv /\ TargetInv

IInv == TypeOK /\ CoreInv /\ RunningBacked

-----------------------------------------------------------------------------
(* Types.  ReqOK is the part of TypeOK about requests.                     *)

ReqOK ==
  /\ op \in [Reqs -> Ops \cup {"none"}]
  /\ pc \in [Reqs -> PCs]
  /\ rapp \in [Reqs -> Apps]
  /\ target \in [Reqs -> Procs \cup {None}]
  /\ got \in [Reqs -> Row]

(* Moving, ending and continuing a request keep its types.                 *)
LEMMA GotoOK ==
  ASSUME ReqOK, NEW r \in Reqs, NEW l \in PCs, Goto(r, l)
  PROVE  ReqOK'
BY DEF ReqOK, Goto

LEMMA FinishOK ==
  ASSUME ReqOK, NEW r \in Reqs, Finish(r)
  PROVE  ReqOK'
BY DEF ReqOK, Finish, PCs, Row, NoRow

LEMMA ContinueOK ==
  ASSUME ReqOK, NEW r \in Reqs, NEW l \in PCs, Continue(r, l)
  PROVE  ReqOK'
BY GotoOK, FinishOK DEF Continue

(* A step keeps the types.                                                 *)
LEMMA TypeStep ==
  ASSUME TypeOK, [Next]_vars
  PROVE  TypeOK'
<1> USE ManagerAssumption
<1>1. ASSUME NEW a \in Apps, Create(a)
      PROVE  TypeOK'
  BY <1>1 DEF TypeOK, Statuses, Exited, Ops, PCs, Row, Create, proc, req
<1>2. ASSUME NEW r \in Reqs, NEW o \in Asked, NEW a \in Apps, NewRequest(r,o,a)
      PROVE  TypeOK'
  BY <1>2 DEF TypeOK, Statuses, Exited, Ops, PCs, Row, NewRequest, Entry,
     store, proc
<1>3. ASSUME NEW r \in Reqs, Lookup(r)
      PROVE  TypeOK'
  BY <1>3 DEF TypeOK, Statuses, Exited, Ops, PCs, Row, Lookup, At, Goto,
     store, proc
<1>4. ASSUME NEW r \in Reqs, Find(r)
      PROVE  TypeOK'
  <2>1. CASE procs[rapp[r]] = None
    <3>1. AfterStopError(r) \in PCs
      BY DEF AfterStopError, PCs
    <3>2. ReqOK'
      BY <1>4, <2>1, <3>1, ContinueOK DEF Find, TypeOK, ReqOK
    <3> QED
      BY <1>4, <3>2 DEF Find, TypeOK, ReqOK, store, proc
  <2>2. CASE procs[rapp[r]] # None
    BY <1>4, <2>2 DEF Find, TypeOK, PCs, store, proc
  <2> QED
    BY <2>1, <2>2
<1>5. ASSUME NEW r \in Reqs, Mark(r)
      PROVE  TypeOK'
  BY <1>5 DEF TypeOK, Statuses, Exited, Ops, PCs, Row, Mark, At, Goto, store
<1>6. ASSUME NEW r \in Reqs, Signal(r)
      PROVE  TypeOK'
  BY <1>6 DEF TypeOK, Statuses, Exited, Ops, PCs, Row, Signal, At, Goto,
     store
<1>7. ASSUME NEW r \in Reqs, Await(r)
      PROVE  TypeOK'
  BY <1>7 DEF TypeOK, Statuses, Exited, Ops, PCs, Row, Await, At, Done,
     Goto, store, proc
<1>8. ASSUME NEW r \in Reqs, Timeout(r)
      PROVE  TypeOK'
  BY <1>8 DEF TypeOK, Statuses, Exited, Ops, PCs, Row, Timeout, At, Done,
     Goto, store, proc
<1>9. ASSUME NEW r \in Reqs, Stopped(r)
      PROVE  TypeOK'
  <2>1. ReqOK'
    <3>1. CASE AfterStop(r) = "idle"
      BY <1>9, <3>1, FinishOK DEF Stopped, TypeOK, ReqOK
    <3>2. CASE AfterStop(r) # "idle"
      BY <1>9, <3>2 DEF Stopped, AfterStop, TypeOK, ReqOK, PCs
    <3> QED
      BY <3>1, <3>2
  <2> QED
    BY <1>9, <2>1
       DEF Stopped, UpdateStatus, TypeOK, ReqOK, Statuses, proc
<1>10. ASSUME NEW r \in Reqs, RefuseRunning(r)
      PROVE  TypeOK'
  <2>1. AfterStart(r) \in PCs
    BY DEF AfterStart, PCs
  <2>2. ReqOK'
    BY <1>10, <2>1, ContinueOK DEF RefuseRunning, TypeOK, ReqOK
  <2> QED
    BY <1>10, <2>2 DEF RefuseRunning, TypeOK, ReqOK, store, proc
<1>11. ASSUME NEW r \in Reqs, RefuseRow(r)
      PROVE  TypeOK'
  <2>1. AfterStart(r) \in PCs
    BY DEF AfterStart, PCs
  <2>2. ReqOK'
    BY <1>11, <2>1, ContinueOK DEF RefuseRow, TypeOK, ReqOK
  <2> QED
    BY <1>11, <2>2 DEF RefuseRow, TypeOK, ReqOK, store, proc
<1>12. ASSUME NEW r \in Reqs, Admitted(r)
      PROVE  TypeOK'
  <2>1. got' \in [Reqs -> Row]
    <3>1. PICK b \in {FALSE, rootfs[rapp[r]]} :
            got' = [got EXCEPT ![r] = [rootfs |-> rootfs[rapp[r]],
                                       prune |-> b]]
      BY <1>12 DEF Admitted
    <3>2. rootfs[rapp[r]] \in BOOLEAN
      BY DEF TypeOK
    <3>3. b \in BOOLEAN
      BY <3>2, Zenon
    <3>4. [rootfs |-> rootfs[rapp[r]], prune |-> b] \in Row
      BY <3>2, <3>3 DEF Row
    <3> QED
      BY <3>1, <3>4 DEF TypeOK
  <2>2. pc' \in [Reqs -> PCs]
    BY <1>12 DEF Admitted, Lock, TypeOK, PCs
  <2> QED
    BY <1>12, <2>1, <2>2 DEF Admitted, Lock, TypeOK, store, proc
<1>13. ASSUME NEW r \in Reqs, NEW p \in Procs, Launch(r,p)
      PROVE  TypeOK'
  BY <1>13 DEF TypeOK, Statuses, Exited, Ops, PCs, Row, Launch, At, Fresh,
     Goto, store
<1>14. ASSUME NEW r \in Reqs, LaunchFails(r)
      PROVE  TypeOK'
  BY <1>14 DEF TypeOK, Statuses, Exited, Ops, PCs, Row, LaunchFails, At,
     UpdateStatus, Unlock, NoRow, AfterStart, proc
<1>15. ASSUME NEW r \in Reqs, Running(r)
      PROVE  TypeOK'
  <2>1. got' \in [Reqs -> Row]
    BY <1>15 DEF Running, TypeOK, Row, NoRow
  <2>2. pc' \in [Reqs -> PCs] /\ op' \in [Reqs -> Ops \cup {"none"}]
    BY <1>15 DEF Running, AfterStart, TypeOK, PCs
  <2>3. watcher' \in [Procs -> {"idle", "wait", "delete", "check", "report"}]
    BY <1>15 DEF Running, TypeOK
  <2>4. pruner' \in [Procs -> {"idle", "sleep", "prune"}]
    BY <1>15 DEF Running, TypeOK
  <2>5. status' \in [Apps -> Statuses]
        /\ \A a \in Apps : status'[a] = "absent" => status[a] = "absent"
    BY <1>15 DEF Running, UpdateStatus, TypeOK, Statuses
  <2> QED
    BY <1>15, <2>1, <2>2, <2>3, <2>4, <2>5 DEF Running, Unlock, TypeOK, proc
<1>16. ASSUME NEW r \in Reqs, DeleteRow(r)
      PROVE  TypeOK'
  BY <1>16 DEF TypeOK, Statuses, Exited, Ops, PCs, Row, DeleteRow, At,
     Finish, NoRow, proc
<1>17. ASSUME NEW r \in Reqs, Admit(r)
      PROVE  TypeOK'
  <2>1. ReqOK'
    BY <1>17, ContinueOK DEF Admit, TypeOK, ReqOK, PCs
  <2> QED
    BY <1>17, <2>1 DEF Admit, TypeOK, ReqOK, store, proc
<1>18. ASSUME NEW r \in Reqs, Announce(r)
      PROVE  TypeOK'
  BY <1>18 DEF TypeOK, Statuses, Exited, Ops, PCs, Row, Announce, At,
     UpdateStatus, Goto, proc
<1>19. ASSUME NEW r \in Reqs, FetchFails(r)
      PROVE  TypeOK'
  BY <1>19 DEF TypeOK, Statuses, Exited, Ops, PCs, Row, FetchFails, At,
     UpdateStatus, Finish, NoRow, proc
<1>20. ASSUME NEW r \in Reqs, Fetched(r)
      PROVE  TypeOK'
  BY <1>20 DEF TypeOK, Statuses, Exited, Ops, PCs, Row, Fetched, At,
     UpdateRootfsPath, Goto, proc
<1>21. ASSUME NEW r \in Reqs, Settle(r)
      PROVE  TypeOK'
  <2>1. ReqOK'
    BY <1>21, ContinueOK DEF Settle, TypeOK, ReqOK, PCs
  <2> QED
    BY <1>21, <2>1
       DEF Settle, UpdateStatus, TypeOK, ReqOK, Statuses, proc
<1>22. ASSUME NEW r \in Reqs, DeployPrune(r)
      PROVE  TypeOK'
  BY <1>22 DEF TypeOK, Statuses, Exited, Ops, PCs, Row, DeployPrune, At,
     UpdateRootfsPath, Finish, NoRow, proc
<1>23. ASSUME NEW p \in Procs, Exit(p)
      PROVE  TypeOK'
  BY <1>23 DEF TypeOK, Statuses, Exited, Ops, PCs, Row, Exit, Dies, store,
     req
<1>24. ASSUME NEW p \in Procs, ExitDeaf(p)
      PROVE  TypeOK'
  BY <1>24 DEF TypeOK, Statuses, Exited, Ops, PCs, Row, ExitDeaf, Dies,
     store, req
<1>25. ASSUME NEW p \in Procs, Obey(p)
      PROVE  TypeOK'
  BY <1>25 DEF TypeOK, Statuses, Exited, Ops, PCs, Row, Obey, Dies, store,
     req
<1>26. ASSUME NEW p \in Procs, Kill(p)
      PROVE  TypeOK'
  BY <1>26 DEF TypeOK, Statuses, Exited, Ops, PCs, Row, Kill, store, req
<1>27. ASSUME NEW p \in Procs, WatchWait(p)
      PROVE  TypeOK'
  BY <1>27 DEF TypeOK, Statuses, Exited, Ops, PCs, Row, WatchWait, Reaped,
     store, proc, req
<1>28. ASSUME NEW p \in Procs, WatchDelete(p)
      PROVE  TypeOK'
  BY <1>28 DEF TypeOK, Statuses, Exited, Ops, PCs, Row, WatchDelete, store,
     proc, req
<1>29. ASSUME NEW p \in Procs, WatchCheck(p)
      PROVE  TypeOK'
  <2>1. CASE IsStopping(p)
    <3>1. /\ watcher' = [watcher EXCEPT ![p] = "idle"]
          /\ os' = [os EXCEPT ![p] = "free"]
          /\ sig' = [sig EXCEPT ![p] = "none"]
          /\ stopping' = [stopping EXCEPT ![p] = FALSE]
          /\ chroot' = [chroot EXCEPT ![p] = FALSE]
          /\ UNCHANGED <<status, rootfs, mu, procs, papp, pruner, req>>
      BY <1>29, <2>1 DEF WatchCheck, WatchEnd
    <3>2. /\ watcher'
               \in [Procs -> {"idle", "wait", "delete", "check", "report"}]
          /\ os' \in [Procs -> {"free", "alive"} \cup Exited]
          /\ sig' \in [Procs -> {"none", "term", "kill"}]
      BY <3>1 DEF TypeOK
    <3>3. stopping' \in [Procs -> BOOLEAN] /\ chroot' \in [Procs -> BOOLEAN]
      BY <3>1 DEF TypeOK
    <3> QED
      BY <3>1, <3>2, <3>3 DEF TypeOK, req
  <2>2. CASE ~IsStopping(p)
    BY <1>29, <2>2 DEF WatchCheck, TypeOK, store, proc, req
  <2> QED
    BY <1>29, <2>1, <2>2 DEF WatchCheck
<1>30. ASSUME NEW p \in Procs, WatchReport(p)
      PROVE  TypeOK'
  BY <1>30 DEF TypeOK, Statuses, Exited, Ops, PCs, Row, WatchReport,
     UpdateStatus, WatchEnd, req
<1>31. ASSUME NEW p \in Procs, PruneCheck(p)
      PROVE  TypeOK'
  BY <1>31 DEF TypeOK, Statuses, Exited, Ops, PCs, Row, PruneCheck, store,
     proc, req
<1>32. ASSUME NEW p \in Procs, PruneWrite(p)
      PROVE  TypeOK'
  BY <1>32 DEF TypeOK, Statuses, Exited, Ops, PCs, Row, PruneWrite,
     UpdateRootfsPath, proc, req
<1>33. CASE UNCHANGED vars
  BY <1>33 DEF TypeOK, Statuses, Exited, Ops, PCs, Row, vars, store, proc,
     req
<1> QED
  BY <1>1, <1>2, <1>3, <1>4, <1>5, <1>6, <1>7, <1>8, <1>9, <1>10, <1>11,
     <1>12, <1>13, <1>14, <1>15, <1>16, <1>17, <1>18, <1>19, <1>20, <1>21,
     <1>22, <1>23, <1>24, <1>25, <1>26, <1>27, <1>28, <1>29, <1>30, <1>31,
     <1>32, <1>33
     DEF Next, Handler, StopStep, StartStep, PullStep, Watcher, Pruner

-----------------------------------------------------------------------------
(* A step keeps the lock, the slots, the lives and the targets in order.   *)
LEMMA CoreStep ==
  ASSUME TypeOK, CoreInv, [Next]_vars
  PROVE  CoreInv'
<1> USE ManagerAssumption
<1>1. ASSUME NEW a \in Apps, Create(a)
      PROVE  CoreInv'
  BY <1>1 DEF TypeOK, Statuses, Exited, Ops, PCs, Row, CoreInv,
     LockInv, Locking, SlotInv, LifeInv, TargetInv, Aiming, Create, proc,
     req
<1>2. ASSUME NEW r \in Reqs, NEW o \in Asked, NEW a \in Apps, NewRequest(r,o,a)
      PROVE  CoreInv'
  BY <1>2 DEF TypeOK, Statuses, Exited, Ops, PCs, Row, CoreInv,
     LockInv, Locking, SlotInv, LifeInv, TargetInv, Aiming, NewRequest,
     Entry, store, proc
<1>3. ASSUME NEW r \in Reqs, Lookup(r)
      PROVE  CoreInv'
  BY <1>3 DEF TypeOK, Statuses, Exited, Ops, PCs, Row, CoreInv,
     LockInv, Locking, SlotInv, LifeInv, TargetInv, Aiming, Lookup, At,
     Goto, store, proc
<1>4. ASSUME NEW r \in Reqs, Find(r)
      PROVE  CoreInv'
  <2>1. CASE procs[rapp[r]] = None
    <3>1. CASE AfterStopError(r) = "idle"
      BY <1>4, <2>1, <3>1
         DEF Find, At, Continue, Finish, TypeOK, CoreInv, LockInv, SlotInv,
             LifeInv, TargetInv, Locking, Aiming, store, proc
    <3>2. CASE AfterStopError(r) # "idle"
      <4>1. AfterStopError(r) \in {"delrow", "start"}
        BY <3>2 DEF AfterStopError
      <4> QED
        BY <1>4, <2>1, <3>2, <4>1
           DEF Find, At, Continue, Goto, TypeOK, CoreInv, LockInv, SlotInv,
               LifeInv, TargetInv, Locking, Aiming, store, proc
    <3> QED
      BY <3>1, <3>2
  <2>2. CASE procs[rapp[r]] # None
    <3>1. watcher[procs[rapp[r]]] # "idle" /\ papp[procs[rapp[r]]] = rapp[r]
      BY <1>4, <2>2 DEF Find, TypeOK, CoreInv, SlotInv
    <3> QED
      BY <1>4, <2>2, <3>1
         DEF Find, At, TypeOK, CoreInv, LockInv, SlotInv, LifeInv, TargetInv,
             Locking, Aiming, store, proc
  <2> QED
    BY <2>1, <2>2
<1>5. ASSUME NEW r \in Reqs, Mark(r)
      PROVE  CoreInv'
  <2> DEFINE p == target[r]
  <2>1. p \in Procs /\ (watcher[p] = "idle" => os[p] = "free")
    BY <1>5 DEF Mark, At, CoreInv, TargetInv, Aiming
  <2>2. LockInv'
    BY <1>5, <2>1
       DEF Mark, At, Goto, TypeOK, CoreInv, LockInv, SlotInv, Locking, store
  <2>3. SlotInv' /\ LifeInv'
    BY <1>5, <2>1, ManagerAssumption
       DEF Mark, At, Goto, TypeOK, CoreInv, LockInv, SlotInv, LifeInv, Exited,
           Locking, store
  <2>4. TargetInv'
    <3> SUFFICES ASSUME NEW q \in Reqs, Aiming(q)'
                 PROVE  /\ target[q] \in Procs
                        /\ papp[target[q]] = rapp[q]
                        /\ watcher[target[q]] = "idle"
                             => os[target[q]] = "free"
                        /\ pc'[q] = "signal"
                             => stopping'[target[q]] \/ os[target[q]] = "free"
      BY <1>5 DEF Mark, Goto, TargetInv
    <3>1. Aiming(q)
      BY <1>5 DEF Mark, At, Goto, Aiming, TypeOK
    <3>2. CASE q = r
      BY <1>5, <2>1, <3>1, <3>2 DEF Mark, CoreInv, TargetInv, TypeOK
    <3>3. CASE q # r
      BY <1>5, <2>1, <3>1, <3>3
         DEF Mark, Goto, CoreInv, TargetInv, LifeInv, TypeOK
    <3> QED
      BY <3>2, <3>3
  <2> QED
    BY <2>2, <2>3, <2>4 DEF CoreInv
<1>6. ASSUME NEW r \in Reqs, Signal(r)
      PROVE  CoreInv'
  BY <1>6 DEF TypeOK, Statuses, Exited, Ops, PCs, Row, CoreInv,
     LockInv, Locking, SlotInv, LifeInv, TargetInv, Aiming, Signal, At,
     Goto, store
<1>7. ASSUME NEW r \in Reqs, Await(r)
      PROVE  CoreInv'
  BY <1>7 DEF TypeOK, Statuses, Exited, Ops, PCs, Row, CoreInv,
     LockInv, Locking, SlotInv, LifeInv, TargetInv, Aiming, Await, At, Done,
     Goto, store, proc
<1>8. ASSUME NEW r \in Reqs, Timeout(r)
      PROVE  CoreInv'
  BY <1>8 DEF TypeOK, Statuses, Exited, Ops, PCs, Row, CoreInv,
     LockInv, Locking, SlotInv, LifeInv, TargetInv, Aiming, Timeout, At,
     Done, Goto, store, proc
<1>9. ASSUME NEW r \in Reqs, Stopped(r)
      PROVE  CoreInv'
  <2>1. CASE AfterStop(r) = "idle"
    BY <1>9, <2>1
       DEF Stopped, Finish, At, TypeOK, CoreInv, LockInv, SlotInv, LifeInv,
           TargetInv, Locking, Aiming, proc
  <2>2. CASE AfterStop(r) # "idle"
    <3>1. AfterStop(r) \in {"delrow", "start"}
      BY <2>2 DEF AfterStop
    <3> QED
      BY <1>9, <2>2, <3>1
         DEF Stopped, At, TypeOK, CoreInv, LockInv, SlotInv, LifeInv,
             TargetInv, Locking, Aiming, proc
  <2> QED
    BY <2>1, <2>2
<1>10. ASSUME NEW r \in Reqs, RefuseRunning(r)
      PROVE  CoreInv'
  BY <1>10 DEF TypeOK, Statuses, Exited, Ops, PCs, Row, CoreInv,
     LockInv, Locking, SlotInv, LifeInv, TargetInv, Aiming, RefuseRunning,
     At, SlotTaken, Continue, Finish, NoRow, Goto, AfterStart, store, proc
<1>11. ASSUME NEW r \in Reqs, RefuseRow(r)
      PROVE  CoreInv'
  <2>1. CASE AfterStart(r) = "idle"
    BY <1>11, <2>1
       DEF RefuseRow, Continue, Finish, At, TypeOK, CoreInv, LockInv, SlotInv,
           LifeInv, TargetInv, Locking, Aiming, store, proc
  <2>2. CASE AfterStart(r) # "idle"
    <3>1. AfterStart(r) = "prune"
      BY <2>2 DEF AfterStart
    <3> QED
      BY <1>11, <2>2, <3>1
         DEF RefuseRow, Continue, Goto, At, TypeOK, CoreInv, LockInv, SlotInv,
             LifeInv, TargetInv, Locking, Aiming, store, proc
  <2> QED
    BY <2>1, <2>2
<1>12. ASSUME NEW r \in Reqs, Admitted(r)
      PROVE  CoreInv'
  BY <1>12 DEF TypeOK, Statuses, Exited, Ops, PCs, Row, CoreInv,
     Lock, LockInv, Locking, SlotInv, LifeInv, TargetInv, Aiming, Admitted, At,
     SlotTaken, store, proc
<1>13. ASSUME NEW r \in Reqs, NEW p \in Procs, Launch(r,p)
      PROVE  CoreInv'
  BY <1>13 DEF TypeOK, Statuses, Exited, Ops, PCs, Row, CoreInv,
     LockInv, Locking, SlotInv, LifeInv, TargetInv, Aiming, Launch, At,
     Fresh, Goto, store
<1>14. ASSUME NEW r \in Reqs, LaunchFails(r)
      PROVE  CoreInv'
  BY <1>14 DEF TypeOK, Statuses, Exited, Ops, PCs, Row, CoreInv,
     LockInv, Locking, SlotInv, LifeInv, TargetInv, Aiming, LaunchFails, At,
     UpdateStatus, Unlock, NoRow, AfterStart, proc
<1>15. ASSUME NEW r \in Reqs, Running(r)
      PROVE  CoreInv'
  BY <1>15 DEF TypeOK, Statuses, Exited, Ops, PCs, Row, CoreInv,
     LockInv, Locking, SlotInv, LifeInv, TargetInv, Aiming, Running, At,
     UpdateStatus, Unlock, NoRow, AfterStart, proc
<1>16. ASSUME NEW r \in Reqs, DeleteRow(r)
      PROVE  CoreInv'
  BY <1>16 DEF TypeOK, Statuses, Exited, Ops, PCs, Row, CoreInv,
     LockInv, Locking, SlotInv, LifeInv, TargetInv, Aiming, DeleteRow, At,
     Finish, NoRow, proc
<1>17. ASSUME NEW r \in Reqs, Admit(r)
      PROVE  CoreInv'
  BY <1>17 DEF TypeOK, Statuses, Exited, Ops, PCs, Row, CoreInv,
     LockInv, Locking, SlotInv, LifeInv, TargetInv, Aiming, Admit, At,
     Continue, Finish, NoRow, Goto, PullAdmitted, store, proc
<1>18. ASSUME NEW r \in Reqs, Announce(r)
      PROVE  CoreInv'
  BY <1>18 DEF TypeOK, Statuses, Exited, Ops, PCs, Row, CoreInv,
     LockInv, Locking, SlotInv, LifeInv, TargetInv, Aiming, Announce, At,
     UpdateStatus, Goto, proc
<1>19. ASSUME NEW r \in Reqs, FetchFails(r)
      PROVE  CoreInv'
  BY <1>19 DEF TypeOK, Statuses, Exited, Ops, PCs, Row, CoreInv,
     LockInv, Locking, SlotInv, LifeInv, TargetInv, Aiming, FetchFails, At,
     UpdateStatus, Finish, NoRow, proc
<1>20. ASSUME NEW r \in Reqs, Fetched(r)
      PROVE  CoreInv'
  BY <1>20 DEF TypeOK, Statuses, Exited, Ops, PCs, Row, CoreInv,
     LockInv, Locking, SlotInv, LifeInv, TargetInv, Aiming, Fetched, At,
     UpdateRootfsPath, Goto, proc
<1>21. ASSUME NEW r \in Reqs, Settle(r)
      PROVE  CoreInv'
  BY <1>21 DEF TypeOK, Statuses, Exited, Ops, PCs, Row, CoreInv,
     LockInv, Locking, SlotInv, LifeInv, TargetInv, Aiming, Settle, At,
     UpdateStatus, Continue, Finish, NoRow, Goto, proc
<1>22. ASSUME NEW r \in Reqs, DeployPrune(r)
      PROVE  CoreInv'
  BY <1>22 DEF TypeOK, Statuses, Exited, Ops, PCs, Row, CoreInv,
     LockInv, Locking, SlotInv, LifeInv, TargetInv, Aiming, DeployPrune, At,
     UpdateRootfsPath, Finish, NoRow, proc
<1>23. ASSUME NEW p \in Procs, Exit(p)
      PROVE  CoreInv'
  BY <1>23 DEF TypeOK, Statuses, Exited, Ops, PCs, Row, CoreInv,
     LockInv, Locking, SlotInv, LifeInv, TargetInv, Aiming, Exit, Dies,
     store, req
<1>24. ASSUME NEW p \in Procs, ExitDeaf(p)
      PROVE  CoreInv'
  BY <1>24 DEF TypeOK, Statuses, Exited, Ops, PCs, Row, CoreInv,
     LockInv, Locking, SlotInv, LifeInv, TargetInv, Aiming, ExitDeaf, Dies,
     store, req
<1>25. ASSUME NEW p \in Procs, Obey(p)
      PROVE  CoreInv'
  BY <1>25 DEF TypeOK, Statuses, Exited, Ops, PCs, Row, CoreInv,
     LockInv, Locking, SlotInv, LifeInv, TargetInv, Aiming, Obey, Dies,
     store, req
<1>26. ASSUME NEW p \in Procs, Kill(p)
      PROVE  CoreInv'
  BY <1>26 DEF TypeOK, Statuses, Exited, Ops, PCs, Row, CoreInv,
     LockInv, Locking, SlotInv, LifeInv, TargetInv, Aiming, Kill, store, req
<1>27. ASSUME NEW p \in Procs, WatchWait(p)
      PROVE  CoreInv'
  BY <1>27 DEF TypeOK, Statuses, Exited, Ops, PCs, Row, CoreInv,
     LockInv, Locking, SlotInv, LifeInv, TargetInv, Aiming, WatchWait,
     Reaped, store, proc, req
<1>28. ASSUME NEW p \in Procs, WatchDelete(p)
      PROVE  CoreInv'
  BY <1>28 DEF TypeOK, Statuses, Exited, Ops, PCs, Row, CoreInv,
     LockInv, Locking, SlotInv, LifeInv, TargetInv, Aiming, WatchDelete,
     store, proc, req
<1>29. ASSUME NEW p \in Procs, WatchCheck(p)
      PROVE  CoreInv'
  <2>1. CASE IsStopping(p)
    <3>1. watcher[p] = "check" /\ WatchEnd(p) /\ UNCHANGED status
      BY <1>29, <2>1 DEF WatchCheck
    <3>2. \A a \in Apps : procs[a] # p
      BY <3>1 DEF CoreInv, SlotInv, TypeOK
    <3>3. LockInv' /\ SlotInv'
      BY <3>1, <3>2, ManagerAssumption
         DEF WatchEnd, CoreInv, LockInv, SlotInv, TypeOK, Locking, req
    <3>4. LifeInv' /\ TargetInv'
      BY <3>1, <3>2
         DEF WatchEnd, CoreInv, LifeInv, TargetInv, TypeOK, Aiming, Exited, req
    <3> QED
      BY <3>3, <3>4 DEF CoreInv
  <2>2. CASE ~IsStopping(p)
    BY <1>29, <2>2
       DEF WatchCheck, IsStopping, TypeOK, CoreInv, LockInv, SlotInv, LifeInv,
           TargetInv, Locking, Aiming, Exited, store, proc, req
  <2> QED
    BY <2>1, <2>2
<1>30. ASSUME NEW p \in Procs, WatchReport(p)
      PROVE  CoreInv'
  BY <1>30 DEF TypeOK, Statuses, Exited, Ops, PCs, Row, CoreInv,
     LockInv, Locking, SlotInv, LifeInv, TargetInv, Aiming, WatchReport,
     UpdateStatus, WatchEnd, req
<1>31. ASSUME NEW p \in Procs, PruneCheck(p)
      PROVE  CoreInv'
  BY <1>31 DEF TypeOK, Statuses, Exited, Ops, PCs, Row, CoreInv,
     LockInv, Locking, SlotInv, LifeInv, TargetInv, Aiming, PruneCheck,
     store, proc, req
<1>32. ASSUME NEW p \in Procs, PruneWrite(p)
      PROVE  CoreInv'
  BY <1>32 DEF TypeOK, Statuses, Exited, Ops, PCs, Row, CoreInv,
     LockInv, Locking, SlotInv, LifeInv, TargetInv, Aiming, PruneWrite,
     UpdateRootfsPath, proc, req
<1>33. CASE UNCHANGED vars
  BY <1>33 DEF TypeOK, Statuses, Exited, Ops, PCs, Row, CoreInv,
     LockInv, Locking, SlotInv, LifeInv, TargetInv, Aiming, vars, store,
     proc, req
<1> QED
  BY <1>1, <1>2, <1>3, <1>4, <1>5, <1>6, <1>7, <1>8, <1>9, <1>10, <1>11,
     <1>12, <1>13, <1>14, <1>15, <1>16, <1>17, <1>18, <1>19, <1>20, <1>21,
     <1>22, <1>23, <1>24, <1>25, <1>26, <1>27, <1>28, <1>29, <1>30, <1>31,
     <1>32, <1>33
     DEF Next, Handler, StopStep, StartStep, PullStep, Watcher, Pruner

-----------------------------------------------------------------------------
(* A step keeps somebody bound to correct a status of "running".           *)
LEMMA BackedStep ==
  ASSUME IInv, [Next]_vars
  PROVE  RunningBacked'
<1> USE ManagerAssumption
<1>1. ASSUME NEW a \in Apps, Create(a)
      PROVE  RunningBacked'
  BY <1>1 DEF TypeOK, Statuses, Exited, Ops, PCs, Row, RunningBacked,
     Pending, IInv, CoreInv, Create, proc, req
<1>2. ASSUME NEW r \in Reqs, NEW o \in Asked, NEW a \in Apps, NewRequest(r,o,a)
      PROVE  RunningBacked'
  BY <1>2 DEF TypeOK, Statuses, Exited, Ops, PCs, Row, RunningBacked,
     Pending, IInv, CoreInv, LockInv, Locking, NewRequest, Entry, store,
     proc
<1>3. ASSUME NEW r \in Reqs, Lookup(r)
      PROVE  RunningBacked'
  BY <1>3 DEF TypeOK, Statuses, Exited, Ops, PCs, Row, RunningBacked,
     Pending, IInv, CoreInv, Lookup, At, Goto, store, proc
<1>4. ASSUME NEW r \in Reqs, Find(r)
      PROVE  RunningBacked'
  BY <1>4 DEF TypeOK, Statuses, Exited, Ops, PCs, Row, RunningBacked,
     Pending, IInv, CoreInv, LockInv, Locking, Find, At, Continue, Finish,
     NoRow, Goto, AfterStopError, store, proc
<1>5. ASSUME NEW r \in Reqs, Mark(r)
      PROVE  RunningBacked'
  BY <1>5 DEF TypeOK, Statuses, Exited, Ops, PCs, Row, RunningBacked,
     Pending, IInv, CoreInv, TargetInv, Aiming, LifeInv, Mark, At, Goto,
     store
<1>6. ASSUME NEW r \in Reqs, Signal(r)
      PROVE  RunningBacked'
  BY <1>6 DEF TypeOK, Statuses, Exited, Ops, PCs, Row, RunningBacked,
     Pending, IInv, CoreInv, Signal, At, Goto, store
<1>7. ASSUME NEW r \in Reqs, Await(r)
      PROVE  RunningBacked'
  BY <1>7 DEF TypeOK, Statuses, Exited, Ops, PCs, Row, RunningBacked,
     Pending, IInv, CoreInv, Await, At, Done, Goto, store, proc
<1>8. ASSUME NEW r \in Reqs, Timeout(r)
      PROVE  RunningBacked'
  BY <1>8 DEF TypeOK, Statuses, Exited, Ops, PCs, Row, RunningBacked,
     Pending, IInv, CoreInv, Timeout, At, Done, Goto, store, proc
<1>9. ASSUME NEW r \in Reqs, Stopped(r)
      PROVE  RunningBacked'
  BY <1>9 DEF TypeOK, Statuses, Exited, Ops, PCs, Row, RunningBacked,
     Pending, IInv, CoreInv, Stopped, At, UpdateStatus, AfterStop, Finish,
     NoRow, proc
<1>10. ASSUME NEW r \in Reqs, RefuseRunning(r)
      PROVE  RunningBacked'
  BY <1>10 DEF TypeOK, Statuses, Exited, Ops, PCs, Row,
     RunningBacked, Pending, IInv, CoreInv, RefuseRunning, At, SlotTaken,
     Continue, Finish, NoRow, Goto, AfterStart, store, proc
<1>11. ASSUME NEW r \in Reqs, RefuseRow(r)
      PROVE  RunningBacked'
  BY <1>11 DEF TypeOK, Statuses, Exited, Ops, PCs, Row,
     RunningBacked, Pending, IInv, CoreInv, RefuseRow, At, SlotTaken,
     Continue, Finish, NoRow, Goto, AfterStart, store, proc
<1>12. ASSUME NEW r \in Reqs, Admitted(r)
      PROVE  RunningBacked'
  <2>1. \A q \in Reqs : Pending(q) => Pending(q)' /\ rapp'[q] = rapp[q]
    BY <1>12 DEF Admitted, At, Pending, TypeOK, IInv
  <2> QED
    BY <1>12, <2>1 DEF Admitted, RunningBacked, IInv, store, proc
<1>13. ASSUME NEW r \in Reqs, NEW p \in Procs, Launch(r,p)
      PROVE  RunningBacked'
  <2>1. \A q \in Reqs : Pending(q) => Pending(q)' /\ rapp'[q] = rapp[q]
    BY <1>13 DEF Launch, At, Goto, Pending, TypeOK, IInv
  <2>2. procs[rapp[r]] = None /\ os[p] = "free" /\ watcher[p] = "idle"
    BY <1>13 DEF Launch, At, Fresh, IInv, CoreInv, LockInv, LifeInv
  <2>3. \A a \in Apps, q \in Procs :
          procs[a] = q => q # p /\ a # rapp[r]
    BY <2>2, ManagerAssumption DEF IInv, CoreInv, SlotInv
  <2> QED
    BY <1>13, <2>1, <2>2, <2>3
       DEF Launch, RunningBacked, TypeOK, IInv, store
<1>14. ASSUME NEW r \in Reqs, LaunchFails(r)
      PROVE  RunningBacked'
  BY <1>14 DEF TypeOK, Statuses, Exited, Ops, PCs, Row,
     RunningBacked, Pending, IInv, CoreInv, LaunchFails, At, UpdateStatus,
     Unlock, NoRow, AfterStart, proc
<1>15. ASSUME NEW r \in Reqs, Running(r)
      PROVE  RunningBacked'
  BY <1>15 DEF TypeOK, Statuses, Exited, Ops, PCs, Row,
     RunningBacked, Pending, IInv, CoreInv, LockInv, Locking, SlotInv,
     Running, At, UpdateStatus, Unlock, NoRow, AfterStart, proc
<1>16. ASSUME NEW r \in Reqs, DeleteRow(r)
      PROVE  RunningBacked'
  BY <1>16 DEF TypeOK, Statuses, Exited, Ops, PCs, Row,
     RunningBacked, Pending, IInv, CoreInv, DeleteRow, At, Finish, NoRow,
     proc
<1>17. ASSUME NEW r \in Reqs, Admit(r)
      PROVE  RunningBacked'
  BY <1>17 DEF TypeOK, Statuses, Exited, Ops, PCs, Row,
     RunningBacked, Pending, IInv, CoreInv, Admit, At, Continue, Finish,
     NoRow, Goto, PullAdmitted, store, proc
<1>18. ASSUME NEW r \in Reqs, Announce(r)
      PROVE  RunningBacked'
  BY <1>18 DEF TypeOK, Statuses, Exited, Ops, PCs, Row,
     RunningBacked, Pending, IInv, CoreInv, Announce, At, UpdateStatus,
     Goto, proc
<1>19. ASSUME NEW r \in Reqs, FetchFails(r)
      PROVE  RunningBacked'
  BY <1>19 DEF TypeOK, Statuses, Exited, Ops, PCs, Row,
     RunningBacked, Pending, IInv, CoreInv, FetchFails, At, UpdateStatus,
     Finish, NoRow, proc
<1>20. ASSUME NEW r \in Reqs, Fetched(r)
      PROVE  RunningBacked'
  BY <1>20 DEF TypeOK, Statuses, Exited, Ops, PCs, Row,
     RunningBacked, Pending, IInv, CoreInv, Fetched, At, UpdateRootfsPath,
     Goto, proc
<1>21. ASSUME NEW r \in Reqs, Settle(r)
      PROVE  RunningBacked'
  BY <1>21 DEF TypeOK, Statuses, Exited, Ops, PCs, Row,
     RunningBacked, Pending, IInv, CoreInv, Settle, At, UpdateStatus,
     Continue, Finish, NoRow, Goto, proc
<1>22. ASSUME NEW r \in Reqs, DeployPrune(r)
      PROVE  RunningBacked'
  <2>1. \A q \in Reqs : Pending(q) => Pending(q)' /\ rapp'[q] = rapp[q]
    BY <1>22 DEF DeployPrune, At, Finish, Pending, TypeOK, IInv
  <2> QED
    BY <1>22, <2>1 DEF DeployPrune, RunningBacked, IInv, proc
<1>23. ASSUME NEW p \in Procs, Exit(p)
      PROVE  RunningBacked'
  BY <1>23 DEF TypeOK, Statuses, Exited, Ops, PCs, Row,
     RunningBacked, Pending, IInv, CoreInv, Exit, Dies, store, req
<1>24. ASSUME NEW p \in Procs, ExitDeaf(p)
      PROVE  RunningBacked'
  BY <1>24 DEF TypeOK, Statuses, Exited, Ops, PCs, Row,
     RunningBacked, Pending, IInv, CoreInv, ExitDeaf, Dies, store, req
<1>25. ASSUME NEW p \in Procs, Obey(p)
      PROVE  RunningBacked'
  BY <1>25 DEF TypeOK, Statuses, Exited, Ops, PCs, Row,
     RunningBacked, Pending, IInv, CoreInv, Obey, Dies, store, req
<1>26. ASSUME NEW p \in Procs, Kill(p)
      PROVE  RunningBacked'
  BY <1>26 DEF TypeOK, Statuses, Exited, Ops, PCs, Row,
     RunningBacked, Pending, IInv, CoreInv, LifeInv, Kill, store, req
<1>27. ASSUME NEW p \in Procs, WatchWait(p)
      PROVE  RunningBacked'
  BY <1>27 DEF TypeOK, Statuses, Exited, Ops, PCs, Row,
     RunningBacked, Pending, IInv, CoreInv, WatchWait, Reaped, store, proc,
     req
<1>28. ASSUME NEW p \in Procs, WatchDelete(p)
      PROVE  RunningBacked'
  BY <1>28 DEF TypeOK, Statuses, Exited, Ops, PCs, Row,
     RunningBacked, Pending, IInv, CoreInv, LifeInv, WatchDelete, store,
     proc, req
<1>29. ASSUME NEW p \in Procs, WatchCheck(p)
      PROVE  RunningBacked'
  BY <1>29 DEF TypeOK, Statuses, Exited, Ops, PCs, Row,
     RunningBacked, Pending, IInv, CoreInv, LifeInv, WatchCheck, IsStopping,
     WatchEnd, req, store, proc
<1>30. ASSUME NEW p \in Procs, WatchReport(p)
      PROVE  RunningBacked'
  BY <1>30 DEF TypeOK, Statuses, Exited, Ops, PCs, Row,
     RunningBacked, Pending, IInv, CoreInv, LifeInv, WatchReport,
     UpdateStatus, WatchEnd, req
<1>31. ASSUME NEW p \in Procs, PruneCheck(p)
      PROVE  RunningBacked'
  BY <1>31 DEF TypeOK, Statuses, Exited, Ops, PCs, Row,
     RunningBacked, Pending, IInv, CoreInv, PruneCheck, store, proc, req
<1>32. ASSUME NEW p \in Procs, PruneWrite(p)
      PROVE  RunningBacked'
  BY <1>32 DEF TypeOK, Statuses, Exited, Ops, PCs, Row,
     RunningBacked, Pending, IInv, CoreInv, PruneWrite, UpdateRootfsPath,
     proc, req
<1>33. CASE UNCHANGED vars
  BY <1>33 DEF TypeOK, Statuses, Exited, Ops, PCs, Row,
     RunningBacked, Pending, IInv, CoreInv, vars, store, proc, req
<1> QED
  BY <1>1, <1>2, <1>3, <1>4, <1>5, <1>6, <1>7, <1>8, <1>9, <1>10, <1>11,
     <1>12, <1>13, <1>14, <1>15, <1>16, <1>17, <1>18, <1>19, <1>20, <1>21,
     <1>22, <1>23, <1>24, <1>25, <1>26, <1>27, <1>28, <1>29, <1>30, <1>31,
     <1>32, <1>33
     DEF Next, Handler, StopStep, StartStep, PullStep, Watcher, Pruner

-----------------------------------------------------------------------------
(* The initial states: no request is being served, no process exists.      *)
LEMMA InitInv == Init => IInv
BY ManagerAssumption
   DEF Init, IInv, TypeOK, CoreInv, LockInv, SlotInv, LifeInv, TargetInv,
       RunningBacked, Locking, Aiming, Statuses, Ops, PCs, Row, NoRow, Exited

(* Every variable keeps its type, and a row that is not there has no       *)
(* rootfs_path.                                                            *)
THEOREM TypeCorrect == Spec => []TypeOK
<1>1. Init => TypeOK
  BY InitInv DEF IInv
<1>2. TypeOK /\ [Next]_vars => TypeOK'
  BY TypeStep
<1> QED
  BY <1>1, <1>2, PTL DEF Spec

(* The inductive invariant.                                                *)
THEOREM Invariance == Spec => []IInv
<1>1. IInv /\ [Next]_vars => IInv'
  BY TypeStep, CoreStep, BackedStep DEF IInv
<1> QED
  BY InitInv, <1>1, PTL DEF Spec

(* No process runs without its entry in Manager.procs: Start never loses   *)
(* one and no watcher deletes the entry of another (manager.go:121-152).   *)
THEOREM Tracked == Spec => []EveryInstanceTracked
<1>1. IInv => EveryInstanceTracked
  BY DEF IInv, TypeOK, CoreInv, LifeInv, EveryInstanceTracked, Exited
<1> QED
  BY Invariance, <1>1, PTL

(* An exit that Stop caused is never reported (manager.go:154-163,         *)
(* process.go:458-477).                                                    *)
THEOREM StopsAreQuiet == Spec => []StopNotReportedAsCrash
<1>1. IInv => StopNotReportedAsCrash
  BY DEF IInv, CoreInv, LifeInv, StopNotReportedAsCrash
<1> QED
  BY Invariance, <1>1, PTL

(* A status of "running" always has somebody who will correct it.          *)
THEOREM Backed == Spec => []RunningBacked
<1>1. IInv => RunningBacked
  BY DEF IInv
<1> QED
  BY Invariance, <1>1, PTL

-----------------------------------------------------------------------------
(* Manager implements Supervisor: procs is the slot of each app.           *)

(* A step that leaves procs alone and no process alive or dead that was    *)
(* not so before is a stutter of Supervisor.                               *)
LEMMA Stutter ==
  ASSUME procs' = procs, \A p \in Procs : os'[p] = "alive" <=> os[p] = "alive"
  PROVE  UNCHANGED S!svars
BY DEF S!svars

(* The end of a process is a Die.                                          *)
LEMMA DiesMaps ==
  ASSUME TypeOK, NEW p \in Procs, Dies(p)
  PROVE  S!Die(p)
BY DEF Dies, TypeOK, Exited, S!Die

LEMMA StepMaps ==
  ASSUME IInv, [Next]_vars
  PROVE  [S!SupNext]_(S!svars)
<1>1. ASSUME NEW a \in Apps, Create(a)
      PROVE  [S!SupNext]_(S!svars)
  BY <1>1, Stutter DEF Create, proc
<1>2. ASSUME NEW r \in Reqs, NEW o \in Asked, NEW a \in Apps, NewRequest(r,o,a)
      PROVE  [S!SupNext]_(S!svars)
  BY <1>2, Stutter DEF NewRequest, proc
<1>3. ASSUME NEW r \in Reqs, Lookup(r)
      PROVE  [S!SupNext]_(S!svars)
  BY <1>3, Stutter DEF Lookup, proc
<1>4. ASSUME NEW r \in Reqs, Find(r)
      PROVE  [S!SupNext]_(S!svars)
  BY <1>4, Stutter DEF Find, proc
<1>5. ASSUME NEW r \in Reqs, Mark(r)
      PROVE  [S!SupNext]_(S!svars)
  BY <1>5, Stutter DEF Mark, proc
<1>6. ASSUME NEW r \in Reqs, Signal(r)
      PROVE  [S!SupNext]_(S!svars)
  BY <1>6, Stutter DEF Signal, proc
<1>7. ASSUME NEW r \in Reqs, Await(r)
      PROVE  [S!SupNext]_(S!svars)
  BY <1>7, Stutter DEF Await, proc
<1>8. ASSUME NEW r \in Reqs, Timeout(r)
      PROVE  [S!SupNext]_(S!svars)
  BY <1>8, Stutter DEF Timeout, proc
<1>9. ASSUME NEW r \in Reqs, Stopped(r)
      PROVE  [S!SupNext]_(S!svars)
  BY <1>9, Stutter DEF Stopped, proc
<1>10. ASSUME NEW r \in Reqs, RefuseRunning(r)
      PROVE  [S!SupNext]_(S!svars)
  BY <1>10, Stutter DEF RefuseRunning, proc
<1>11. ASSUME NEW r \in Reqs, RefuseRow(r)
      PROVE  [S!SupNext]_(S!svars)
  BY <1>11, Stutter DEF RefuseRow, proc
<1>12. ASSUME NEW r \in Reqs, Admitted(r)
      PROVE  [S!SupNext]_(S!svars)
  BY <1>12, Stutter DEF Admitted, proc
<1>13. ASSUME NEW r \in Reqs, NEW p \in Procs, Launch(r,p)
      PROVE  [S!SupNext]_(S!svars)
  <2>1. procs[rapp[r]] = None /\ os[p] = "free"
    BY <1>13 DEF Launch, At, Fresh, IInv, CoreInv, LockInv
  <2>2. S!Launch(rapp[r], p)
    BY <1>13, <2>1 DEF Launch, S!Launch, IInv, TypeOK
  <2> QED
    BY <2>2 DEF S!SupNext, IInv, TypeOK
<1>14. ASSUME NEW r \in Reqs, LaunchFails(r)
      PROVE  [S!SupNext]_(S!svars)
  BY <1>14, Stutter DEF LaunchFails, proc
<1>15. ASSUME NEW r \in Reqs, Running(r)
      PROVE  [S!SupNext]_(S!svars)
  BY <1>15, Stutter DEF Running, proc
<1>16. ASSUME NEW r \in Reqs, DeleteRow(r)
      PROVE  [S!SupNext]_(S!svars)
  BY <1>16, Stutter DEF DeleteRow, proc
<1>17. ASSUME NEW r \in Reqs, Admit(r)
      PROVE  [S!SupNext]_(S!svars)
  BY <1>17, Stutter DEF Admit, proc
<1>18. ASSUME NEW r \in Reqs, Announce(r)
      PROVE  [S!SupNext]_(S!svars)
  BY <1>18, Stutter DEF Announce, proc
<1>19. ASSUME NEW r \in Reqs, FetchFails(r)
      PROVE  [S!SupNext]_(S!svars)
  BY <1>19, Stutter DEF FetchFails, proc
<1>20. ASSUME NEW r \in Reqs, Fetched(r)
      PROVE  [S!SupNext]_(S!svars)
  BY <1>20, Stutter DEF Fetched, proc
<1>21. ASSUME NEW r \in Reqs, Settle(r)
      PROVE  [S!SupNext]_(S!svars)
  BY <1>21, Stutter DEF Settle, proc
<1>22. ASSUME NEW r \in Reqs, DeployPrune(r)
      PROVE  [S!SupNext]_(S!svars)
  BY <1>22, Stutter DEF DeployPrune, proc
<1>23. ASSUME NEW p \in Procs, Exit(p)
      PROVE  [S!SupNext]_(S!svars)
  BY <1>23, DiesMaps DEF Exit, S!SupNext, IInv
<1>24. ASSUME NEW p \in Procs, ExitDeaf(p)
      PROVE  [S!SupNext]_(S!svars)
  BY <1>24, DiesMaps DEF ExitDeaf, S!SupNext, IInv
<1>25. ASSUME NEW p \in Procs, Obey(p)
      PROVE  [S!SupNext]_(S!svars)
  BY <1>25, DiesMaps DEF Obey, S!SupNext, IInv
<1>26. ASSUME NEW p \in Procs, Kill(p)
      PROVE  [S!SupNext]_(S!svars)
  BY <1>26, Stutter DEF Kill, proc
<1>27. ASSUME NEW p \in Procs, WatchWait(p)
      PROVE  [S!SupNext]_(S!svars)
  BY <1>27, Stutter DEF WatchWait, proc
<1>28. ASSUME NEW p \in Procs, WatchDelete(p)
      PROVE  [S!SupNext]_(S!svars)
  <2>1. procs[papp[p]] = p /\ os[p] \in Exited
    BY <1>28 DEF WatchDelete, IInv, CoreInv, LifeInv
  <2>2. S!Release(papp[p])
    BY <1>28, <2>1, ManagerAssumption
       DEF WatchDelete, S!Release, Exited, proc
  <2> QED
    BY <2>2 DEF S!SupNext, IInv, TypeOK
<1>29. ASSUME NEW p \in Procs, WatchCheck(p)
      PROVE  [S!SupNext]_(S!svars)
  <2>1. os[p] \in Exited
    BY <1>29 DEF WatchCheck, IInv, CoreInv, LifeInv
  <2> QED
    BY <1>29, <2>1, Stutter
       DEF WatchCheck, WatchEnd, Exited, IInv, TypeOK, proc
<1>30. ASSUME NEW p \in Procs, WatchReport(p)
      PROVE  [S!SupNext]_(S!svars)
  <2>1. os[p] \in Exited
    BY <1>30 DEF WatchReport, IInv, CoreInv, LifeInv
  <2> QED
    BY <1>30, <2>1, Stutter DEF WatchReport, WatchEnd, Exited, IInv, TypeOK
<1>31. ASSUME NEW p \in Procs, PruneCheck(p)
      PROVE  [S!SupNext]_(S!svars)
  BY <1>31, Stutter DEF PruneCheck, proc
<1>32. ASSUME NEW p \in Procs, PruneWrite(p)
      PROVE  [S!SupNext]_(S!svars)
  BY <1>32, Stutter DEF PruneWrite, proc
<1>33. CASE UNCHANGED vars
  BY <1>33, Stutter DEF vars, proc
<1> QED
  BY <1>1, <1>2, <1>3, <1>4, <1>5, <1>6, <1>7, <1>8, <1>9, <1>10, <1>11,
     <1>12, <1>13, <1>14, <1>15, <1>16, <1>17, <1>18, <1>19, <1>20, <1>21,
     <1>22, <1>23, <1>24, <1>25, <1>26, <1>27, <1>28, <1>29, <1>30, <1>31,
     <1>32, <1>33
     DEF Next, Handler, StopStep, StartStep, PullStep, Watcher, Pruner

(* One process per app at a time, and no slot emptied before its process   *)
(* is dead: every step of the manager is one of Supervisor or a stutter.   *)
THEOREM Implements == Spec => OneInstance
<1>1. Init => S!SupInit
  BY DEF Init, S!SupInit
<1> QED
  BY <1>1, Invariance, StepMaps, PTL DEF Spec, OneInstance, S!SupSpec
=============================================================================
