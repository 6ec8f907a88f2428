-------------------------------- MODULE Server --------------------------------
(***************************************************************************)
(* cmd/server/main.go around the manager: the rows are reset, the apps     *)
(* with auto_start are started one after the other, requests come in       *)
(* meanwhile (through the tunnel) and afterwards, and at any moment the    *)
(* platform may stop everything but the database.                          *)
(***************************************************************************)
EXTENDS Manager

CONSTANT Main  \* the main goroutine: its Starts are those of autoStartApps

ASSUME ServerAssumption == Main \in Reqs

VARIABLES
  phase,  \* where main is
  autos   \* the apps autoStartApps has still to start

boot  == <<phase, autos>>
bvars == <<vars, boot>>

BootTypeOK ==
  /\ TypeOK
  /\ phase \in {"down", "list", "start", "serve"}
  /\ autos \subseteq Apps

(* A goroutine or a process moves, or a client asks; main serves no client.*)
Up == phase # "down" /\ UNCHANGED boot

Serve == Up /\ Next /\ (op[Main] = "none" => op'[Main] = "none")

\* Mutant: the apps that were being pulled are left as they are.
ResetRunning(a) == status[a] = "running"

Reset(a) == status[a] \in {"running", "pulling"}

(* ResetRunningToStopped.                                                  *)
Boot ==
  /\ phase = "down"
  /\ status' = [a \in Apps |-> IF Reset(a) THEN "stopped" ELSE status[a]]
  /\ phase' = "list"
  /\ UNCHANGED <<rootfs, mu, procs, proc, watcher, pruner, req, autos>>

(* autoStartApps: the rows with the flag, which the model does not know,   *)
(* and a rootfs_path.                                                      *)
ListAutoStart ==
  /\ phase = "list"
  /\ \E flagged \in SUBSET Apps : autos' = {a \in flagged : rootfs[a]}
  /\ phase' = "start"
  /\ UNCHANGED vars

AutoStart(a) ==
  /\ phase = "start" /\ a \in autos /\ op[Main] = "none"
  /\ autos' = autos \ {a}
  /\ op' = [op EXCEPT ![Main] = "start"]
  /\ pc' = [pc EXCEPT ![Main] = "start"]
  /\ rapp' = [rapp EXCEPT ![Main] = a]
  /\ UNCHANGED <<store, mu, procs, proc, watcher, pruner, target, got, phase>>

Listen ==
  /\ phase = "start" /\ autos = {} /\ op[Main] = "none"
  /\ phase' = "serve"
  /\ UNCHANGED <<vars, autos>>

(* Nothing that was in memory is left, and no process of the container.    *)
Crash ==
  /\ phase # "down"
  /\ phase' = "down" /\ autos' = {}
  /\ mu' = None /\ procs' = [a \in Apps |-> None]
  /\ os' = [p \in Procs |-> "free"] /\ sig' = [p \in Procs |-> "none"]
  /\ stopping' = [p \in Procs |-> FALSE] /\ chroot' = [p \in Procs |-> FALSE]
  /\ watcher' = [p \in Procs |-> "idle"] /\ pruner' = [p \in Procs |-> "idle"]
  /\ op' = [r \in Reqs |-> "none"] /\ pc' = [r \in Reqs |-> "idle"]
  /\ target' = [r \in Reqs |-> None] /\ got' = [r \in Reqs |-> NoRow]
  /\ UNCHANGED <<store, papp, rapp>>

(* The rows as a server that was stopped at any moment left them.          *)
BootInit ==
  /\ status \in [Apps -> Statuses]
  /\ rootfs \in [Apps -> BOOLEAN]
  /\ \A a \in Apps : status[a] = "absent" => ~rootfs[a]
  /\ mu = None /\ procs = [a \in Apps |-> None]
  /\ \E a \in Apps : papp = [p \in Procs |-> a] /\ rapp = [r \in Reqs |-> a]
  /\ os = [p \in Procs |-> "free"] /\ sig = [p \in Procs |-> "none"]
  /\ stopping = [p \in Procs |-> FALSE] /\ chroot = [p \in Procs |-> FALSE]
  /\ watcher = [p \in Procs |-> "idle"] /\ pruner = [p \in Procs |-> "idle"]
  /\ op = [r \in Reqs |-> "none"] /\ pc = [r \in Reqs |-> "idle"]
  /\ target = [r \in Reqs |-> None] /\ got = [r \in Reqs |-> NoRow]
  /\ phase = "down" /\ autos = {}

MainStep == ListAutoStart \/ (\E a \in Apps : AutoStart(a)) \/ Listen

BootNext == Serve \/ Boot \/ MainStep \/ Crash

BootSpec == BootInit /\ [][BootNext]_bvars

(* As in Manager.tla; main runs, and the platform starts the server again. *)
BootFairSpec ==
  /\ BootSpec
  /\ \A r \in Reqs : SF_bvars(Up /\ Handler(r))
  /\ \A p \in Procs : /\ SF_bvars(Up /\ Watcher(p))
                      /\ WF_bvars(Up /\ (Kill(p) \/ Obey(p)))
  /\ WF_bvars(Boot) /\ WF_bvars(MainStep)

-----------------------------------------------------------------------------
(* Once the server is up, "running" and "pulling" are backed again: what a *)
(* crash left of them is gone before any request reads it                  *)
(* (main.go:58, store/apps.go:207).                                        *)
MarksBacked ==
  phase # "down" =>
    /\ RunningBacked
    /\ \A a \in Apps : status[a] = "pulling" =>
         \E r \in Reqs : rapp[r] = a /\ pc[r] \in {"fetch", "settle"}

(* The server gets to listen: an auto-start that fails does not end the    *)
(* loop, and no request that came in through the tunnel keeps main waiting *)
(* (main.go:120-123, 133-145).                                             *)
BootFinishes == phase # "down" ~> phase \in {"down", "serve"}
=============================================================================
