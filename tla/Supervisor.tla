----------------------------- MODULE Supervisor -----------------------------
(***************************************************************************)
(* What the runtime manager promises of each app, whatever its handlers,   *)
(* goroutines and locks do: an app has one slot; a process is launched     *)
(* only into an empty slot, and the slot is emptied only when the process  *)
(* that holds it is dead.  Manager.tla is shown to implement this.         *)
(***************************************************************************)
CONSTANTS Apps, Procs, None

VARIABLES holder,  \* the process that occupies the slot of an app, or None
          alive    \* the processes that are running

svars == <<holder, alive>>

SupInit ==
  /\ holder = [a \in Apps |-> None]
  /\ alive = {}

Launch(a, p) ==
  /\ holder[a] = None
  /\ p \notin alive
  /\ holder' = [holder EXCEPT ![a] = p]
  /\ alive' = alive \cup {p}

Die(p) ==
  /\ p \in alive
  /\ alive' = alive \ {p}
  /\ UNCHANGED holder

Release(a) ==
  /\ holder[a] # None
  /\ holder[a] \notin alive
  /\ holder' = [holder EXCEPT ![a] = None]
  /\ UNCHANGED alive

SupNext ==
  \/ \E a \in Apps, p \in Procs : Launch(a, p)
  \/ \E p \in Procs : Die(p)
  \/ \E a \in Apps : Release(a)

SupSpec == SupInit /\ [][SupNext]_svars

(* A dead process does not keep its slot for ever, so that the app can be  *)
(* started again.                                                          *)
Released ==
  \A a \in Apps, p \in Procs :
    (holder[a] = p /\ p \notin alive) ~> (holder[a] # p)
=============================================================================
