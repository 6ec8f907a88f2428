---------------------------- MODULE HealthPinger ----------------------------
(***************************************************************************)
(* The health pingers of internal/runtime/manager.go: one goroutine per    *)
(* call of StartHealthPinger, of which at most one per app may stay alive. *)
(* They are started by a sweep over the rows, at boot and after an import, *)
(* and cancelled by the next start and by deleteApp.                       *)
(***************************************************************************)
CONSTANTS
  Apps,     \* app IDs
  Pingers,  \* goroutines; one is reused once it has ended
  Sweeps,   \* callers of StartHealthPinger: main.go at boot, postImport
  None      \* no cancel function in Manager.pingers

ASSUME PingerAssumption == None \notin Pingers

VARIABLES
  checked,   \* the rows with a health endpoint and a port
  rows,      \* the rows there are
  running,   \* the apps in Manager.procs
  health,    \* Manager.health
  pingers,   \* Manager.pingers: whose cancel function is registered
  pinging,   \* what a goroutine is doing
  pingee,    \* the app it was started for
  state,     \* its local variable of that name
  cancelled, \* the goroutines whose context is done
  todo,      \* the apps a sweep has listed and not reached yet
  deleting   \* the apps whose deleteApp is past RemoveApp

manager == <<health, pingers>>
gos     == <<pinging, pingee, state, cancelled>>
table   == <<rows, checked, deleting>>
pvars   == <<table, running, manager, gos, todo>>

PingerTypeOK ==
  /\ rows \subseteq Apps /\ checked \subseteq rows /\ deleting \subseteq rows
  /\ running \subseteq Apps
  /\ health \in [Apps -> {"unknown", "ok", "failing"}]
  /\ pingers \in [Apps -> Pingers \cup {None}]
  /\ pinging \in [Pingers -> {"ended", "select", "check", "get", "write"}]
  /\ pingee \in [Pingers -> Apps]
  /\ state \in [Pingers -> {"ok", "failing"}]
  /\ cancelled \subseteq Pingers
  /\ todo \in [Sweeps -> SUBSET Apps]

-----------------------------------------------------------------------------
(* The rows, and the processes of Manager.tla.                             *)

(* The new-app form, an edit of the endpoint, and an import start no       *)
(* pinger of their own.                                                    *)
SaveRow(a) ==
  /\ rows' = rows \cup {a}
  /\ \E on \in BOOLEAN :
       checked' = IF on THEN checked \cup {a} ELSE checked \ {a}
  /\ UNCHANGED <<deleting, running, manager, gos, todo>>

AppStarts(a) ==
  /\ a \in rows
  /\ running' = running \cup {a}
  /\ UNCHANGED <<table, manager, gos, todo>>

AppEnds(a) ==
  /\ running' = running \ {a}
  /\ UNCHANGED <<table, manager, gos, todo>>

\* Mutant: the old pinger is replaced in the map and not cancelled.
CancelNothing(a) == cancelled

(* Cancels the pinger that is registered for the app, if any.              *)
Cancelled(a) == cancelled \cup ({pingers[a]} \ {None})

(* deleteApp: RemoveApp, and later the row.                                *)
RemoveApp(a) ==
  /\ a \in rows
  /\ deleting' = deleting \cup {a}
  /\ health' = [health EXCEPT ![a] = "unknown"]
  /\ cancelled' = Cancelled(a)
  /\ pingers' = [pingers EXCEPT ![a] = None]
  /\ UNCHANGED <<rows, checked, running, pinging, pingee, state, todo>>

DeleteRow(a) ==
  /\ a \in deleting
  /\ rows' = rows \ {a}
  /\ checked' = checked \ {a}
  /\ deleting' = deleting \ {a}
  /\ UNCHANGED <<running, manager, gos, todo>>

-----------------------------------------------------------------------------
(* StartHealthPinger, called from what List returned some time ago.        *)

List(s) ==
  /\ todo[s] = {}
  /\ todo' = [todo EXCEPT ![s] = checked]
  /\ UNCHANGED <<table, running, manager, gos>>

StartHealthPinger(s, a, p) ==
  /\ a \in todo[s] /\ pinging[p] = "ended"
  /\ todo' = [todo EXCEPT ![s] = @ \ {a}]
  /\ cancelled' = Cancelled(a)
  /\ pingers' = [pingers EXCEPT ![a] = p]
  /\ pinging' = [pinging EXCEPT ![p] = "select"]
  /\ pingee' = [pingee EXCEPT ![p] = a]
  /\ UNCHANGED <<table, running, health, state>>

-----------------------------------------------------------------------------
(* The goroutine.  When the tick and the cancellation are both there, the  *)
(* select takes either.                                                    *)

Tick(p) ==
  /\ pinging[p] = "select"
  /\ pinging' = [pinging EXCEPT ![p] = "check"]
  /\ state' = [state EXCEPT ![p] = "failing"]
  /\ UNCHANGED <<table, running, manager, pingee, cancelled, todo>>

End(p) ==
  /\ pinging[p] = "select" /\ p \in cancelled
  /\ pinging' = [pinging EXCEPT ![p] = "ended"]
  /\ cancelled' = cancelled \ {p}
  /\ UNCHANGED <<table, running, manager, pingee, state, todo>>

\* Mutant: an app that does not run is skipped until the next tick.
AfterCheckSkip(p) == IF pingee[p] \in running THEN "get" ELSE "select"

AfterCheck(p) == IF pingee[p] \in running THEN "get" ELSE "write"

IsRunning(p) ==
  /\ pinging[p] = "check"
  /\ pinging' = [pinging EXCEPT ![p] = AfterCheck(p)]
  /\ UNCHANGED <<table, running, manager, pingee, state, cancelled, todo>>

(* client.Get: an answer, an error, or the 3 s timeout.                    *)
Get(p) ==
  /\ pinging[p] = "get"
  /\ pinging' = [pinging EXCEPT ![p] = "write"]
  /\ \E st \in {"ok", "failing"} : state' = [state EXCEPT ![p] = st]
  /\ UNCHANGED <<table, running, manager, pingee, cancelled, todo>>

Write(p) ==
  /\ pinging[p] = "write"
  /\ health' = [health EXCEPT ![pingee[p]] = state[p]]
  /\ pinging' = [pinging EXCEPT ![p] = "select"]
  /\ UNCHANGED <<table, running, pingers, pingee, state, cancelled, todo>>

PingStep(p) == Tick(p) \/ End(p) \/ IsRunning(p) \/ Get(p) \/ Write(p)

-----------------------------------------------------------------------------
(* Boot: rows of earlier runs, nothing in memory, no app started yet.      *)
PingerInit ==
  /\ rows \in SUBSET Apps /\ checked \in SUBSET rows
  /\ deleting = {} /\ running = {}
  /\ health = [a \in Apps |-> "unknown"]
  /\ pingers = [a \in Apps |-> None]
  /\ pinging = [p \in Pingers |-> "ended"]
  /\ \E a \in Apps : pingee = [p \in Pingers |-> a]
  /\ state = [p \in Pingers |-> "failing"]
  /\ cancelled = {}
  /\ todo = [s \in Sweeps |-> {}]

PingerNext ==
  \/ \E a \in Apps : \/ SaveRow(a) \/ RemoveApp(a) \/ DeleteRow(a)
                     \/ AppStarts(a) \/ AppEnds(a)
  \/ \E s \in Sweeps : \/ List(s)
                       \/ \E a \in Apps, p \in Pingers :
                            StartHealthPinger(s, a, p)
  \/ \E p \in Pingers : PingStep(p)

PingerSpec == PingerInit /\ [][PingerNext]_pvars

(* Go runs every goroutine that can run, the ticker ticks, and the client  *)
(* gives up after 3 s.                                                     *)
PingerFairness == \A p \in Pingers : WF_pvars(PingStep(p))

PingerFairSpec == PingerSpec /\ PingerFairness

-----------------------------------------------------------------------------
(* The goroutines that are not cancelled are exactly those whose cancel    *)
(* function is registered, one per app at most: sweeps, edits and deletes  *)
(* in any order leave no second pinger that nobody can stop                *)
(* (manager.go:275-280, 292-298).                                          *)
OneLivePinger ==
  \A p \in Pingers, a \in Apps :
    (pinging[p] # "ended" /\ p \notin cancelled /\ pingee[p] = a)
      <=> pingers[a] = p

(* An app that is down does not stay "ok" or "unknown" while the same      *)
(* pinger is registered for it (manager.go:311-320).                       *)
DownIsNoticed ==
  \A a \in Apps, p \in Pingers :
    (pingers[a] = p /\ a \notin running)
      ~> (health[a] = "failing" \/ a \in running \/ pingers[a] # p)
=============================================================================
