------------------------------ MODULE AppStore ------------------------------
(***************************************************************************)
(* internal/store, statement by statement, under the calls of the          *)
(* handlers, of pulls, of Manager.Start and of internal/portability: one   *)
(* connection for everybody (SetMaxOpenConns(1)), which a transaction      *)
(* keeps and any other statement borrows, and the manager mutex that Start *)
(* holds around its own calls.                                             *)
(***************************************************************************)
CONSTANTS
  Apps,   \* app IDs; an imported row keeps the ID it was exported with
  Reqs,   \* goroutines that serve a request or pull an image
  None,   \* nobody
  Absent, \* no row
  Asked   \* the calls that are made

Calls == {"edit", "delete", "import", "list", "pull", "prune", "start"}

VARIABLES
  db,      \* the two tables
  fk,      \* the driver takes _foreign_keys=on from the path
  undo,    \* what a rollback brings back, None outside a transaction
  conn,    \* the request whose transaction or open rows have the connection
  mu,      \* the request that holds Manager.mu
  job, at, \* what a request does and where it is
  about,   \* its app
  got,     \* what an edit or a pull has read of the row
  todo     \* the apps whose env vars List has still to read

request == <<job, at, about, got, todo>>
svars   == <<db, fk, undo, conn, mu, request>>

\* A form, or an app of an export file, is named after the request that saves
\* it: its scalar fields in the row, its variables in env_vars.  Variables
\* whose row is not there are "left".  Apart from them: the entrypoint, and
\* rootfs_path # "".
Forms   == Reqs \cup {"old"}
Entries == {"none", "image", "user"}
Rows    == [form : Forms, entry : Entries, rootfs : BOOLEAN]
Tables  == [row : [Apps -> Rows \cup {Absent}],
            env : [Apps -> SUBSET (Forms \cup {"left"})],
            path : [Apps -> BOOLEAN]]
Read    == [entry : Entries, rootfs : BOOLEAN]
Unread  == [entry |-> "none", rootfs |-> FALSE]

ASSUME AppStoreAssumption ==
  /\ None \notin Reqs /\ "old" \notin Reqs /\ "left" \notin Reqs
  /\ Absent \notin Rows
  /\ Absent \notin [form : Forms, vars : SUBSET Forms,
                    entry : Entries, rootfs : BOOLEAN]
  /\ Asked \subseteq Calls

Labels == {"idle", "running", "lock", "get", "getenv", "begin", "row", "wipe",
           "env", "commit", "rollback", "delete", "list", "listenv", "entry",
           "rootfs", "status"}

StoreTypeOK ==
  /\ db \in Tables
  /\ IF conn = None THEN undo = None ELSE undo \in Tables
  /\ fk \in BOOLEAN
  /\ conn \in Reqs \cup {None} /\ mu \in Reqs \cup {None}
  /\ job \in [Reqs -> Calls \cup {"none"}]
  /\ at \in [Reqs -> Labels]
  /\ about \in [Reqs -> Apps]
  /\ got \in [Reqs -> Read]
  /\ todo \in [Reqs -> SUBSET Apps]

-----------------------------------------------------------------------------
(* The statements.  db.path is for the properties: what the last UPDATE of *)
(* rootfs_path said.                                                       *)

SetRow(a, row) == [db EXCEPT !.row[a] = IF @ = Absent THEN Absent ELSE row]

\* Mutant: INSERT OR REPLACE.
ConflictsNever(a) == FALSE

Conflicts(a) == db.row[a] # Absent

InsertRow(a, form, entry) ==
  [db EXCEPT !.row[a] = [form |-> form, entry |-> entry, rootfs |-> FALSE],
             !.path[a] = FALSE]

\* Mutant: rootfs_path, which parseAppForm copies too, is in the UPDATE.
UpdateRowAll(a, form, entry, old) ==
  SetRow(a, [form |-> form, entry |-> entry, rootfs |-> old.rootfs])

UpdateRow(a, form, entry, old) ==
  SetRow(a, [form |-> form, entry |-> entry, rootfs |-> db.row[a].rootfs])

DeleteEnv(a) == [db EXCEPT !.env[a] = {}]

InsertEnv(a, form) ==
  [db EXCEPT !.env[a] = @ \cup {IF db.row[a] = Absent THEN "left" ELSE form}]

DeleteRow(a) ==
  [db EXCEPT !.row[a] = Absent,
             !.env[a] = IF fk \/ @ = {} THEN {} ELSE {"left"}]

UpdateEntrypointCmd(a) == SetRow(a, [db.row[a] EXCEPT !.entry = "image"])

UpdateRootfsPath(a, set) ==
  [SetRow(a, [db.row[a] EXCEPT !.rootfs = set])
     EXCEPT !.path[a] = set /\ db.row[a] # Absent]

-----------------------------------------------------------------------------
(* Requests.                                                               *)

At(r, l) == at[r] = l

Go(r, l) ==
  /\ at' = [at EXCEPT ![r] = l]
  /\ job' = [job EXCEPT ![r] = IF l = "idle" THEN "none" ELSE @]
  /\ got' = [got EXCEPT ![r] = IF l = "idle" THEN Unread ELSE @]
  /\ UNCHANGED <<about, todo>>

Statement(r, l) == At(r, l) /\ conn = None

First(o) ==
  CASE o = "start" -> "lock"
    [] o = "list" -> "list"
    [] o = "prune" -> "running"
    [] OTHER -> "get"

Call(r, o, a) ==
  /\ job[r] = "none"
  /\ job' = [job EXCEPT ![r] = o]
  /\ at' = [at EXCEPT ![r] = First(o)]
  /\ about' = [about EXCEPT ![r] = a]
  /\ UNCHANGED <<db, fk, undo, conn, mu, got, todo>>

(* Start: the mutex is taken first and kept over its statements.           *)
Lock(r) ==
  /\ At(r, "lock") /\ mu = None
  /\ mu' = r
  /\ Go(r, "get")
  /\ UNCHANGED <<db, fk, undo, conn>>

\* Mutant: the return on an unknown app keeps the mutex.
UnlockForgotten(r) ==
  mu' = IF mu = r /\ db.row[about[r]] # Absent THEN None ELSE mu

Unlock(r) == mu' = IF mu = r THEN None ELSE mu

(* Get: the row, then its variables.  For an import, no row is good news.  *)
Get(r) ==
  /\ Statement(r, "get")
  /\ LET row == db.row[about[r]]
     IN IF row # Absent
        THEN /\ got' = [got EXCEPT ![r] =
                          IF job[r] \in {"edit", "pull"}
                          THEN [entry |-> row.entry, rootfs |-> row.rootfs]
                          ELSE Unread]
             /\ at' = [at EXCEPT ![r] = "getenv"]
             /\ UNCHANGED <<job, about, todo, mu>>
        ELSE IF job[r] = "import" THEN Go(r, "begin") /\ UNCHANGED mu
                                  ELSE Go(r, "idle") /\ Unlock(r)
  /\ UNCHANGED <<db, fk, undo, conn>>

AfterGet(r) ==
  CASE job[r] = "edit" -> "begin"
    [] job[r] \in {"delete", "pull"} -> "running"
    [] job[r] = "start" -> "status"
    [] job[r] = "import" -> "idle"

GetEnvVars(r) ==
  /\ Statement(r, "getenv")
  /\ Go(r, AfterGet(r))
  /\ UNCHANGED <<db, fk, undo, conn, mu>>

(* IsRunning, which locks the mutex; a pull refuses a running app, and the *)
(* pruner one that is not.                                                 *)
IsRunning(r) ==
  /\ At(r, "running") /\ mu = None
  /\ \/ job[r] = "delete" /\ Go(r, "delete")
     \/ job[r] = "pull" /\ \E l \in {"entry", "idle"} : Go(r, l)
     \/ job[r] = "prune" /\ \E l \in {"rootfs", "idle"} : Go(r, l)
  /\ UNCHANGED <<db, fk, undo, conn, mu>>

(* UpdateStatus and SetLastStarted, then the deferred Unlock.              *)
Started(r) ==
  /\ Statement(r, "status")
  /\ Go(r, "idle")
  /\ Unlock(r)
  /\ UNCHANGED <<db, fk, undo, conn>>

-----------------------------------------------------------------------------
(* Create and Update: transactions.                                        *)

Begin(r) ==
  /\ Statement(r, "begin")
  /\ conn' = r
  /\ undo' = db
  /\ Go(r, "row")
  /\ UNCHANGED <<db, fk, mu>>

(* A blank entrypoint keeps the one that was read.                         *)
UpdateApp(r) ==
  /\ At(r, "row") /\ job[r] = "edit"
  /\ \E entry \in {"user", got[r].entry} :
       db' = UpdateRow(about[r], r, entry, got[r])
  /\ Go(r, "wipe")
  /\ UNCHANGED <<fk, undo, conn, mu>>

\* Mutant: Update leaves the old variables.
WipeNothing(r) == db' = db

WipeEnv(r) == db' = DeleteEnv(about[r])

Wipe(r) ==
  /\ At(r, "wipe")
  /\ WipeEnv(r)
  /\ Go(r, "env")
  /\ UNCHANGED <<fk, undo, conn, mu>>

InsertApp(r) ==
  /\ At(r, "row") /\ job[r] = "import"
  /\ IF Conflicts(about[r])
     THEN Go(r, "rollback") /\ UNCHANGED db
     ELSE /\ \E entry \in {"none", "user"} :
               db' = InsertRow(about[r], r, entry)
          /\ Go(r, "env")
  /\ UNCHANGED <<fk, undo, conn, mu>>

\* The variables need a row only if the driver enforces the REFERENCES.
InsertEnvVars(r) ==
  /\ At(r, "env")
  /\ IF fk /\ db.row[about[r]] = Absent
     THEN Go(r, "rollback") /\ UNCHANGED db
     ELSE db' = InsertEnv(about[r], r) /\ Go(r, "commit")
  /\ UNCHANGED <<fk, undo, conn, mu>>

Commit(r) ==
  /\ At(r, "commit")
  /\ conn' = None /\ undo' = None
  /\ Go(r, "idle")
  /\ UNCHANGED <<db, fk, mu>>

Rollback(r) ==
  /\ At(r, "rollback")
  /\ db' = undo
  /\ conn' = None /\ undo' = None
  /\ Go(r, "idle")
  /\ UNCHANGED <<fk, mu>>

-----------------------------------------------------------------------------
(* Delete, List, and what a pull and a prune write.                        *)

Delete(r) ==
  /\ Statement(r, "delete")
  /\ db' = DeleteRow(about[r])
  /\ Go(r, "idle")
  /\ UNCHANGED <<fk, undo, conn, mu>>

CloseRows(r) == conn' = None

List(r) ==
  /\ Statement(r, "list")
  /\ todo' = [todo EXCEPT ![r] = {a \in Apps : db.row[a] # Absent}]
  /\ at' = [at EXCEPT ![r] = "listenv"]
  /\ CloseRows(r)
  /\ UNCHANGED <<db, fk, undo, mu, job, about, got>>

ListEnvVars(r) ==
  /\ Statement(r, "listenv")
  /\ IF todo[r] = {}
     THEN Go(r, "idle")
     ELSE /\ \E a \in todo[r] : todo' = [todo EXCEPT ![r] = @ \ {a}]
          /\ UNCHANGED <<job, at, about, got>>
  /\ UNCHANGED <<db, fk, undo, conn, mu>>

(* Some time has passed since the pull read the row.  The image may name   *)
(* no entrypoint.                                                          *)
ApplyEntry(r) ==
  /\ Statement(r, "entry")
  /\ \/ got[r].entry = "none" /\ db' = UpdateEntrypointCmd(about[r])
     \/ UNCHANGED db
  /\ Go(r, "rootfs")
  /\ UNCHANGED <<fk, undo, conn, mu>>

ApplyRootfs(r) ==
  /\ Statement(r, "rootfs")
  /\ db' = UpdateRootfsPath(about[r], job[r] = "pull")
  /\ Go(r, "idle")
  /\ UNCHANGED <<fk, undo, conn, mu>>

-----------------------------------------------------------------------------
\* Mutant: what a transaction wrote before the crash is on the disk.
KeepUncommitted == db

Recovered == IF conn # None THEN undo ELSE db

(* The server dies; SQLite rolls back the open transaction when the next   *)
(* one opens the database.                                                 *)
Crash ==
  /\ db' = Recovered
  /\ conn' = None /\ undo' = None /\ mu' = None
  /\ job' = [r \in Reqs |-> "none"] /\ at' = [r \in Reqs |-> "idle"]
  /\ got' = [r \in Reqs |-> Unread] /\ todo' = [r \in Reqs |-> {}]
  /\ UNCHANGED <<fk, about>>

OldRow == [form |-> "old", entry |-> "none", rootfs |-> FALSE]

StoreInit ==
  /\ \E there \in SUBSET Apps :
       db = [row |-> [a \in Apps |-> IF a \in there THEN OldRow ELSE Absent],
             env |-> [a \in Apps |-> IF a \in there THEN {"old"} ELSE {}],
             path |-> [a \in Apps |-> FALSE]]
  /\ fk \in BOOLEAN
  /\ undo = None
  /\ conn = None /\ mu = None
  /\ job = [r \in Reqs |-> "none"] /\ at = [r \in Reqs |-> "idle"]
  /\ \E a \in Apps : about = [r \in Reqs |-> a]
  /\ got = [r \in Reqs |-> Unread]
  /\ todo = [r \in Reqs |-> {}]

Step(r) ==
  \/ Lock(r) \/ Get(r) \/ GetEnvVars(r) \/ IsRunning(r) \/ Started(r)
  \/ Begin(r) \/ UpdateApp(r) \/ Wipe(r) \/ InsertApp(r) \/ InsertEnvVars(r)
  \/ Commit(r) \/ Rollback(r)
  \/ Delete(r) \/ List(r) \/ ListEnvVars(r) \/ ApplyEntry(r) \/ ApplyRootfs(r)

StoreNext ==
  \/ \E r \in Reqs, o \in Asked, a \in Apps : Call(r, o, a)
  \/ \E r \in Reqs : Step(r)
  \/ Crash

StoreSpec == StoreInit /\ [][StoreNext]_svars

(* database/sql serves those who wait for the connection in their order,   *)
(* and sync.Mutex does not starve a waiter: SF.                            *)
StoreFairSpec == StoreSpec /\ \A r \in Reqs : SF_svars(Step(r))

-----------------------------------------------------------------------------
(* Outside a transaction a row and its variables are of one and the same   *)
(* save, whatever edits, imports, deletes and crashes met, but for         *)
(* variables that an older row of the ID left behind                       *)
(* (store/apps.go:52, 90-97).                                              *)
EnvMatches ==
  conn = None => \A a \in Apps :
    db.row[a] # Absent => db.env[a] \ {"left"} = {db.row[a].form}

(* rootfs_path is what the last pull or prune of this row wrote: a form    *)
(* that was read before and saved after does not take it back              *)
(* (store/apps.go:76-80).                                                  *)
RootfsAsPulled ==
  \A a \in Apps : db.row[a] # Absent => db.row[a].rootfs = db.path[a]

(* What a reader finds who waits for the open transaction to end as it     *)
(* would if the server died now: the tables as last committed.             *)
Committed == IF conn = None THEN db ELSE undo

Visible(d) ==
  [a \in Apps |->
     IF d.row[a] = Absent THEN Absent
     ELSE [form |-> d.row[a].form, vars |-> d.env[a] \ {"left"},
           entry |-> d.row[a].entry, rootfs |-> d.row[a].rootfs]]

Atomic == INSTANCE AtomicStore WITH Saves <- Reqs, saved <- Visible(Committed)

(* Every call that writes is atomic, in spite of its statements, of the    *)
(* calls that wait between them and of crashes (store/apps.go:31-57,       *)
(* 70-100).                                                                *)
CallsAreAtomic == Atomic!AtomicSpec

(* An import changes no row that is there, even one that appeared after    *)
(* its look: "Apps with existing IDs are skipped" (import.go:27).          *)
ImportKeepsRows ==
  [][\A r \in Reqs, a \in Apps :
       (conn = r /\ job[r] = "import" /\ db.row[a] # Absent)
         => db'.row[a] \in {db.row[a], Absent}]_svars

(* Every call returns: nobody who has the connection waits for another     *)
(* connection or for the mutex (store/apps.go:174-191).                    *)
CallsReturn == \A r \in Reqs : job[r] # "none" ~> job[r] = "none"

-----------------------------------------------------------------------------
(* "Apply image config defaults only when the user has no manual override" *)
(* (apps.go:180): a pull leaves an entrypoint the user has set.            *)
OverrideKept ==
  [][\A r \in Reqs : ApplyEntry(r) =>
       (db.row[about[r]] # Absent /\ db.row[about[r]].entry = "user"
          => db'.row[about[r]].entry = "user")]_svars
=============================================================================
