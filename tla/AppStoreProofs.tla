---------------------------- MODULE AppStoreProofs ----------------------------
(* What the two tables say about each other, for any number of apps and of *)
(* requests, and what an import leaves alone.                              *)
EXTENDS AppStore, TLAPS

InTransaction == {"row", "wipe", "env", "commit", "rollback"}

(* Which calls can be where.                                               *)
Where ==
  \A r \in Reqs :
    /\ at[r] = "lock" => job[r] = "start"
    /\ at[r] \in {"get", "getenv"}
         => job[r] \in {"edit", "delete", "pull", "start", "import"}
    /\ at[r] \in {"begin"} \cup InTransaction => job[r] \in {"edit", "import"}
    /\ at[r] = "wipe" => job[r] = "edit"

(* A row, its variables and the last word on its path are of one save.     *)
RowGood(d, a) ==
  IF d.row[a] = Absent THEN d.env[a] \subseteq {"left"}
  ELSE d.env[a] \ {"left"} = {d.row[a].form}

PathGood(d, a) == d.row[a] # Absent => d.row[a].rootfs = d.path[a]

Good(d) == \A a \in Apps : RowGood(d, a) /\ PathGood(d, a)

(* The app of the open transaction is half done, the others are as before. *)
HalfDone(r, a) ==
  /\ PathGood(db, a)
  /\ undo.row[a] \in {db.row[a], Absent} \/ job[r] = "edit"
  /\ at[r] = "row" => db = undo
  /\ at[r] = "wipe" => db.row[a] = Absent \/ db.row[a].form = r
  /\ at[r] = "env" => /\ db.env[a] \subseteq {"left"}
                      /\ db.row[a] = Absent \/ db.row[a].form = r
  /\ at[r] = "commit" => RowGood(db, a)

Transactions ==
  /\ \A r \in Reqs : at[r] \in InTransaction <=> conn = r
  /\ conn = None => Good(db)
  /\ conn # None =>
       /\ Good(undo)
       /\ HalfDone(conn, about[conn])
       /\ \A b \in Apps \ {about[conn]} :
            /\ db.row[b] = undo.row[b]
            /\ db.env[b] = undo.env[b]
            /\ db.path[b] = undo.path[b]

StoreInv == StoreTypeOK /\ Where /\ Transactions

LEMMA RowIsThere ==
  ASSUME NEW f \in Forms, NEW e \in Entries, NEW rootfs \in BOOLEAN
  PROVE  [form |-> f, entry |-> e, rootfs |-> rootfs] # Absent
<1>1. [form |-> f, entry |-> e, rootfs |-> rootfs] \in Rows
  BY DEF Rows
<1> QED
  BY <1>1, AppStoreAssumption

LEMMA StoreInitInv == StoreInit => StoreInv
<1> SUFFICES ASSUME StoreInit PROVE StoreInv
  OBVIOUS
<1> USE AppStoreAssumption DEF StoreInit, OldRow, Unread
<1>1. StoreTypeOK
  BY DEF StoreTypeOK, Tables, Rows, Read, Forms, Entries, Labels
<1>2. Where
  BY DEF Where, InTransaction
<1>3. Good(db)
  <2> PICK there \in SUBSET Apps :
        db = [row |-> [a \in Apps |-> IF a \in there THEN OldRow ELSE Absent],
              env |-> [a \in Apps |-> IF a \in there THEN {"old"} ELSE {}],
              path |-> [a \in Apps |-> FALSE]]
    OBVIOUS
  <2> OldRow # Absent
    BY RowIsThere DEF Forms, Entries
  <2> SUFFICES ASSUME NEW a \in Apps PROVE RowGood(db, a) /\ PathGood(db, a)
    BY DEF Good
  <2>1. /\ db.row[a] = IF a \in there THEN OldRow ELSE Absent
        /\ db.env[a] = IF a \in there THEN {"old"} ELSE {}
        /\ db.path[a] = FALSE
    OBVIOUS
  <2>2. CASE a \in there
    <3>1. {"old"} \ {"left"} = {"old"}
      OBVIOUS
    <3> QED
      BY <2>1, <2>2, <3>1 DEF RowGood, PathGood
  <2>3. CASE a \notin there
    BY <2>1, <2>3 DEF RowGood, PathGood
  <2> QED
    BY <2>2, <2>3
<1>4. Transactions
  BY <1>3 DEF Transactions, InTransaction
<1> QED
  BY <1>1, <1>2, <1>4 DEF StoreInv

(* A step of a request outside transactions that leaves the tables alone   *)
(* and comes to no transaction.                                            *)
LEMMA QuietStep ==
  ASSUME StoreInv, NEW r \in Reqs, at[r] \notin InTransaction,
         UNCHANGED <<db, fk, undo, conn>>,
         at' = [at EXCEPT ![r] = at'[r]], at'[r] \notin InTransaction,
         \A q \in Reqs \ {r} : job'[q] = job[q] /\ about'[q] = about[q]
  PROVE  Transactions'
<1> USE DEF StoreInv, StoreTypeOK
<1>1. conn # r
  BY DEF Transactions
<1>2. conn # None => conn \in Reqs \ {r}
  BY <1>1
<1>3. \A q \in Reqs : at'[q] \in InTransaction <=> conn' = q
  BY <1>1 DEF Transactions
<1>4. conn # None => HalfDone(conn, about[conn])' = HalfDone(conn, about[conn])
  BY <1>2 DEF HalfDone, RowGood, PathGood
<1> QED
  BY <1>2, <1>3, <1>4 DEF Transactions, Good, RowGood, PathGood

LEMMA CallStep ==
  ASSUME StoreInv, NEW r \in Reqs, NEW o \in Asked, NEW a \in Apps,
         Call(r, o, a)
  PROVE  StoreInv'
<1> USE AppStoreAssumption
<1> o \in Calls
  OBVIOUS
<1>1. StoreTypeOK'
  BY DEF StoreInv, StoreTypeOK, Call, First, Calls, Labels
<1>2. Where'
  BY DEF StoreInv, StoreTypeOK, Where, Call, First, Calls, InTransaction
<1>3. at[r] \notin InTransaction /\ at'[r] \notin InTransaction
  BY DEF StoreInv, StoreTypeOK, Where, Call, First, InTransaction
<1> QED
  BY <1>1, <1>2, <1>3, QuietStep DEF StoreInv, StoreTypeOK, Call

LEMMA QuietSteps ==
  ASSUME StoreInv, NEW r \in Reqs,
         \/ Lock(r) \/ Get(r) \/ GetEnvVars(r) \/ IsRunning(r) \/ Started(r)
         \/ List(r) \/ ListEnvVars(r)
  PROVE  StoreInv'
<1> USE AppStoreAssumption
    DEF StoreInv, StoreTypeOK, At, Go, Unlock, Statement, CloseRows
<1>1. CASE Lock(r)
  <2>1. StoreTypeOK'
    BY <1>1 DEF Lock, Labels
  <2>2. Where'
    BY <1>1 DEF Where, Lock, InTransaction
  <2>3. at[r] \notin InTransaction /\ at'[r] \notin InTransaction
    BY <1>1 DEF Lock, InTransaction
  <2> QED
    BY <1>1, <2>1, <2>2, <2>3, QuietStep DEF Lock
<1>2. CASE Get(r)
  <2>1. StoreTypeOK'
    <3> DEFINE row == db.row[about[r]]
    <3>1. mu' \in Reqs \cup {None}
      BY <1>2 DEF Get
    <3>2. CASE row # Absent
      <4>1. [entry |-> row.entry, rootfs |-> row.rootfs] \in Read
        <5>1. row \in Rows
          BY <3>2 DEF Tables
        <5> QED
          BY <5>1 DEF Rows, Read
      <4>2. Unread \in Read
        BY DEF Unread, Read, Entries
      <4>3. at' \in [Reqs -> Labels] /\ got' \in [Reqs -> Read]
        BY <1>2, <3>2, <4>1, <4>2 DEF Get, Labels
      <4> QED
        BY <1>2, <3>1, <3>2, <4>3 DEF Get
    <3>3. CASE row = Absent
      <4>1. PICK l \in {"begin", "idle"} : Go(r, l)
        BY <1>2, <3>3 DEF Get
      <4>2. Unread \in Read
        BY DEF Unread, Read, Entries
      <4>3. /\ at' \in [Reqs -> Labels] /\ got' \in [Reqs -> Read]
            /\ job' \in [Reqs -> Calls \cup {"none"}]
            /\ UNCHANGED <<about, todo>>
        BY <4>1, <4>2 DEF Labels
      <4> QED
        BY <1>2, <3>1, <4>3 DEF Get
    <3> QED
      BY <3>2, <3>3
  <2>2. Where'
    BY <1>2 DEF Where, Get, InTransaction
  <2>3. at[r] \notin InTransaction /\ at'[r] \notin InTransaction
    BY <1>2 DEF Get, InTransaction
  <2> QED
    BY <1>2, <2>1, <2>2, <2>3, QuietStep DEF Get
<1>3. CASE GetEnvVars(r)
  <2>1. /\ AfterGet(r) \in Labels \ InTransaction
        /\ AfterGet(r) \notin {"lock", "get", "getenv", "wipe"}
        /\ AfterGet(r) = "begin" => job[r] = "edit"
    BY <1>3 DEF GetEnvVars, AfterGet, Where, Labels, InTransaction
  <2>2. StoreTypeOK'
    BY <1>3, <2>1 DEF GetEnvVars, Unread, Read, Entries
  <2>3. Where'
    BY <1>3, <2>1 DEF Where, GetEnvVars, InTransaction
  <2>4. at[r] \notin InTransaction /\ at'[r] \notin InTransaction
    BY <1>3, <2>1 DEF GetEnvVars, InTransaction
  <2> QED
    BY <1>3, <2>2, <2>3, <2>4, QuietStep DEF GetEnvVars
<1>4. CASE IsRunning(r)
  <2>1. PICK l \in {"delete", "entry", "rootfs", "idle"} : Go(r, l)
    BY <1>4 DEF IsRunning
  <2>2. StoreTypeOK'
    BY <1>4, <2>1 DEF IsRunning, Unread, Read, Entries, Labels
  <2>3. Where'
    BY <1>4, <2>1 DEF Where, IsRunning, InTransaction
  <2>4. at[r] \notin InTransaction /\ at'[r] \notin InTransaction
    BY <1>4, <2>1 DEF IsRunning, InTransaction
  <2> QED
    BY <1>4, <2>1, <2>2, <2>3, <2>4, QuietStep DEF IsRunning
<1>5. CASE Started(r)
  <2>1. StoreTypeOK'
    BY <1>5 DEF Started, Unread, Read, Entries, Labels
  <2>2. Where'
    BY <1>5 DEF Where, Started, InTransaction
  <2>3. at[r] \notin InTransaction /\ at'[r] \notin InTransaction
    BY <1>5 DEF Started, InTransaction
  <2> QED
    BY <1>5, <2>1, <2>2, <2>3, QuietStep DEF Started
<1>6. CASE List(r)
  <2>1. StoreTypeOK'
    BY <1>6 DEF List, Labels
  <2>2. Where'
    BY <1>6 DEF Where, List, InTransaction
  <2>3. at[r] \notin InTransaction /\ at'[r] \notin InTransaction
    BY <1>6 DEF List, InTransaction
  <2> QED
    BY <1>6, <2>1, <2>2, <2>3, QuietStep DEF List
<1>7. CASE ListEnvVars(r)
  <2>1. StoreTypeOK'
    <3>1. CASE todo[r] = {}
      <4>1. Go(r, "idle")
        BY <1>7, <3>1 DEF ListEnvVars
      <4>2. Unread \in Read
        BY DEF Unread, Read, Entries
      <4>3. /\ at' \in [Reqs -> Labels] /\ got' \in [Reqs -> Read]
            /\ job' \in [Reqs -> Calls \cup {"none"}]
            /\ UNCHANGED <<about, todo>>
        BY <4>1, <4>2 DEF Labels
      <4> QED
        BY <1>7, <4>3 DEF ListEnvVars
    <3>2. CASE todo[r] # {}
      <4>1. PICK a \in todo[r] : todo' = [todo EXCEPT ![r] = @ \ {a}]
        BY <1>7, <3>2 DEF ListEnvVars
      <4>2. todo' \in [Reqs -> SUBSET Apps]
        BY <4>1
      <4> QED
        BY <1>7, <3>2, <4>2 DEF ListEnvVars
    <3> QED
      BY <3>1, <3>2
  <2>2. Where'
    BY <1>7 DEF Where, ListEnvVars, InTransaction
  <2>3. at[r] \notin InTransaction /\ at'[r] \notin InTransaction
    BY <1>7 DEF ListEnvVars, InTransaction
  <2> QED
    BY <1>7, <2>1, <2>2, <2>3, QuietStep DEF ListEnvVars
<1> QED
  BY <1>1, <1>2, <1>3, <1>4, <1>5, <1>6, <1>7

-----------------------------------------------------------------------------
(* What a statement leaves of the tables.                                  *)

LEMMA SetRowTables ==
  ASSUME db \in Tables, NEW a \in Apps, NEW row \in Rows
  PROVE  /\ SetRow(a, row) \in Tables
         /\ SetRow(a, row).env = db.env
         /\ SetRow(a, row).path = db.path
         /\ SetRow(a, row).row[a] = IF db.row[a] = Absent THEN Absent ELSE row
         /\ \A b \in Apps \ {a} : SetRow(a, row).row[b] = db.row[b]
<1>1. db = [row |-> db.row, env |-> db.env, path |-> db.path]
  BY DEF Tables
<1>2. SetRow(a, row) =
        [row |-> [db.row EXCEPT ![a] = IF @ = Absent THEN Absent ELSE row],
         env |-> db.env, path |-> db.path]
  BY <1>1 DEF SetRow, Tables
<1> QED
  BY <1>1, <1>2 DEF Tables

(* A statement outside transactions.                                       *)
LEMMA OwnStep ==
  ASSUME StoreInv, NEW r \in Reqs, at[r] \notin InTransaction,
         conn = None, UNCHANGED conn, Good(db'),
         at' = [at EXCEPT ![r] = at'[r]], at'[r] \notin InTransaction
  PROVE  Transactions'
<1> USE AppStoreAssumption DEF StoreInv, StoreTypeOK, Transactions
<1>1. \A q \in Reqs : at'[q] \in InTransaction <=> conn' = q
  OBVIOUS
<1>2. Good(db)'
  BY DEF Good, RowGood, PathGood
<1> QED
  BY <1>1, <1>2

(* A statement of the open transaction.                                    *)
LEMMA TransactionStep ==
  ASSUME StoreInv, NEW r \in Reqs, at[r] \in InTransaction,
         UNCHANGED <<undo, conn, about>>,
         at' = [at EXCEPT ![r] = at'[r]], at'[r] \in InTransaction,
         HalfDone(r, about[r])',
         \A b \in Apps \ {about[r]} : /\ db'.row[b] = db.row[b]
                                      /\ db'.env[b] = db.env[b]
                                      /\ db'.path[b] = db.path[b]
  PROVE  Transactions'
<1> USE AppStoreAssumption DEF StoreInv, StoreTypeOK
<1>1. conn = r /\ conn' = r /\ conn # None
  BY DEF Transactions
<1>2. \A q \in Reqs : at'[q] \in InTransaction <=> conn' = q
  BY <1>1 DEF Transactions
<1>3. Good(undo)'
  BY <1>1 DEF Transactions, Good, RowGood, PathGood
<1> QED
  BY <1>1, <1>2, <1>3 DEF Transactions

(* The types that a step to another label keeps.                           *)
LEMMA GoTypes ==
  ASSUME StoreTypeOK, NEW r \in Reqs, NEW l \in Labels, Go(r, l)
  PROVE  /\ at' \in [Reqs -> Labels] /\ at'[r] = l
         /\ at' = [at EXCEPT ![r] = at'[r]]
         /\ job' \in [Reqs -> Calls \cup {"none"}]
         /\ l # "idle" => job' = job
         /\ about' \in [Reqs -> Apps]
         /\ got' \in [Reqs -> Read]
         /\ todo' \in [Reqs -> SUBSET Apps]
<1>1. Unread \in Read
  BY DEF Unread, Read, Entries
<1> QED
  BY <1>1 DEF StoreTypeOK, Go

LEMMA GoWhere ==
  ASSUME StoreTypeOK, Where, NEW r \in Reqs, NEW l \in Labels, Go(r, l),
         l \notin {"lock", "get", "getenv", "begin"},
         l \in InTransaction => job[r] \in {"edit", "import"},
         l = "wipe" => job[r] = "edit"
  PROVE  Where'
BY DEF StoreTypeOK, Where, Go, InTransaction

LEMMA DeleteStep ==
  ASSUME StoreInv, NEW r \in Reqs, Delete(r)
  PROVE  StoreInv'
<1> DEFINE a == about[r]
<1> USE DEF StoreInv
<1>1. Go(r, "idle") /\ "idle" \in Labels
  BY DEF Delete, Labels
<1>2. /\ db' = [row |-> [db.row EXCEPT ![a] = Absent],
                env |-> [db.env EXCEPT ![a] =
                           IF fk \/ @ = {} THEN {} ELSE {"left"}],
                path |-> db.path]
      /\ a \in Apps
  BY DEF Delete, DeleteRow, StoreTypeOK, Tables
<1>3. db' \in Tables
  BY <1>2 DEF StoreTypeOK, Tables
<1>4. Good(db')
  <2> SUFFICES ASSUME NEW b \in Apps
               PROVE  RowGood(db', b) /\ PathGood(db', b)
    BY DEF Good
  <2>1. CASE b = a
    <3>1. db'.row[b] = Absent /\ db'.env[b] \subseteq {"left"}
      BY <1>2, <2>1 DEF StoreTypeOK, Tables
    <3> QED
      BY <3>1 DEF RowGood, PathGood
  <2>2. CASE b # a
    <3>1. /\ db'.row[b] = db.row[b] /\ db'.env[b] = db.env[b]
          /\ db'.path[b] = db.path[b]
      BY <1>2, <2>2 DEF StoreTypeOK, Tables
    <3>2. RowGood(db, b) /\ PathGood(db, b)
      BY DEF Delete, Statement, Transactions, Good
    <3> QED
      BY <3>1, <3>2 DEF RowGood, PathGood
  <2> QED
    BY <2>1, <2>2
<1>5. StoreTypeOK'
  BY <1>1, <1>3, GoTypes DEF StoreTypeOK, Delete, Statement
<1>6. Where'
  BY <1>1, GoWhere DEF InTransaction
<1>7. Transactions'
  BY <1>1, <1>4, GoTypes, OwnStep DEF Delete, Statement, At, InTransaction
<1> QED
  BY <1>5, <1>6, <1>7

(* An UPDATE that touches neither the form nor, but for its path, the      *)
(* rootfs of a row.                                                        *)
LEMMA UpdateGood ==
  ASSUME db \in Tables, Good(db), NEW a \in Apps, NEW row \in Rows,
         db.row[a] # Absent => row.form = db.row[a].form,
         NEW d \in Tables, d.row = SetRow(a, row).row, d.env = db.env,
         \A b \in Apps \ {a} : d.path[b] = db.path[b],
         db.row[a] # Absent => d.path[a] = row.rootfs
  PROVE  Good(d)
<1>1. row # Absent
  BY AppStoreAssumption
<1> SUFFICES ASSUME NEW b \in Apps PROVE RowGood(d, b) /\ PathGood(d, b)
  BY DEF Good
<1>2. RowGood(db, b) /\ PathGood(db, b)
  BY DEF Good
<1>3. CASE b = a /\ db.row[a] # Absent
  <2>1. d.row[b] = row
    BY <1>3, SetRowTables
  <2> QED
    BY <1>1, <1>2, <1>3, <2>1 DEF RowGood, PathGood
<1>4. CASE b = a /\ db.row[a] = Absent
  <2>1. d.row[b] = Absent
    BY <1>4, SetRowTables
  <2> QED
    BY <1>2, <1>4, <2>1 DEF RowGood, PathGood
<1>5. CASE b # a
  <2>1. d.row[b] = db.row[b]
    BY <1>5, SetRowTables
  <2> QED
    BY <1>2, <1>5, <2>1 DEF RowGood, PathGood
<1> QED
  BY <1>3, <1>4, <1>5

LEMMA SetNoRow ==
  ASSUME db \in Tables, NEW a \in Apps, db.row[a] = Absent, NEW row
  PROVE  SetRow(a, row) = db
<1>1. db = [row |-> db.row, env |-> db.env, path |-> db.path]
  BY DEF Tables
<1>2. SetRow(a, row) =
        [row |-> [db.row EXCEPT ![a] = IF @ = Absent THEN Absent ELSE row],
         env |-> db.env, path |-> db.path]
  BY <1>1 DEF SetRow, Tables
<1>3. [db.row EXCEPT ![a] = IF @ = Absent THEN Absent ELSE row] = db.row
  BY DEF Tables
<1> QED
  BY <1>1, <1>2, <1>3

LEMMA ApplyEntryStep ==
  ASSUME StoreInv, NEW r \in Reqs, ApplyEntry(r)
  PROVE  StoreInv'
<1> DEFINE a == about[r]
<1> USE DEF StoreInv
<1>1. Go(r, "rootfs") /\ "rootfs" \in Labels
  BY DEF ApplyEntry, Labels
<1>2. a \in Apps /\ db \in Tables /\ Good(db)
  BY DEF StoreTypeOK, ApplyEntry, Statement, Transactions
<1>3. db' \in Tables /\ Good(db')
  <2>1. CASE db' = db
    BY <1>2, <2>1
  <2>2. CASE db' = UpdateEntrypointCmd(a) /\ db.row[a] = Absent
    BY <1>2, <2>2, SetNoRow DEF UpdateEntrypointCmd
  <2>3. CASE db' = UpdateEntrypointCmd(a) /\ db.row[a] # Absent
    <3> DEFINE row == [db.row[a] EXCEPT !.entry = "image"]
    <3>1. db.row[a] \in Rows
      BY <1>2, <2>3 DEF Tables
    <3>2. /\ row \in Rows /\ row.form = db.row[a].form
          /\ row.rootfs = db.row[a].rootfs
      BY <3>1 DEF Rows, Entries
    <3>3. PathGood(db, a)
      BY <1>2 DEF Good
    <3>4. db.path[a] = row.rootfs
      BY <2>3, <3>2, <3>3 DEF PathGood
    <3>5. db' = SetRow(a, row)
      BY <2>3 DEF UpdateEntrypointCmd
    <3> HIDE DEF row
    <3>6. /\ db' \in Tables /\ db'.env = db.env
          /\ \A b \in Apps : db'.path[b] = db.path[b]
      BY <1>2, <3>2, <3>5, SetRowTables
    <3> QED
      BY <1>2, <3>2, <3>4, <3>5, <3>6, UpdateGood
  <2> QED
    BY <2>1, <2>2, <2>3 DEF ApplyEntry
<1>4. StoreTypeOK'
  BY <1>1, <1>3, GoTypes DEF StoreTypeOK, ApplyEntry, Statement
<1>5. Where'
  BY <1>1, GoWhere DEF InTransaction
<1>6. Transactions'
  BY <1>1, <1>3, GoTypes, OwnStep DEF ApplyEntry, Statement, At, InTransaction
<1> QED
  BY <1>4, <1>5, <1>6

LEMMA ApplyRootfsStep ==
  ASSUME StoreInv, NEW r \in Reqs, ApplyRootfs(r)
  PROVE  StoreInv'
<1> DEFINE a == about[r]
           set == job[r] = "pull"
<1> USE DEF StoreInv
<1>1. Go(r, "idle") /\ "idle" \in Labels
  BY DEF ApplyRootfs, Labels
<1>2. a \in Apps /\ db \in Tables /\ Good(db) /\ set \in BOOLEAN
  BY DEF StoreTypeOK, ApplyRootfs, Statement, Transactions
<1>3. db' = [SetRow(a, [db.row[a] EXCEPT !.rootfs = set])
               EXCEPT !.path[a] = set /\ db.row[a] # Absent]
  BY DEF ApplyRootfs, UpdateRootfsPath
<1> HIDE DEF a, set
<1>4. db' \in Tables /\ Good(db')
  <2>1. CASE db.row[a] = Absent
    <3>1. db' = [db EXCEPT !.path[a] = set /\ db.row[a] # Absent]
      BY <1>2, <1>3, <2>1, SetNoRow
    <3>2. db' = [row |-> db.row, env |-> db.env,
                 path |-> [db.path EXCEPT ![a] = set /\ db.row[a] # Absent]]
      BY <1>2, <3>1 DEF Tables
    <3>3. db' \in Tables
      BY <1>2, <3>2 DEF Tables
    <3>4. \A b \in Apps : /\ db'.row[b] = db.row[b] /\ db'.env[b] = db.env[b]
                          /\ b # a => db'.path[b] = db.path[b]
      BY <1>2, <3>2 DEF Tables
    <3>5. ASSUME NEW b \in Apps PROVE RowGood(db', b) /\ PathGood(db', b)
      <4>1. RowGood(db, b) /\ PathGood(db, b)
        BY <1>2 DEF Good
      <4> QED
        BY <2>1, <3>4, <4>1 DEF RowGood, PathGood
    <3> QED
      BY <3>3, <3>5 DEF Good
  <2>2. CASE db.row[a] # Absent
    <3> DEFINE row == [db.row[a] EXCEPT !.rootfs = set]
               d == SetRow(a, row)
    <3>1. db.row[a] \in Rows
      BY <1>2, <2>2 DEF Tables
    <3>2. row \in Rows /\ row.form = db.row[a].form /\ row.rootfs = set
      BY <1>2, <3>1 DEF Rows
    <3>3. db' = [d EXCEPT !.path[a] = set /\ db.row[a] # Absent]
      BY <1>3
    <3> HIDE DEF row
    <3>4. d \in Tables /\ d.env = db.env /\ d.path = db.path
      BY <1>2, <3>2, SetRowTables
    <3> HIDE DEF d
    <3>5. db' = [row |-> d.row, env |-> d.env,
                 path |-> [d.path EXCEPT ![a] = set /\ db.row[a] # Absent]]
      BY <3>3, <3>4 DEF Tables
    <3>6. (set /\ db.row[a] # Absent) \in BOOLEAN
      BY <1>2
    <3>7. /\ db' \in Tables /\ db'.row = d.row /\ db'.env = db.env
          /\ \A b \in Apps \ {a} : db'.path[b] = db.path[b]
          /\ db'.path[a] = (set /\ db.row[a] # Absent)
      BY <1>2, <3>4, <3>5, <3>6 DEF Tables
    <3>8. db'.path[a] = row.rootfs
      BY <1>2, <2>2, <3>2, <3>7
    <3> QED
      BY <1>2, <3>2, <3>7, <3>8, UpdateGood DEF d
  <2> QED
    BY <2>1, <2>2
<1>5. StoreTypeOK'
  BY <1>1, <1>4, GoTypes DEF StoreTypeOK, ApplyRootfs, Statement
<1>6. Where'
  BY <1>1, GoWhere DEF InTransaction
<1>7. Transactions'
  BY <1>1, <1>4, GoTypes, OwnStep DEF ApplyRootfs, Statement, At, InTransaction
<1> QED
  BY <1>5, <1>6, <1>7

-----------------------------------------------------------------------------
(* Transactions, statement by statement.                                   *)

LEMMA BeginStep ==
  ASSUME StoreInv, NEW r \in Reqs, Begin(r)
  PROVE  StoreInv'
<1> USE DEF StoreInv
<1>1. Go(r, "row") /\ "row" \in Labels
  BY DEF Begin, Labels
<1>2. job[r] \in {"edit", "import"} /\ r # None
  BY AppStoreAssumption DEF Begin, Statement, At, Where
<1>3. StoreTypeOK'
  BY <1>1, <1>2, GoTypes DEF StoreTypeOK, Begin, Statement
<1>4. Where'
  BY <1>1, <1>2, GoWhere DEF InTransaction
<1>5. Transactions'
  <2>1. Good(db) /\ about[r] \in Apps /\ about' = about /\ db' = db
    BY DEF StoreTypeOK, Transactions, Begin, Statement, Go
  <2>2. Good(undo)'
    BY <2>1 DEF Begin, Good, RowGood, PathGood
  <2>3. HalfDone(r, about[r])'
    <3>1. PathGood(db, about[r])
      BY <2>1 DEF Good
    <3> QED
      BY <1>1, <2>1, <3>1, GoTypes DEF HalfDone, Begin, PathGood
  <2>4. \A q \in Reqs : at'[q] \in InTransaction <=> conn' = q
    BY <1>1, <1>2, GoTypes, AppStoreAssumption
    DEF Begin, Statement, Transactions, InTransaction, StoreTypeOK
  <2> QED
    BY <1>2, <2>1, <2>2, <2>3, <2>4 DEF Transactions, Begin
<1> QED
  BY <1>3, <1>4, <1>5

LEMMA UpdateAppStep ==
  ASSUME StoreInv, NEW r \in Reqs, UpdateApp(r)
  PROVE  StoreInv'
<1> DEFINE a == about[r]
<1> USE DEF StoreInv
<1>1. Go(r, "wipe") /\ "wipe" \in Labels
  BY DEF UpdateApp, Labels
<1>2. /\ a \in Apps /\ db \in Tables /\ conn = r /\ r # None
      /\ at[r] = "row" /\ HalfDone(r, a)
  BY AppStoreAssumption
  DEF StoreTypeOK, Transactions, UpdateApp, At, InTransaction
<1>3. PICK entry \in {"user", got[r].entry} :
        db' = UpdateRow(a, r, entry, got[r])
  BY DEF UpdateApp
<1>4. entry \in Entries
  BY DEF StoreTypeOK, Read, Entries
<1> HIDE DEF a
<1>5. /\ db' \in Tables /\ db'.env = db.env /\ db'.path = db.path
      /\ \A b \in Apps \ {a} : db'.row[b] = db.row[b]
      /\ PathGood(db', a)
      /\ db'.row[a] = Absent \/ db'.row[a].form = r
  <2>1. CASE db.row[a] = Absent
    <3>1. db' = db
      BY <1>2, <1>3, <2>1, SetNoRow DEF UpdateRow
    <3> QED
      BY <1>2, <2>1, <3>1 DEF PathGood
  <2>2. CASE db.row[a] # Absent
    <3> DEFINE row == [form |-> r, entry |-> entry, rootfs |-> db.row[a].rootfs]
    <3>1. db.row[a] \in Rows
      BY <1>2, <2>2 DEF Tables
    <3>2. row \in Rows /\ row.form = r /\ row.rootfs = db.row[a].rootfs
      BY <1>4, <3>1 DEF Rows, Forms
    <3>3. db' = SetRow(a, row)
      BY <1>3 DEF UpdateRow
    <3> HIDE DEF row
    <3>4. /\ db' \in Tables /\ db'.env = db.env /\ db'.path = db.path
          /\ db'.row[a] = row
          /\ \A b \in Apps \ {a} : db'.row[b] = db.row[b]
      BY <1>2, <2>2, <3>2, <3>3, SetRowTables
    <3>5. PathGood(db', a)
      BY <1>2, <2>2, <3>2, <3>4 DEF HalfDone, PathGood
    <3> QED
      BY <3>2, <3>4, <3>5
  <2> QED
    BY <2>1, <2>2
<1>6. StoreTypeOK'
  BY <1>1, <1>5, GoTypes DEF StoreTypeOK, UpdateApp
<1>7. Where'
  BY <1>1, GoWhere DEF InTransaction, UpdateApp
<1>8. HalfDone(r, a)'
  BY <1>1, <1>2, <1>5, GoTypes DEF HalfDone, UpdateApp, PathGood, a, Go
<1>9. Transactions'
  BY <1>1, <1>2, <1>5, <1>8, GoTypes, TransactionStep
  DEF UpdateApp, InTransaction, Go, a
<1> QED
  BY <1>6, <1>7, <1>9

LEMMA WipeStep ==
  ASSUME StoreInv, NEW r \in Reqs, Wipe(r)
  PROVE  StoreInv'
<1> DEFINE a == about[r]
<1> USE DEF StoreInv
<1>1. Go(r, "env") /\ "env" \in Labels
  BY DEF Wipe, Labels
<1>2. /\ a \in Apps /\ db \in Tables /\ conn = r /\ r # None
      /\ at[r] = "wipe" /\ HalfDone(r, a)
      /\ job[r] = "edit"
  BY AppStoreAssumption
  DEF StoreTypeOK, Transactions, Wipe, At, InTransaction, Where
<1> HIDE DEF a
<1>3. db' = [row |-> db.row, env |-> [db.env EXCEPT ![a] = {}],
             path |-> db.path]
  BY <1>2 DEF Wipe, WipeEnv, DeleteEnv, Tables, a
<1>4. /\ db' \in Tables /\ db'.row = db.row /\ db'.path = db.path
      /\ db'.env[a] = {} /\ \A b \in Apps \ {a} : db'.env[b] = db.env[b]
  BY <1>2, <1>3 DEF Tables
<1>5. StoreTypeOK'
  BY <1>1, <1>4, GoTypes DEF StoreTypeOK, Wipe
<1>6. Where'
  BY <1>1, <1>2, GoWhere DEF InTransaction
<1>7. HalfDone(r, a)'
  BY <1>1, <1>2, <1>4, GoTypes DEF HalfDone, Wipe, PathGood, a, Go
<1>8. Transactions'
  BY <1>1, <1>2, <1>4, <1>7, GoTypes, TransactionStep
  DEF Wipe, InTransaction, Go, a
<1> QED
  BY <1>5, <1>6, <1>8

LEMMA InsertAppStep ==
  ASSUME StoreInv, NEW r \in Reqs, InsertApp(r)
  PROVE  StoreInv'
<1> DEFINE a == about[r]
<1> USE DEF StoreInv
<1>1. /\ a \in Apps /\ db \in Tables /\ conn = r /\ r # None
      /\ at[r] = "row" /\ HalfDone(r, a) /\ db = undo /\ Good(db)
      /\ job[r] = "import"
  BY AppStoreAssumption
  DEF StoreTypeOK, Transactions, InsertApp, At, InTransaction, HalfDone
<1>2. CASE Conflicts(a)
  <2>1. Go(r, "rollback") /\ "rollback" \in Labels /\ UNCHANGED db
    BY <1>2 DEF InsertApp, Labels
  <2>2. StoreTypeOK'
    BY <2>1, GoTypes DEF StoreTypeOK, InsertApp
  <2>3. Where'
    BY <1>1, <2>1, GoWhere DEF InTransaction
  <2>4. HalfDone(r, a)'
    BY <1>1, <2>1, GoTypes DEF HalfDone, InsertApp, PathGood, Go
  <2>5. Transactions'
    BY <1>1, <2>1, <2>4, GoTypes, TransactionStep
    DEF InsertApp, InTransaction, Go
  <2> QED
    BY <2>2, <2>3, <2>5
<1>3. CASE ~Conflicts(a)
  <2>1. Go(r, "env") /\ "env" \in Labels
    BY <1>3 DEF InsertApp, Labels
  <2>2. PICK entry \in {"none", "user"} : db' = InsertRow(a, r, entry)
    BY <1>3 DEF InsertApp
  <2>3. db.row[a] = Absent
    BY <1>3 DEF Conflicts
  <2>4. about' = about /\ undo' = undo /\ conn' = conn /\ fk' = fk /\ mu' = mu
    BY <2>1 DEF Go, InsertApp
  <2> HIDE DEF a
  <2> DEFINE row == [form |-> r, entry |-> entry, rootfs |-> FALSE]
  <2>5. row \in Rows /\ row.form = r /\ row.rootfs = FALSE
    BY <2>2 DEF Rows, Forms, Entries
  <2>6. db' = [row |-> [db.row EXCEPT ![a] = row], env |-> db.env,
               path |-> [db.path EXCEPT ![a] = FALSE]]
    BY <1>1, <2>2 DEF InsertRow, Tables
  <2> HIDE DEF row
  <2>7. /\ db' \in Tables /\ db'.env = db.env
        /\ db'.row[a] = row /\ db'.path[a] = FALSE
        /\ \A b \in Apps \ {a} : /\ db'.row[b] = db.row[b]
                                 /\ db'.path[b] = db.path[b]
    BY <1>1, <2>5, <2>6 DEF Tables
  <2>8. db.env[a] \subseteq {"left"}
    BY <1>1, <2>3 DEF Good, RowGood
  <2>9. StoreTypeOK'
    BY <2>1, <2>4, <2>7, GoTypes DEF StoreTypeOK
  <2>10. Where'
    BY <1>1, <2>1, GoWhere DEF InTransaction
  <2>11. HalfDone(r, a)'
    <3>1. PathGood(db', a) /\ a' = a
      BY <2>4, <2>5, <2>7 DEF PathGood, a
    <3>2. PathGood(db, a)'
      BY <3>1 DEF PathGood
    <3>3. undo'.row[a] = Absent
      BY <1>1, <2>3, <2>4
    <3>4. at'[r] = "env"
      BY <2>1, GoTypes
    <3>5. db'.env[a] \subseteq {"left"} /\ db'.row[a].form = r
      BY <2>5, <2>7, <2>8
    <3> QED
      BY <3>1, <3>2, <3>3, <3>4, <3>5 DEF HalfDone
  <2>12. Transactions'
    BY <1>1, <2>1, <2>4, <2>7, <2>11, GoTypes, TransactionStep
    DEF InTransaction, a
  <2> QED
    BY <2>9, <2>10, <2>12
<1> QED
  BY <1>2, <1>3

LEMMA InsertEnvVarsStep ==
  ASSUME StoreInv, NEW r \in Reqs, InsertEnvVars(r)
  PROVE  StoreInv'
<1> DEFINE a == about[r]
           failed == fk /\ db.row[a] = Absent
<1> USE DEF StoreInv
<1>1. /\ a \in Apps /\ db \in Tables /\ conn = r /\ r # None
      /\ at[r] = "env" /\ HalfDone(r, a)
      /\ job[r] \in {"edit", "import"}
  BY AppStoreAssumption
  DEF StoreTypeOK, Transactions, InsertEnvVars, At, InTransaction, Where
<1>2. ASSUME failed PROVE StoreInv'
  <2>1. Go(r, "rollback") /\ "rollback" \in Labels /\ UNCHANGED db
    BY <1>2 DEF InsertEnvVars, Labels
  <2>2. StoreTypeOK'
    BY <2>1, GoTypes DEF StoreTypeOK, InsertEnvVars
  <2>3. Where'
    BY <1>1, <2>1, GoWhere DEF InTransaction
  <2>4. HalfDone(r, a)'
    BY <1>1, <2>1, GoTypes DEF HalfDone, InsertEnvVars, PathGood, Go
  <2>5. Transactions'
    BY <1>1, <2>1, <2>4, GoTypes, TransactionStep
    DEF InsertEnvVars, InTransaction, Go
  <2> QED
    BY <2>2, <2>3, <2>5
<1>3. ASSUME ~failed PROVE StoreInv'
  <2>1. Go(r, "commit") /\ "commit" \in Labels /\ db' = InsertEnv(a, r)
    BY <1>3 DEF InsertEnvVars, Labels
  <2>2. about' = about /\ undo' = undo /\ conn' = conn /\ fk' = fk /\ mu' = mu
    BY <2>1 DEF Go, InsertEnvVars
  <2> HIDE DEF a, failed
  <2> DEFINE saved == IF db.row[a] = Absent THEN "left" ELSE r
  <2>3. /\ saved \in Forms \cup {"left"}
        /\ db.row[a] = Absent => saved = "left"
        /\ db.row[a] # Absent => saved = r
    BY DEF Forms
  <2>4. db' = [row |-> db.row, path |-> db.path,
               env |-> [db.env EXCEPT ![a] = @ \cup {saved}]]
    BY <1>1, <2>1 DEF InsertEnv, Tables
  <2> HIDE DEF saved
  <2>5. /\ db' \in Tables /\ db'.row = db.row /\ db'.path = db.path
        /\ db'.env[a] = db.env[a] \cup {saved}
        /\ \A b \in Apps \ {a} : db'.env[b] = db.env[b]
    BY <1>1, <2>3, <2>4 DEF Tables
  <2>6. RowGood(db', a)
    <3>1. /\ db.env[a] \subseteq {"left"}
          /\ db.row[a] = Absent \/ db.row[a].form = r
      BY <1>1 DEF HalfDone
    <3> QED
      BY <2>3, <2>5, <3>1, AppStoreAssumption DEF RowGood
  <2>7. StoreTypeOK'
    BY <2>1, <2>2, <2>5, GoTypes DEF StoreTypeOK
  <2>8. Where'
    BY <1>1, <2>1, GoWhere DEF InTransaction
  <2>9. HalfDone(r, a)'
    <3>1. RowGood(db, a)'
      BY <2>2, <2>6 DEF RowGood, a
    <3>2. a' = a
      BY <2>2 DEF a
    <3> QED
      BY <1>1, <2>1, <2>2, <2>5, <3>1, <3>2, GoTypes DEF HalfDone, PathGood
  <2>10. Transactions'
    BY <1>1, <2>1, <2>2, <2>5, <2>9, GoTypes, TransactionStep
    DEF InTransaction, a
  <2> QED
    BY <2>7, <2>8, <2>10
<1> QED
  BY <1>2, <1>3

(* The transaction ends: the tables are those of the good state it comes   *)
(* to.                                                                     *)
LEMMA EndStep ==
  ASSUME StoreInv, NEW r \in Reqs, conn = r, at[r] \in InTransaction,
         Go(r, "idle"), conn' = None, undo' = None,
         UNCHANGED <<fk, mu>>, db' \in Tables, Good(db')
  PROVE  StoreInv'
<1> USE DEF StoreInv
<1>1. "idle" \in Labels
  BY DEF Labels
<1>2. StoreTypeOK'
  BY <1>1, GoTypes DEF StoreTypeOK
<1>3. Where'
  BY <1>1, GoWhere DEF InTransaction
<1>4. \A q \in Reqs : at'[q] \in InTransaction <=> conn' = q
  BY <1>1, GoTypes, AppStoreAssumption
  DEF StoreTypeOK, Transactions, InTransaction
<1>5. Good(db)'
  BY DEF Good, RowGood, PathGood
<1>6. Transactions'
  BY <1>4, <1>5 DEF Transactions
<1> QED
  BY <1>2, <1>3, <1>6

LEMMA CommitStep ==
  ASSUME StoreInv, NEW r \in Reqs, Commit(r)
  PROVE  StoreInv'
<1> USE DEF StoreInv
<1>1. /\ conn = r /\ r # None /\ at[r] = "commit" /\ at[r] \in InTransaction
      /\ db \in Tables
  BY AppStoreAssumption
  DEF StoreTypeOK, Transactions, Commit, At, InTransaction
<1>2. Good(db)
  <2> SUFFICES ASSUME NEW b \in Apps
               PROVE  RowGood(db, b) /\ PathGood(db, b)
    BY DEF Good
  <2>1. CASE b = about[r]
    BY <1>1, <2>1 DEF Transactions, HalfDone
  <2>2. CASE b # about[r]
    BY <1>1, <2>2 DEF Transactions, Good, RowGood, PathGood
  <2> QED
    BY <2>1, <2>2
<1>3. db' = db
  BY DEF Commit
<1> QED
  BY <1>1, <1>2, <1>3, EndStep DEF Commit

LEMMA RollbackStep ==
  ASSUME StoreInv, NEW r \in Reqs, Rollback(r)
  PROVE  StoreInv'
<1>1. /\ conn = r /\ r # None /\ at[r] \in InTransaction
      /\ undo \in Tables /\ Good(undo)
  BY AppStoreAssumption
  DEF StoreInv, StoreTypeOK, Transactions, Rollback, At, InTransaction
<1> QED
  BY <1>1, EndStep DEF Rollback

LEMMA CrashStep ==
  ASSUME StoreInv, Crash
  PROVE  StoreInv'
<1> USE DEF StoreInv
<1>1. db' \in Tables /\ Good(db')
  BY DEF StoreTypeOK, Transactions, Crash, Recovered
<1>2. Unread \in Read
  BY DEF Unread, Read, Entries
<1>3. StoreTypeOK'
  BY <1>1, <1>2 DEF StoreTypeOK, Crash, Labels
<1>4. Where'
  BY DEF Where, Crash, InTransaction
<1>5. \A q \in Reqs : at'[q] \in InTransaction <=> conn' = q
  BY AppStoreAssumption DEF Crash, InTransaction
<1>6. Good(db)'
  BY <1>1 DEF Good, RowGood, PathGood
<1>7. Transactions'
  BY <1>5, <1>6 DEF Transactions, Crash
<1> QED
  BY <1>3, <1>4, <1>7

-----------------------------------------------------------------------------
LEMMA StoreNextInv == StoreInv /\ [StoreNext]_svars => StoreInv'
<1> SUFFICES ASSUME StoreInv, [StoreNext]_svars PROVE StoreInv'
  OBVIOUS
<1>1. CASE StoreNext
  <2>1. ASSUME NEW r \in Reqs, NEW o \in Asked, NEW a \in Apps, Call(r, o, a)
        PROVE  StoreInv'
    BY <2>1, CallStep
  <2>2. ASSUME NEW r \in Reqs, Step(r) PROVE StoreInv'
    BY <2>2, QuietSteps, BeginStep, UpdateAppStep, WipeStep, InsertAppStep,
       InsertEnvVarsStep, CommitStep, RollbackStep, DeleteStep,
       ApplyEntryStep, ApplyRootfsStep
    DEF Step
  <2>3. CASE Crash
    BY <2>3, CrashStep
  <2> QED
    BY <1>1, <2>1, <2>2, <2>3 DEF StoreNext
<1>2. CASE UNCHANGED svars
  BY <1>2 DEF StoreInv, StoreTypeOK, Where, Transactions, HalfDone, Good,
              RowGood, PathGood, svars, request
<1> QED
  BY <1>1, <1>2

LEMMA StoreAlways == StoreSpec => []StoreInv
BY StoreInitInv, StoreNextInv, PTL DEF StoreSpec

(* The statements of all the requests keep to their types, and rollbacks   *)
(* have whole tables to go back to.                                        *)
THEOREM StoreTypes == StoreSpec => []StoreTypeOK
<1>1. StoreInv => StoreTypeOK
  BY DEF StoreInv
<1> QED
  BY <1>1, StoreAlways, PTL

(* Rows and their variables are of one save whenever no transaction is     *)
(* open (store/apps.go:52, 90-97).                                         *)
THEOREM EnvOfOneSave == StoreSpec => []EnvMatches
<1>1. StoreInv => EnvMatches
  <2> SUFFICES ASSUME StoreInv, conn = None, NEW a \in Apps,
                      db.row[a] # Absent
               PROVE  db.env[a] \ {"left"} = {db.row[a].form}
    BY DEF EnvMatches
  <2> QED
    BY DEF StoreInv, Transactions, Good, RowGood
<1> QED
  BY <1>1, StoreAlways, PTL

(* No save takes a pulled path back (store/apps.go:76-80).                 *)
THEOREM PathsStay == StoreSpec => []RootfsAsPulled
<1>1. StoreInv => RootfsAsPulled
  <2> SUFFICES ASSUME StoreInv, NEW a \in Apps PROVE PathGood(db, a)
    BY DEF RootfsAsPulled, PathGood
  <2>1. CASE conn = None
    BY <2>1 DEF StoreInv, Transactions, Good
  <2>2. CASE conn # None /\ a = about[conn]
    BY <2>2 DEF StoreInv, Transactions, HalfDone
  <2>3. CASE conn # None /\ a # about[conn]
    BY <2>3 DEF StoreInv, Transactions, Good, PathGood
  <2> QED
    BY <2>1, <2>2, <2>3
<1> QED
  BY <1>1, StoreAlways, PTL

(* What an import does to a row that is there is, at most, to bring back   *)
(* that it was not (import.go:27-50).                                      *)
THEOREM ImportsAddOnly == StoreSpec => ImportKeepsRows
<1> DEFINE Kept ==
      \A r \in Reqs, a \in Apps :
        (conn = r /\ job[r] = "import" /\ db.row[a] # Absent)
          => db'.row[a] \in {db.row[a], Absent}
<1>1. StoreInv /\ [StoreNext]_svars => [Kept]_svars
  <2> SUFFICES ASSUME StoreInv, StoreNext, NEW r \in Reqs, NEW a \in Apps,
                      conn = r, job[r] = "import", db.row[a] # Absent
               PROVE  db'.row[a] \in {db.row[a], Absent}
    OBVIOUS
  <2>1. /\ conn # None /\ db \in Tables /\ about[r] \in Apps
        /\ at[r] \in InTransaction
        /\ undo.row[a] \in {db.row[a], Absent}
    BY AppStoreAssumption
    DEF StoreInv, StoreTypeOK, Transactions, HalfDone
  <2>2. ASSUME NEW q \in Reqs, Step(q)
        PROVE  db'.row[a] \in {db.row[a], Absent}
    <3>1. CASE db' = db
      BY <3>1
    <3>2. CASE Rollback(q)
      BY <2>1, <3>2 DEF Rollback
    <3>3. CASE UpdateApp(q) \/ Wipe(q)
      <4>1. q = r /\ job[q] = "edit"
        BY <3>3
        DEF UpdateApp, Wipe, At, StoreInv, Transactions, Where, InTransaction
      <4> QED
        BY <4>1
    <3>4. CASE InsertApp(q) /\ ~Conflicts(about[q])
      <4>1. q = r
        BY <3>4 DEF InsertApp, At, StoreInv, Transactions, InTransaction
      <4>2. a # about[r]
        BY <3>4, <4>1 DEF Conflicts
      <4>3. PICK entry : db' = InsertRow(about[r], r, entry)
        BY <3>4, <4>1 DEF InsertApp
      <4> QED
        BY <2>1, <4>2, <4>3 DEF InsertRow, Tables
    <3>5. CASE InsertEnvVars(q) /\ db' = InsertEnv(about[q], q)
      BY <2>1, <3>5 DEF InsertEnv, Tables
    <3> QED
      BY <2>1, <2>2, <3>1, <3>2, <3>3, <3>4, <3>5
      DEF Step, Lock, Get, GetEnvVars, IsRunning, Started, Begin, InsertApp,
          InsertEnvVars, Commit, Delete, List, ListEnvVars, ApplyEntry,
          ApplyRootfs, Statement
  <2>3. ASSUME NEW q \in Reqs, NEW o \in Asked, NEW b \in Apps, Call(q, o, b)
        PROVE  db'.row[a] \in {db.row[a], Absent}
    BY <2>3 DEF Call
  <2>4. CASE Crash
    BY <2>1, <2>4 DEF Crash, Recovered
  <2> QED
    BY <2>2, <2>3, <2>4 DEF StoreNext
<1> QED
  BY <1>1, StoreAlways, PTL DEF StoreSpec, ImportKeepsRows

-----------------------------------------------------------------------------
(* Every call is atomic.  What the invariant above does not say, and the   *)
(* commit of a save needs: what the transaction has done to the row.       *)

Saving(r, a) ==
  /\ job[r] = "edit" /\ at[r] \in {"wipe", "env", "commit"} =>
       /\ db.row[a] = Absent <=> undo.row[a] = Absent
       /\ db.row[a] # Absent => /\ db.row[a].form = r
                                /\ db.row[a].rootfs = undo.row[a].rootfs
  /\ job[r] = "import" /\ at[r] \in {"env", "commit"} =>
       /\ undo.row[a] = Absent
       /\ db.row[a] # Absent
       /\ db.row[a].form = r
       /\ db.row[a].rootfs = FALSE
       /\ db.row[a].entry \in {"none", "user"}

Pending == conn # None => Saving(conn, about[conn])

(* A step of a request that has not the connection, while the one that has *)
(* waits.                                                                  *)
LEMMA PendingElsewhere ==
  ASSUME StoreInv, Pending, NEW r \in Reqs, at[r] \notin InTransaction,
         UNCHANGED <<db, undo, conn>>,
         at' = [at EXCEPT ![r] = at'[r]],
         \A q \in Reqs \ {r} : job'[q] = job[q] /\ about'[q] = about[q]
  PROVE  Pending'
<1> SUFFICES ASSUME conn # None PROVE Saving(conn, about[conn])'
  BY DEF Pending
<1>1. conn \in Reqs \ {r}
  BY DEF StoreInv, StoreTypeOK, Transactions
<1>2. at'[conn] = at[conn] /\ job'[conn] = job[conn]
      /\ about'[conn] = about[conn]
  BY <1>1 DEF StoreInv, StoreTypeOK
<1> QED
  BY <1>2 DEF Pending, Saving

LEMMA PendingUpdateApp ==
  ASSUME StoreInv, NEW r \in Reqs, UpdateApp(r)
  PROVE  Saving(r, about[r])'
<1> DEFINE a == about[r]
<1>1. /\ a \in Apps /\ db \in Tables /\ db = undo
      /\ conn = r /\ r # None
      /\ undo' = undo /\ job' = job /\ about' = about /\ job[r] = "edit"
  BY AppStoreAssumption
  DEF StoreInv, StoreTypeOK, Transactions, UpdateApp, At, InTransaction,
      HalfDone, Go
<1>2. PICK entry \in {"user", got[r].entry} :
        db' = UpdateRow(a, r, entry, got[r])
  BY DEF UpdateApp
<1>3. entry \in Entries
  BY DEF StoreInv, StoreTypeOK, Read, Entries
<1> HIDE DEF a
<1>4. CASE db.row[a] = Absent
  <2>1. db' = db
    BY <1>1, <1>2, <1>4, SetNoRow DEF UpdateRow
  <2> QED
    BY <1>1, <1>4, <2>1 DEF Saving, a
<1>5. CASE db.row[a] # Absent
  <2> DEFINE row == [form |-> r, entry |-> entry, rootfs |-> db.row[a].rootfs]
  <2>1. db.row[a] \in Rows
    BY <1>1, <1>5 DEF Tables
  <2>2. row \in Rows /\ row.form = r /\ row.rootfs = db.row[a].rootfs
    BY <1>3, <2>1 DEF Rows, Forms
  <2>3. db' = SetRow(a, row) /\ row # Absent
    BY <1>2, <2>2, AppStoreAssumption DEF UpdateRow
  <2> HIDE DEF row
  <2>4. db'.row[a] = row
    BY <1>1, <1>5, <2>2, <2>3, SetRowTables
  <2> QED
    BY <1>1, <1>5, <2>2, <2>3, <2>4 DEF Saving, a
<1> QED
  BY <1>4, <1>5

LEMMA PendingInsertApp ==
  ASSUME StoreInv, NEW r \in Reqs, InsertApp(r)
  PROVE  Saving(r, about[r])'
<1> DEFINE a == about[r]
<1>1. /\ a \in Apps /\ db \in Tables /\ db = undo
      /\ conn = r /\ r # None
      /\ undo' = undo /\ job' = job /\ about' = about /\ job[r] = "import"
  BY AppStoreAssumption
  DEF StoreInv, StoreTypeOK, Transactions, InsertApp, At, InTransaction,
      HalfDone, Go
<1>2. CASE Conflicts(a)
  <2>1. at'[r] = "rollback"
    BY <1>2, GoTypes DEF InsertApp, StoreInv, Labels
  <2> QED
    BY <1>1, <2>1 DEF Saving
<1>3. CASE ~Conflicts(a)
  <2>1. db.row[a] = Absent
    BY <1>3 DEF Conflicts
  <2>2. PICK entry \in {"none", "user"} : db' = InsertRow(a, r, entry)
    BY <1>3 DEF InsertApp
  <2> HIDE DEF a
  <2> DEFINE row == [form |-> r, entry |-> entry, rootfs |-> FALSE]
  <2>3. /\ row # Absent /\ row.form = r /\ row.rootfs = FALSE
        /\ row.entry \in {"none", "user"}
    BY <2>2, RowIsThere DEF Forms, Entries
  <2>4. db'.row[a] = row
    BY <1>1, <2>2 DEF InsertRow, Tables
  <2> HIDE DEF row
  <2> QED
    BY <1>1, <2>1, <2>3, <2>4 DEF Saving, a
<1> QED
  BY <1>2, <1>3

(* The variables are wiped and written, the row stays.                     *)
LEMMA PendingEnv ==
  ASSUME StoreInv, Pending, NEW r \in Reqs, Wipe(r) \/ InsertEnvVars(r)
  PROVE  Saving(r, about[r])'
<1> DEFINE a == about[r]
<1>1. /\ a \in Apps /\ db \in Tables
      /\ conn = r /\ r # None
      /\ undo' = undo /\ job' = job /\ about' = about
      /\ at[r] = "wipe" => job[r] = "edit"
      /\ at[r] \in {"wipe", "env"} /\ job[r] \in {"edit", "import"}
  BY AppStoreAssumption
  DEF StoreInv, StoreTypeOK, Transactions, Wipe, InsertEnvVars, At, Where,
      InTransaction, Go
<1>2. db'.row = db.row
  BY <1>1 DEF Wipe, WipeEnv, DeleteEnv, InsertEnvVars, InsertEnv, Tables
<1>3. Saving(r, a)
  BY <1>1 DEF Pending
<1> QED
  BY <1>1, <1>2, <1>3 DEF Saving

LEMMA PendingNext ==
  ASSUME StoreInv, Pending, [StoreNext]_svars
  PROVE  Pending'
<1>1. CASE UNCHANGED svars
  BY <1>1 DEF Pending, Saving, svars, request
<1>2. ASSUME NEW r \in Reqs, NEW o \in Asked, NEW a \in Apps, Call(r, o, a)
      PROVE  Pending'
  <2>1. at[r] \notin InTransaction
    BY <1>2, AppStoreAssumption DEF StoreInv, Where, Call
  <2> QED
    BY <1>2, <2>1, PendingElsewhere DEF Call, StoreInv, StoreTypeOK
<1>3. CASE Crash
  BY <1>3 DEF Crash, Pending
<1>4. ASSUME NEW r \in Reqs, Step(r) PROVE Pending'
  <2>1. CASE Lock(r) \/ IsRunning(r)
    BY <2>1, PendingElsewhere
    DEF Lock, IsRunning, At, Go, InTransaction, StoreInv, StoreTypeOK
  <2>2. CASE \/ Get(r) \/ GetEnvVars(r) \/ Started(r) \/ Delete(r)
             \/ List(r) \/ ListEnvVars(r) \/ ApplyEntry(r) \/ ApplyRootfs(r)
    BY <2>2
    DEF Get, GetEnvVars, Started, Delete, List, CloseRows, ListEnvVars,
        ApplyEntry, ApplyRootfs, Statement, Pending
  <2>3. CASE Commit(r) \/ Rollback(r)
    BY <2>3 DEF Commit, Rollback, Pending
  <2>4. CASE Begin(r)
    <3>1. at'[r] = "row" /\ conn' = r
      BY <2>4, GoTypes DEF Begin, StoreInv, Labels
    <3> QED
      BY <3>1 DEF Pending, Saving
  <2>5. CASE UpdateApp(r) \/ Wipe(r) \/ InsertApp(r) \/ InsertEnvVars(r)
    <3>1. conn' = r
      BY <2>5
      DEF UpdateApp, Wipe, InsertApp, InsertEnvVars, At, InTransaction,
          StoreInv, Transactions
    <3>2. Saving(r, about[r])'
      BY <2>5, PendingUpdateApp, PendingInsertApp, PendingEnv
    <3> QED
      BY <3>1, <3>2 DEF Pending, Saving
  <2> QED
    BY <1>4, <2>1, <2>2, <2>3, <2>4, <2>5 DEF Step
<1> QED
  BY <1>1, <1>2, <1>3, <1>4 DEF StoreNext

LEMMA PendingAlways == StoreSpec => []Pending
<1>1. StoreInit => Pending
  BY DEF StoreInit, Pending
<1> QED
  BY <1>1, StoreAlways, PendingNext, PTL DEF StoreSpec

-----------------------------------------------------------------------------
(* What is seen of the tables.                                             *)

LEMMA VisibleOf ==
  ASSUME NEW d, NEW a \in Apps
  PROVE  Visible(d)[a] =
           IF d.row[a] = Absent THEN Absent
           ELSE [form |-> d.row[a].form, vars |-> d.env[a] \ {"left"},
                 entry |-> d.row[a].entry, rootfs |-> d.row[a].rootfs]
BY DEF Visible

Replaced(f, a, v) == [f EXCEPT ![a] = v]

LEMMA OneIsSeen ==
  ASSUME NEW d, NEW e, NEW a \in Apps,
         \A b \in Apps \ {a} : e.row[b] = d.row[b] /\ e.env[b] = d.env[b]
  PROVE  Visible(e) = Replaced(Visible(d), a, Visible(e)[a])
BY DEF Visible, Replaced

(* An app is seen if its row is there, with the variables of its form.     *)
LEMMA SeenRow ==
  ASSUME NEW d \in Tables, NEW a \in Apps, d.row[a] # Absent
  PROVE  /\ Visible(d)[a] # Absent
         /\ Visible(d)[a].rootfs = d.row[a].rootfs
         /\ RowGood(d, a) =>
              Visible(d)[a] = Atomic!Saved(d.row[a].form, d.row[a].entry,
                                           d.row[a].rootfs)
<1> DEFINE row == d.row[a]
           seen == [form |-> row.form, vars |-> d.env[a] \ {"left"},
                    entry |-> row.entry, rootfs |-> row.rootfs]
<1>1. Visible(d)[a] = seen
  BY VisibleOf
<1>2. row \in Rows /\ d.env[a] \subseteq Forms \cup {"left"}
  BY DEF Tables
<1>3. seen \in [form : Forms, vars : SUBSET Forms, entry : Entries,
                rootfs : BOOLEAN]
  BY <1>2 DEF Rows
<1>4. RowGood(d, a) => seen.vars = {row.form}
  BY DEF RowGood
<1> QED
  BY <1>1, <1>3, <1>4, AppStoreAssumption DEF Atomic!Saved

(* The step from the tables d, last committed, to e is one of the abstract *)
(* store; what is left is to see that the variable is the function of them *)
(* that it is.                                                             *)
AtomicStep(d, e) ==
  \/ Visible(e) = Visible(d)
  \/ \E a \in Apps :
       \/ \E form \in Reqs :
            \/ /\ Visible(d)[a] = Absent
               /\ \E entry \in {"none", "user"} :
                    Visible(e) = [Visible(d) EXCEPT ![a] =
                                    Atomic!Saved(form, entry, FALSE)]
            \/ /\ Visible(d)[a] # Absent
               /\ \E entry \in {"none", "image", "user"} :
                    Visible(e) = [Visible(d) EXCEPT ![a] =
                                    Atomic!Saved(form, entry, @.rootfs)]
       \/ Visible(e) = [Visible(d) EXCEPT ![a] = Absent]
       \/ /\ Visible(d)[a] # Absent
          /\ Visible(e) = [Visible(d) EXCEPT ![a].entry = "image"]
       \/ \E set \in BOOLEAN :
            /\ Visible(d)[a] # Absent
            /\ Visible(e) = [Visible(d) EXCEPT ![a].rootfs = set]

LEMMA AtomicStepIs ==
  ASSUME AtomicStep(Committed, Committed')
  PROVE  [Atomic!AtomicNext]_(Visible(Committed))
<1>1. Visible(Committed)' = Visible(Committed')
  BY DEF Visible
<1> QED
  BY <1>1
  DEF AtomicStep, Atomic!AtomicNext, Atomic!Create, Atomic!Update,
      Atomic!Delete, Atomic!UpdateEntrypointCmd, Atomic!UpdateRootfsPath

(* A save appears when it is committed, with all its variables.            *)
LEMMA CommitMaps ==
  ASSUME StoreInv, Pending, NEW r \in Reqs, Commit(r)
  PROVE  AtomicStep(undo, db)
<1> DEFINE a == about[r]
<1>1. /\ a \in Apps /\ db \in Tables /\ undo \in Tables
      /\ conn = r /\ r # None /\ at[r] = "commit"
      /\ job[r] \in {"edit", "import"}
  BY AppStoreAssumption
  DEF StoreInv, StoreTypeOK, Transactions, Commit, At, Where, InTransaction
<1>2. RowGood(db, a) /\ Saving(r, a)
  BY <1>1 DEF StoreInv, Transactions, HalfDone, Pending
<1>3. Visible(db) = [Visible(undo) EXCEPT ![a] = Visible(db)[a]]
  <2>1. \A b \in Apps \ {a} : /\ db.row[b] = undo.row[b]
                              /\ db.env[b] = undo.env[b]
    BY <1>1 DEF StoreInv, Transactions
  <2> HIDE DEF a
  <2>2. Visible(db) = Replaced(Visible(undo), a, Visible(db)[a])
    BY <1>1, <2>1, OneIsSeen
  <2> QED
    BY <2>2 DEF Replaced
<1> HIDE DEF a
<1>4. CASE db.row[a] = Absent
  <2>1. Visible(db)[a] = Absent
    BY <1>1, <1>4, VisibleOf
  <2> QED
    BY <1>1, <1>3, <2>1 DEF AtomicStep
<1>5. CASE db.row[a] # Absent
  <2>1. /\ db.row[a].form = r /\ db.row[a] \in Rows
        /\ Visible(db)[a] = Atomic!Saved(r, db.row[a].entry, db.row[a].rootfs)
    BY <1>1, <1>2, <1>5, SeenRow DEF Saving, Tables
  <2>2. CASE job[r] = "edit"
    <3>1. undo.row[a] # Absent /\ db.row[a].rootfs = undo.row[a].rootfs
      BY <1>1, <1>2, <1>5, <2>2 DEF Saving
    <3>2. /\ Visible(undo)[a] # Absent
          /\ Visible(undo)[a].rootfs = db.row[a].rootfs
      BY <1>1, <3>1, SeenRow
    <3>3. Visible(db) = [Visible(undo) EXCEPT ![a] =
                           Atomic!Saved(r, db.row[a].entry, @.rootfs)]
      BY <1>3, <2>1, <3>2
    <3>4. db.row[a].entry \in {"none", "image", "user"}
      BY <2>1 DEF Rows, Entries
    <3> QED
      BY <1>1, <3>2, <3>3, <3>4 DEF AtomicStep
  <2>3. CASE job[r] = "import"
    <3>1. /\ undo.row[a] = Absent /\ db.row[a].rootfs = FALSE
          /\ db.row[a].entry \in {"none", "user"}
      BY <1>1, <1>2, <2>3 DEF Saving
    <3>2. Visible(undo)[a] = Absent
      BY <1>1, <3>1, VisibleOf
    <3>3. Visible(db) = [Visible(undo) EXCEPT ![a] =
                           Atomic!Saved(r, db.row[a].entry, FALSE)]
      BY <1>3, <2>1, <3>1
    <3> QED
      BY <1>1, <3>1, <3>2, <3>3 DEF AtomicStep
  <2> QED
    BY <1>1, <2>2, <2>3
<1> QED
  BY <1>4, <1>5

LEMMA DeleteMaps ==
  ASSUME StoreInv, NEW r \in Reqs, Delete(r)
  PROVE  AtomicStep(db, db')
<1> DEFINE a == about[r]
<1>1. a \in Apps /\ db \in Tables /\ db' = DeleteRow(a)
  BY DEF StoreInv, StoreTypeOK, Delete, Statement
<1> HIDE DEF a
<1>2. /\ db'.row[a] = Absent
      /\ \A b \in Apps \ {a} : db'.row[b] = db.row[b] /\ db'.env[b] = db.env[b]
  BY <1>1 DEF DeleteRow, Tables
<1>3. Visible(db')[a] = Absent
  BY <1>1, <1>2, VisibleOf
<1>4. Visible(db') = Replaced(Visible(db), a, Absent)
  BY <1>1, <1>2, <1>3, OneIsSeen
<1> QED
  BY <1>1, <1>4 DEF AtomicStep, Replaced

(* An UPDATE of one column, seen.                                          *)
LEMMA SeenUpdate ==
  ASSUME db \in Tables, NEW a \in Apps, db.row[a] # Absent,
         NEW row \in Rows, row.form = db.row[a].form,
         NEW d, d.row = SetRow(a, row).row, d.env = db.env
  PROVE  Visible(d) = Replaced(Visible(db), a,
           [form |-> db.row[a].form, vars |-> db.env[a] \ {"left"},
            entry |-> row.entry, rootfs |-> row.rootfs])
<1>1. /\ d.row[a] = row /\ row # Absent
      /\ \A b \in Apps \ {a} : d.row[b] = db.row[b] /\ d.env[b] = db.env[b]
  BY SetRowTables, AppStoreAssumption
<1>2. Visible(d) = Replaced(Visible(db), a, Visible(d)[a])
  BY <1>1, OneIsSeen
<1>3. Visible(d)[a] = [form |-> row.form, vars |-> db.env[a] \ {"left"},
                       entry |-> row.entry, rootfs |-> row.rootfs]
  BY <1>1, VisibleOf
<1> QED
  BY <1>2, <1>3

LEMMA ApplyEntryMaps ==
  ASSUME StoreInv, NEW r \in Reqs, ApplyEntry(r)
  PROVE  AtomicStep(db, db')
<1> DEFINE a == about[r]
<1>1. a \in Apps /\ db \in Tables
  BY DEF StoreInv, StoreTypeOK, ApplyEntry, Statement
<1>2. db' = UpdateEntrypointCmd(a) \/ db' = db
  BY DEF ApplyEntry
<1> HIDE DEF a
<1>3. CASE db' = db \/ db.row[a] = Absent
  <2>1. db' = db
    BY <1>1, <1>2, <1>3, SetNoRow DEF UpdateEntrypointCmd
  <2> QED
    BY <2>1 DEF AtomicStep
<1>4. CASE db' = UpdateEntrypointCmd(a) /\ db.row[a] # Absent
  <2> DEFINE row == [db.row[a] EXCEPT !.entry = "image"]
             seen == Visible(db)[a]
  <2>1. db.row[a] \in Rows
    BY <1>1, <1>4 DEF Tables
  <2>2. /\ row \in Rows /\ row.form = db.row[a].form
        /\ row.entry = "image" /\ row.rootfs = db.row[a].rootfs
    BY <2>1 DEF Rows, Entries
  <2>3. db' = SetRow(a, row)
    BY <1>4 DEF UpdateEntrypointCmd
  <2> HIDE DEF row
  <2>4. db'.row = SetRow(a, row).row /\ db'.env = db.env
    BY <1>1, <2>2, <2>3, SetRowTables
  <2>5. Visible(db') = Replaced(Visible(db), a,
          [form |-> db.row[a].form, vars |-> db.env[a] \ {"left"},
           entry |-> row.entry, rootfs |-> row.rootfs])
    BY <1>1, <1>4, <2>2, <2>4, SeenUpdate
  <2>6. seen = [form |-> db.row[a].form, vars |-> db.env[a] \ {"left"},
                entry |-> db.row[a].entry, rootfs |-> db.row[a].rootfs]
    BY <1>1, <1>4, VisibleOf
  <2>7. seen # Absent
    BY <1>1, <1>4, SeenRow
  <2> HIDE DEF seen
  <2>8. [seen EXCEPT !.entry = "image"] =
          [form |-> db.row[a].form, vars |-> db.env[a] \ {"left"},
           entry |-> row.entry, rootfs |-> row.rootfs]
    BY <2>2, <2>6
  <2>9. Visible(db') = [Visible(db) EXCEPT ![a].entry = "image"]
    BY <2>5, <2>8 DEF Replaced, seen
  <2> QED
    BY <1>1, <2>7, <2>9 DEF AtomicStep, seen
<1> QED
  BY <1>2, <1>3, <1>4

LEMMA ApplyRootfsMaps ==
  ASSUME StoreInv, NEW r \in Reqs, ApplyRootfs(r)
  PROVE  AtomicStep(db, db')
<1> DEFINE a == about[r]
           set == job[r] = "pull"
           d == SetRow(a, [db.row[a] EXCEPT !.rootfs = set])
<1>1. a \in Apps /\ db \in Tables /\ set \in BOOLEAN
  BY DEF StoreInv, StoreTypeOK, ApplyRootfs, Statement
<1>2. db' = [d EXCEPT !.path[a] = set /\ db.row[a] # Absent]
  BY DEF ApplyRootfs, UpdateRootfsPath
<1> HIDE DEF a, set
<1>3. CASE db.row[a] = Absent
  <2>1. d = db
    BY <1>1, <1>3, SetNoRow
  <2>2. db'.row = db.row /\ db'.env = db.env
    BY <1>1, <1>2, <2>1 DEF Tables
  <2>3. Visible(db') = Visible(db)
    BY <2>2 DEF Visible
  <2> QED
    BY <2>3 DEF AtomicStep
<1>4. CASE db.row[a] # Absent
  <2> DEFINE row == [db.row[a] EXCEPT !.rootfs = set]
             seen == Visible(db)[a]
  <2>1. db.row[a] \in Rows
    BY <1>1, <1>4 DEF Tables
  <2>2. /\ row \in Rows /\ row.form = db.row[a].form
        /\ row.entry = db.row[a].entry /\ row.rootfs = set
    BY <1>1, <2>1 DEF Rows
  <2>3. d = SetRow(a, row)
    OBVIOUS
  <2> HIDE DEF row, d
  <2>4. d \in Tables /\ d.env = db.env
    BY <1>1, <2>2, <2>3, SetRowTables
  <2>5. db'.row = SetRow(a, row).row /\ db'.env = db.env
    BY <1>2, <2>3, <2>4 DEF Tables
  <2>6. Visible(db') = Replaced(Visible(db), a,
          [form |-> db.row[a].form, vars |-> db.env[a] \ {"left"},
           entry |-> row.entry, rootfs |-> row.rootfs])
    BY <1>1, <1>4, <2>2, <2>5, SeenUpdate
  <2>7. seen = [form |-> db.row[a].form, vars |-> db.env[a] \ {"left"},
                entry |-> db.row[a].entry, rootfs |-> db.row[a].rootfs]
    BY <1>1, <1>4, VisibleOf
  <2>8. seen # Absent
    BY <1>1, <1>4, SeenRow
  <2> HIDE DEF seen
  <2>9. [seen EXCEPT !.rootfs = set] =
          [form |-> db.row[a].form, vars |-> db.env[a] \ {"left"},
           entry |-> row.entry, rootfs |-> row.rootfs]
    BY <2>2, <2>7
  <2>10. Visible(db') = [Visible(db) EXCEPT ![a].rootfs = set]
    BY <2>6, <2>9 DEF Replaced, seen
  <2> QED
    BY <1>1, <2>8, <2>10 DEF AtomicStep, seen
<1> QED
  BY <1>3, <1>4

(* The other steps leave what is committed alone: those of a transaction   *)
(* write beside it, a rollback and a crash come back to it.                *)
LEMMA StepMapsAtomic ==
  ASSUME StoreInv, Pending, [StoreNext]_svars
  PROVE  [Atomic!AtomicNext]_(Visible(Committed))
<1>1. SUFFICES AtomicStep(Committed, Committed')
  BY AtomicStepIs
<1>2. Committed' = Committed => AtomicStep(Committed, Committed')
  BY DEF AtomicStep
<1>3. CASE UNCHANGED svars
  BY <1>2, <1>3 DEF svars, Committed
<1>4. ASSUME NEW r \in Reqs, NEW o \in Asked, NEW a \in Apps, Call(r, o, a)
      PROVE  AtomicStep(Committed, Committed')
  BY <1>2, <1>4 DEF Call, Committed
<1>5. CASE Crash
  BY <1>2, <1>5 DEF Crash, Recovered, Committed
<1>6. ASSUME NEW r \in Reqs, Step(r)
      PROVE  AtomicStep(Committed, Committed')
  <2>1. CASE \/ Lock(r) \/ Get(r) \/ GetEnvVars(r) \/ IsRunning(r)
             \/ Started(r) \/ List(r) \/ ListEnvVars(r)
    BY <1>2, <2>1
    DEF Lock, Get, GetEnvVars, IsRunning, Started, List, CloseRows,
        ListEnvVars, Statement, Committed
  <2>2. CASE Begin(r)
    BY <1>2, <2>2, AppStoreAssumption DEF Begin, Statement, Committed
  <2>3. CASE UpdateApp(r) \/ Wipe(r) \/ InsertApp(r) \/ InsertEnvVars(r)
    <3>1. conn = r /\ r # None
      BY <2>3, AppStoreAssumption
      DEF UpdateApp, Wipe, InsertApp, InsertEnvVars, At, InTransaction,
          StoreInv, Transactions
    <3> QED
      BY <1>2, <2>3, <3>1
      DEF UpdateApp, Wipe, InsertApp, InsertEnvVars, Committed
  <2>4. CASE Commit(r) \/ Rollback(r)
    <3>1. conn = r /\ r # None /\ conn' = None
      BY <2>4, AppStoreAssumption
      DEF Commit, Rollback, At, InTransaction, StoreInv, Transactions
    <3>2. CASE Rollback(r)
      BY <1>2, <3>1, <3>2 DEF Rollback, Committed
    <3>3. CASE Commit(r)
      BY <3>1, <3>3, CommitMaps DEF Commit, Committed
    <3> QED
      BY <2>4, <3>2, <3>3
  <2>5. CASE Delete(r)
    BY <2>5, DeleteMaps DEF Delete, Statement, Committed
  <2>6. CASE ApplyEntry(r)
    BY <2>6, ApplyEntryMaps DEF ApplyEntry, Statement, Committed
  <2>7. CASE ApplyRootfs(r)
    BY <2>7, ApplyRootfsMaps DEF ApplyRootfs, Statement, Committed
  <2> QED
    BY <1>6, <2>1, <2>2, <2>3, <2>4, <2>5, <2>6, <2>7 DEF Step
<1> QED
  BY <1>3, <1>4, <1>5, <1>6 DEF StoreNext

LEMMA InitMapsAtomic == StoreInit => Atomic!AtomicInit
<1> SUFFICES ASSUME StoreInit PROVE Atomic!AtomicInit
  OBVIOUS
<1> USE AppStoreAssumption
<1> PICK there \in SUBSET Apps :
      db = [row |-> [a \in Apps |-> IF a \in there THEN OldRow ELSE Absent],
            env |-> [a \in Apps |-> IF a \in there THEN {"old"} ELSE {}],
            path |-> [a \in Apps |-> FALSE]]
  BY DEF StoreInit
<1>1. Committed = db
  BY DEF StoreInit, Committed
<1>2. ASSUME NEW a \in Apps
      PROVE  Visible(db)[a] \in {Atomic!Saved("old", "none", FALSE), Absent}
  <2>1. CASE a \in there
    <3>1. db.row[a] = OldRow /\ OldRow # Absent
      BY <2>1, RowIsThere DEF OldRow, Forms, Entries
    <3>2. db.env[a] \ {"left"} = {"old"}
      BY <2>1
    <3>3. Visible(db)[a] = [form |-> "old", vars |-> {"old"},
                            entry |-> "none", rootfs |-> FALSE]
      BY <3>1, <3>2, VisibleOf DEF OldRow
    <3> QED
      BY <3>3 DEF Atomic!Saved
  <2>2. CASE a \notin there
    <3>1. db.row[a] = Absent
      BY <2>2
    <3> QED
      BY <3>1, VisibleOf
  <2> QED
    BY <2>1, <2>2
<1>3. Visible(db) \in [Apps -> {Atomic!Saved("old", "none", FALSE), Absent}]
  BY <1>2 DEF Visible
<1> QED
  BY <1>1, <1>3 DEF Atomic!AtomicInit

(* However the statements of edits, imports, deletes, pulls and prunes     *)
(* follow each other and wherever the server dies, what is committed goes  *)
(* as if each call were one step (store/apps.go:31-57, 70-100).            *)
THEOREM StoreImplements == StoreSpec => CallsAreAtomic
BY InitMapsAtomic, StoreAlways, PendingAlways, StepMapsAtomic, PTL
DEF StoreSpec, CallsAreAtomic, Atomic!AtomicSpec

-----------------------------------------------------------------------------
(* Nobody waits in a circle.  What a request needs to take its next step:  *)
(* the mutex to be free, or the connection, or nothing.                    *)

Ready(r) ==
  \/ mu = None /\ at[r] = "lock"
  \/ mu = None /\ at[r] = "running" /\ job[r] \in {"delete", "pull", "prune"}
  \/ conn = None /\ at[r] \in {"get", "begin", "status", "delete", "list",
                               "listenv", "entry", "rootfs"}
  \/ /\ conn = None /\ at[r] = "getenv"
     /\ job[r] \in {"edit", "delete", "pull", "start", "import"}
  \/ at[r] = "row" /\ job[r] \in {"edit", "import"}
  \/ at[r] \in {"wipe", "env", "commit", "rollback"}

SomeoneReady ==
  (\E r \in Reqs : at[r] # "idle") => \E r \in Reqs : Ready(r)

(* Manager.Start keeps the mutex over its own statements, and over nothing *)
(* that waits for the mutex.                                               *)
MutexInv ==
  \A r \in Reqs :
    /\ mu = r <=> job[r] = "start" /\ at[r] \in {"get", "getenv", "status"}
    /\ at[r] = "running" => job[r] \in {"delete", "pull", "prune"}

LEMMA MutexNext ==
  ASSUME StoreInv, MutexInv, [StoreNext]_svars
  PROVE  MutexInv'
<1> USE AppStoreAssumption DEF StoreInv, StoreTypeOK, Where, MutexInv
<1>1. CASE UNCHANGED svars
  BY <1>1 DEF svars, request
<1>2. ASSUME NEW r \in Reqs, NEW o \in Asked, NEW a \in Apps, Call(r, o, a)
      PROVE  MutexInv'
  <2>1. /\ at' = [at EXCEPT ![r] = First(o)] /\ job' = [job EXCEPT ![r] = o]
        /\ mu' = mu /\ job[r] = "none" /\ o \in Calls
    BY <1>2 DEF Call
  <2>2. /\ First(o) \in {"lock", "list", "running", "get"}
        /\ First(o) = "running" => o = "prune"
        /\ First(o) = "get" => o # "start"
    BY <2>1 DEF First, Calls
  <2> QED
    BY <2>1, <2>2
<1>3. CASE Crash
  BY <1>3 DEF Crash
<1>4. ASSUME NEW r \in Reqs, Step(r) PROVE MutexInv'
  <2> USE DEF At, Go, Statement, Unlock
  <2>1. CASE Lock(r)
    BY <2>1 DEF Lock
  <2>2. CASE Get(r)
    <3>1. CASE db.row[about[r]] # Absent
      BY <2>2, <3>1 DEF Get
    <3>2. CASE db.row[about[r]] = Absent /\ job[r] = "import"
      BY <2>2, <3>2 DEF Get
    <3>3. CASE db.row[about[r]] = Absent /\ job[r] # "import"
      BY <2>2, <3>3 DEF Get
    <3> QED
      BY <3>1, <3>2, <3>3
  <2>3. CASE GetEnvVars(r)
    <3>1. /\ job[r] = "start" => AfterGet(r) = "status"
          /\ AfterGet(r) = "running" => job[r] \in {"delete", "pull"}
          /\ job[r] # "start" => AfterGet(r) \in {"begin", "running", "idle"}
      BY <2>3 DEF GetEnvVars, AfterGet
    <3> QED
      BY <2>3, <3>1 DEF GetEnvVars
  <2>4. CASE IsRunning(r)
    <3>1. PICK l \in {"delete", "entry", "rootfs", "idle"} : Go(r, l)
      BY <2>4 DEF IsRunning
    <3> QED
      BY <2>4, <3>1 DEF IsRunning
  <2>5. CASE Started(r)
    BY <2>5 DEF Started
  <2>6. CASE Begin(r) \/ UpdateApp(r) \/ Wipe(r)
    BY <2>6 DEF Begin, UpdateApp, Wipe
  <2>7. CASE InsertApp(r) \/ InsertEnvVars(r) \/ Commit(r) \/ Rollback(r)
    BY <2>7 DEF InsertApp, InsertEnvVars, Commit, Rollback
  <2>8. CASE Delete(r) \/ ApplyEntry(r) \/ ApplyRootfs(r)
    BY <2>8 DEF Delete, ApplyEntry, ApplyRootfs
  <2>9. CASE List(r)
    BY <2>9 DEF List
  <2>10. CASE ListEnvVars(r)
    <3>1. CASE todo[r] = {}
      BY <2>10, <3>1 DEF ListEnvVars
    <3>2. CASE todo[r] # {}
      BY <2>10, <3>2 DEF ListEnvVars
    <3> QED
      BY <3>1, <3>2
  <2> QED
    BY <1>4, <2>1, <2>2, <2>3, <2>4, <2>5, <2>6, <2>7, <2>8, <2>9, <2>10
    DEF Step
<1> QED
  BY <1>1, <1>2, <1>3, <1>4 DEF StoreNext

(* While a request or a pull is under way, somebody's next step waits for  *)
(* nothing: who has the connection is within a transaction, and who has    *)
(* the mutex waits at most for the connection (store/apps.go:31-57,        *)
(* 174-191; manager.go:118).                                             *)
THEOREM NoCircle == StoreSpec => []SomeoneReady
<1>1. StoreInit => MutexInv
  BY AppStoreAssumption DEF StoreInit, MutexInv
<1>2. StoreInv /\ MutexInv => SomeoneReady
  <2> SUFFICES ASSUME StoreInv, MutexInv, NEW q \in Reqs, at[q] # "idle"
               PROVE  \E r \in Reqs : Ready(r)
    BY DEF SomeoneReady
  <2> USE AppStoreAssumption DEF StoreInv, StoreTypeOK, Where
  <2>1. CASE conn # None
    <3>1. conn \in Reqs /\ at[conn] \in InTransaction
      BY <2>1 DEF Transactions
    <3>2. job[conn] \in {"edit", "import"}
      BY <3>1
    <3> QED
      BY <3>1, <3>2 DEF Ready, InTransaction
  <2>2. CASE conn = None /\ mu # None
    <3>1. /\ mu \in Reqs /\ job[mu] = "start"
          /\ at[mu] \in {"get", "getenv", "status"}
      BY <2>2 DEF MutexInv
    <3> QED
      BY <2>2, <3>1 DEF Ready
  <2>3. CASE conn = None /\ mu = None
    <3>1. at[q] \in Labels
      OBVIOUS
    <3>2. at[q] = "running" => job[q] \in {"delete", "pull", "prune"}
      BY DEF MutexInv
    <3>3. /\ at[q] = "row" => job[q] \in {"edit", "import"}
          /\ at[q] = "getenv" =>
               job[q] \in {"edit", "delete", "pull", "start", "import"}
      BY DEF InTransaction
    <3>4. Ready(q)
      BY <2>3, <3>1, <3>2, <3>3 DEF Ready, Labels
    <3> QED
      BY <3>4
  <2> QED
    BY <2>1, <2>2, <2>3
<1> QED
  BY <1>1, <1>2, StoreAlways, MutexNext, PTL DEF StoreSpec

=============================================================================
