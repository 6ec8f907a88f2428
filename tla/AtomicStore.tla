----------------------------- MODULE AtomicStore -----------------------------
(***************************************************************************)
(* What internal/store promises to those who write: each call changes one  *)
(* app, at one moment and as a whole, its variables included, or changes   *)
(* nothing; nothing that a call has changed is lost.  AppStore.tla, which  *)
(* goes statement by statement and crashes in between, implements this.    *)
(***************************************************************************)
CONSTANTS
  Apps,
  Saves,   \* the forms and imports that are saved
  Absent   \* no app

VARIABLE saved  \* the apps, each with its variables

Saved(form, entry, rootfs) ==
  [form |-> form, vars |-> {form}, entry |-> entry, rootfs |-> rootfs]

AtomicInit ==
  saved \in [Apps -> {Saved("old", "none", FALSE), Absent}]

(* A new app has no rootfs yet; an app that is there is not replaced.      *)
Create(a, form) ==
  /\ saved[a] = Absent
  /\ \E entry \in {"none", "user"} :
       saved' = [saved EXCEPT ![a] = Saved(form, entry, FALSE)]

(* An edit keeps the rootfs, whatever pulls have written since it began.   *)
Update(a, form) ==
  /\ saved[a] # Absent
  /\ \E entry \in {"none", "image", "user"} :
       saved' = [saved EXCEPT ![a] = Saved(form, entry, @.rootfs)]

Delete(a) == saved' = [saved EXCEPT ![a] = Absent]

UpdateEntrypointCmd(a) ==
  /\ saved[a] # Absent
  /\ saved' = [saved EXCEPT ![a].entry = "image"]

UpdateRootfsPath(a, set) ==
  /\ saved[a] # Absent
  /\ saved' = [saved EXCEPT ![a].rootfs = set]

AtomicNext ==
  \E a \in Apps :
    \/ \E form \in Saves : Create(a, form) \/ Update(a, form)
    \/ Delete(a)
    \/ UpdateEntrypointCmd(a)
    \/ \E set \in BOOLEAN : UpdateRootfsPath(a, set)

AtomicSpec == AtomicInit /\ [][AtomicNext]_saved
==============================================================================
