# A verification of PocketPaaS

TLA+ models of the concurrent core of PocketPaaS, the configurations that
model-check them with TLC, and theorems about them that TLAPS checks. Line
numbers are those of `src/`; `PROJECT.json` maps each definition to the lines it
stands for, and lists runs, mutants, hazards, findings and theorems.

## 1. The system

PocketPaaS is one Go process that pulls OCI images, unpacks them into a directory
per app and runs them as child processes, driven from a web page. Every HTTP
request is a goroutine of its own.

| Component | State | Operations | What makes it correct |
|---|---|---|---|
| Supervisor (`runtime/manager.go`, `process.go`) | `procs` under `Manager.mu`; per process `stopping`, `done`, a watcher and perhaps a pruner goroutine | `Start`, `Stop`, `Restart`, `IsRunning` | one process per app, none out of reach; intentional stops are not crashes; a dead app is not shown as running; slots are freed; calls return |
| App handlers (`api/apps.go`) | none of their own | create, edit, start, stop, restart, delete, pull, pull all, pull stream | rows and processes stay related across non-atomic sequences of calls |
| Pull and progress (`api/apps.go`, `registry/`, `Manager.pulls`) | a channel of 64 messages per app, registered in a map; `apps.status = pulling` | `OpenPullChannel`, `ClosePullChannel`, sends, the SSE stream | a row marked `pulling` gets an outcome; no double close, no send on a closed channel; viewers are told the end |
| Sequential deploy (`api/portability.go`, `Manager.deploy`) | one slot with a log and a `Done` channel; a relay goroutine per pull | `StartDeploy`, `FinishDeploy`, the loop over the apps of a file, the SSE stream | one deploy at a time; the slot is freed; log lines in order and without gaps |
| Log buffers (`runtime/logs.go`, `api/logs.go`) | a ring of 1000 lines, channels of 256 | `Write`, `SubscribeWithHistory`, `Unsubscribe` | history and live lines join without gap or repetition; writers never wait |
| Health pingers (`runtime/manager.go`) | a state and a cancel function per app | `StartHealthPinger`, `RemoveApp`, the goroutine | one live pinger per app; an app that is down is shown so |
| App store (`store/`) | the `apps` and `env_vars` tables, one SQLite connection | single-statement updates, `Create`, `Update`, `Delete`, the reset at boot | a row and its variables are of one save, over crashes; a pulled path is not taken back; no wait on its own connection |
| Export, import (`portability/`) | none | `Export`, `Import`, `ImportParsed` | an import changes no row that is there |
| Sessions (`auth/`) | a map of tokens and expiries, the browsers' cookies | login, check and refresh, logout | a valid session is recent and not logged out |
| Stats (`sysinfo/`) | previous CPU counters | sampling | the percentage is that of two readings in a row |
| Boot (`cmd/server/main.go`) | none | reset of rows, auto-start, pingers | no stale row survives; it ends in listening |
| Tunnel, pages, installer | a URL | - | nothing depends on them |

**Interactions.** Handlers, the deploy and the boot code call the manager. The
manager's mutex protects its maps only: `Start` holds it from its check of `procs`
to its return (a database read and an exec included), `Stop` drops it before
signalling and waiting, watchers and pruners take it for one map access. The row
in the database is written by all of them, and by pulls and deploys, with no lock
between a decision and the write. A pull talks to its viewers through the channel
in `Manager.pulls`, a deploy through its log buffer.

**Hard behaviours.** (a) `Stop` waits for `proc.done` while the slot is emptied
later, by another goroutine. (b) Watcher, pruner and pull act on an *app ID* that
may have another process by then. (c) Check and act are apart: `IsRunning` before
a pull, `isStopping` before a status, `PullChannel` before `OpenPullChannel`.
(d) Blocking and non-blocking sends on the same bounded channel. (e) A server that
ends at any moment and resets its rows at the next boot. The list with lines is
`hazards` in `PROJECT.json`.

## 2. The modules

| Module | What it is |
|---|---|
| `Supervisor` | the abstract specification: an app's slot is filled only when empty and emptied only after the death of its holder |
| `AtomicStore` | the abstract specification: a call changes one app, variables included, at one moment or not at all |
| `Manager` | the detailed supervisor with the handlers, pulls and deploys that call it or write its rows |
| `Server` | boot, auto-start, listening and crashes, around `Manager` (which it extends) |
| `ImagePull` | pulls, their channel, their viewers, crashes and boots |
| `LogBuffer` | the ring buffer, as operators on a record (each call is atomic under the buffer's mutex) |
| `Deploy` | the deploy slot, the deploy goroutine, the relay and the progress streams, over `LogBuffer` |
| `AppLog` | the pipe of a program, its reader, `Manager.logs` and the log streams of an app, over `LogBuffer` |
| `AppStore` | the two tables, statement by statement, on one connection: edits, imports, deletes, lists, and what pulls, prunes and starts do to them |
| `HealthPinger` | the pingers, the sweeps that start them and `RemoveApp` |
| `Sessions` | sessions, cookies, late requests, expiry, restarts of the server |
| `Layers` | `registry.Extract` on one directory, against the filesystem an image stands for |
| `LaunchPlan` | which file `startProcess` executes, with which arguments and environment |
| `CpuSampler` | the CPU percentage, from unsigned counters that may go back or fail to be read |
| `ManagerProofs`, `ServerProofs`, `ImagePullProofs`, `DeployProofs`, `AppLogProofs`, `AppStoreProofs`, `PartsProofs` | theorems about them |
| `LogBufferProofs` | lemmas about the ring and the channels, for `DeployProofs` and `AppLogProofs` |
| `MCManager`, `MCServer`, `MCImagePull`, `MCDeploy`, `MCAppLog`, `MCAppStore`, `MCParts` | the instances TLC checks |

**Manager.** A request goroutine (`Reqs`) has a program counter; each action is
what happens between two points where another goroutine can interleave: one
database statement, one critical section of `mu`, one channel wait, one signal.
`mu` is held across actions in `Start` only (`Lock` in `Admitted`, then `Launch` or
`LaunchFails`, `Running`), as in the code. `Lookup` is `IsRunning`; `Find`, `Mark`,
`Signal`, `Await`/`Timeout`, `Stopped` are `Stop`; `RefuseRunning`, `RefuseRow`,
`Admitted`, ... are `Start`; `Restart`, delete and a deploy's turn are sequences of
these, chosen by `AfterStop`, `AfterStopError` and `AfterStart`. A process is a
record with the operating system's view of it (`os`), the signal it was sent, and
the positions of its watcher and pruner. `Exit`, `ExitDeaf`, `Obey` and `Kill` are
the environment: a program may end any time, obey SIGTERM unless it is `Deaf`, and
is killed by `os/exec` once its context is cancelled, except in chroot mode, where
the command has no context (process.go:48). Records are reused when no goroutine
refers to them, which keeps the state finite without a bound on the number of
launches. Time is left out: a timer may fire whenever its wait is not over.
`prune_after_start` can be edited at any moment and is read as either value.

**Server.** `Serve` is any step of `Manager` while the server is up; `Boot` is the reset of
the rows; `ListAutoStart` and `AutoStart` are `autoStartApps`, whose Starts are requests of
the goroutine `Main`; `Listen` is the end of `main`'s set-up. Requests come in before it,
through the tunnel. `Crash` takes all memory and, since container and server end together,
all processes; the rows stay. The initial rows are any a crash can have left.

**ImagePull.** A puller is the handler up to the spawn and then the goroutine of
`runPull`. The channel is a counter of messages, a closed flag and the map entry;
`SendProgress` drops on a full channel, `Send` (ERROR, Auto-configured, DONE) waits.
`Panic` is the send on a closed channel, which ends the server. `Shutdown` and `Boot`
are the end and the next start of the process, with the reset of rows.

**LogBuffer, Deploy.** Lines are numbers. `Say` is `dlog.Write`; runs of writes with
nothing between them are one line. The relay goroutine is an actor of its own, joined
by `PullFailed` and `Pulled` (`<-pullRelayed`). `FinishDeploy` is two steps, since it
reads `Manager.deploy` under the mutex and closes `Done` after. A stream subscribes,
sends its history, checks `Done` once and then selects: `Receive` and `SayDone` are
both enabled when both cases are ready. A stream that has said "done" is `told` until the
deferred `Unsubscribe` (`Return`), which drops what its channel still holds; `NoGap` speaks of
that moment too. `ImportParsed` has no path that returns an
error, so the handler's branch for one is not modelled. A second import is in `AppStore`;
the rows and the processes of a deploy are in `Manager`.

**AppLog.** `BufferOfApp` is `Manager.LogBuffer`, called by a `Start` and by every stream. The
reader has a scanner, which takes what is in the pipe (`Fill`) and gives out line after
line (`Scan`); a line is short, over the 64 KB default, or over the 512 KB of
`scannerBufSize`, and the last ends the reader (`ScanFails`). `Wait` is `cmd.Wait`, which
closes the pipe read or not. A program that prints into a full pipe waits. stdout and
stderr have a reader each and share nothing but the buffer; the model has one.

**AppStore.** Every statement is an action with `conn = None` (or `conn = r` inside the own
transaction), for `SetMaxOpenConns(1)` makes every other goroutine wait. A row is the save it
comes from (`form`), whether the image or the user set its entrypoint, and whether it has a
rootfs; its variables are the set of saves they come from. Whether the driver enforces
foreign keys is the constant of a behaviour (`fk`): db.go asks for it in a form that
modernc.org/sqlite may ignore, and every property holds either way. `Recovered` is SQLite's rollback of
an open transaction after a crash. `AtomicStore` is what the callers are promised; its
`saved` is `Visible(Committed)`, the tables as last committed, an app with its
variables, so that an open transaction shows nothing and a commit shows all of it
at once. `work_dir` and `exposed_port` behave as the
entrypoint does and are left out.

**HealthPinger.** `List` and `StartHealthPinger` are apart, since a sweep goes through what
`List` returned. The goroutine's `select`, `IsRunning`, `Get` and write are steps of their own.

**Layers.** An image is the sequence of its headers, each with its layer, operation and
name; `done` counts those carried out. Names refer to inodes, so hard links, symlinks and
files written through either are what they are on a disk. An attempt may break off at any
header, with a file half written (`HalfWritten`), and the next begins again on what is
there. It may be of the same image or, since the reference can be edited (apps.go:413) and
a tag can move, of another one (`Others`); nothing empties the directory for it, unless a
prune in between has removed it (`PullAgain`). The history variable `before` is the directory as it was when the
present image was first pulled on it. `Flattened` is the reference: what a layer hides and what it adds, in whatever
order the layer has them. `Plain` names the images on which `Extract` agrees with it: the
whiteouts of a layer precede its files; a link comes when something has made its
directory (a failed `Symlink` or `Link` is dropped, extract.go:114, 126); a hard link follows the file
of its layer it names; no name is both a file and a link, and no file is written again
once it is linked to. `Takes` says that what another image left is not in the way either:
where the image has a file, there is nothing, or a file that has no other name. What the
others come to is in section 5. What a program writes into its own rootfs is left out. **LaunchPlan** has no
behaviour: every app of a bounded set is an initial state. A bare name that the rootfs does
not have is looked up on the host, and what is found there is wrapped in the image's linker
or shell all the same (process.go:111), as `PrefixPlan` has it. `RunsAs` is what the kernel, the
linker and the shell make of an argument list, and is written from their manuals, not from
the code. **CpuSampler** computes with words of 16 where the code has 2^64; what matters is
that differences wrap. **Sessions** has a clock and the cookies' `MaxAge`.

## 3. What the runs check

| Run | Instance | Shows |
|---|---|---|
| `mgr_safety` | 1 app, 2 requests, 2 processes, chroot, deaf program; starts, deploys and pulls | `EveryInstanceTracked`, `StopNotReportedAsCrash`, `RunningBacked`, and `OneInstance`: the refinement of `Supervisor` |
| `mgr_live` | 1 app, 2 requests, 1 process, prefix mode, deaf program; restarts and deletes, fair | `RequestsFinish`, `RunningCorrected`, `ForceKilled`, `SlotReleased`, and `TypeOK` |
| `server` | 1 app, `main` and 1 client that restarts and deletes, 1 process, prefix mode, deaf program, crashes, fair | `MarksBacked` across crashes, `BootFinishes` |
| `pull_safety` | 2 apps, 2 pullers, 1 viewer, channel of 2, 3 messages, crashes | `PullingBacked`, `RegisteredOpen`, `ClosedOnce`, `CompleteMeansWritten`, `TypeOK` |
| `deploy` | 2 deploys of 2 apps, 1 browser, channels of 1, ring of 2, fair | `OneDeploy`, `FinishesOwn`, `NoGap`, `LinesInOrder`, `SlotFreed`, `StreamsEnd`, `TypeOK` |
| `store` | 1 app, 2 goroutines, all seven calls, crashes, both settings of the foreign keys, fair | `EnvMatches`, `RootfsAsPulled`, `ImportKeepsRows`, `CallsAreAtomic` (the refinement of `AtomicStore`), `CallsReturn` |
| `applog` | 2 processes, 2 buffers, 1 browser, a pipe of 1 line, ring of 2, channel of 1, 3 lines, fair | `OutputKept`, `OneBuffer`, `StreamNoGap`, `OutputDrains` |
| `parts` | the smaller modules, one per behaviour (below) | `OneLivePinger`, `DownIsNoticed`; `ViewersEnd`; `ExtractedOnTop`; `RunsImageProgram`, `NothingOfHost`; `PercentIsExact`; `ValidIsRecent` |
| `mgr_restart`, `mgr_chroot`, `pull_full`, `store_override` | the smallest that shows it | a sentence of the repository the code does not keep (section 5) |

`MCParts` puts modules that share nothing side by side; its variable `part` says which of them
moves. Pingers: 1 app, 2 goroutines, 1 sweep. Pulls: 1 puller, 2 viewers, a channel of 2 and 3
messages, the fair instance of `ImagePull`. Layers: every image of two layers with
up to two entries each over two names, the first with the directory and the second with
or without (`TwoLayers`), and one more pull, of the same image or of one with other
contents, whose single layer has up to two entries (`OneLayer`). Launches: every
mode, kind of program, interpreter, `#!` argument and four sets of variables, two search
directories. Sampler: words of 16, counters up to 3, steps up to 2. Sessions: 2 tokens, 2
browsers, a TTL of 2 in 4 units of time.

**Bounds.** Apps share nothing in `Manager` but `mu`, so one app shows what a second
would; two requests are what every race of the code needs (a check and what slips in
after it), and two process records let an old process's goroutines meet a new process.
A deploy contains a pull, a `Stop` and a `Start`, so that in `mgr_safety` the `Start` of a deploy
races one that was asked for, and two of those race each other; the safety properties are proved for every set of apps, requests, processes
and kinds of request. In the store, apps share the connection only, and of two
goroutines one waits for it while the other has it; the safety properties are proved for
any number. Channels hold one or two messages, fewer than are sent, so that full, empty and
half-full all happen; a pipe of one line is full after one. Two names show every way one
entry of a layer can touch another; two search directories show that the first wins. Line
numbers need no bound in a deploy, which writes finitely many; a program may print `MaxLines`,
enough to fill pipe, scanner and channel.

**Symmetry** is used in the safety runs only (requests, processes, pullers, viewers
are interchangeable), never with a liveness property.

**Fairness.** The Go scheduler runs every runnable goroutine: weak fairness for
watchers, relays, streams, pipe readers, pingers, `main` and goroutines that wait for nothing
another can take away. A request contends for `Manager.mu`; `sync.Mutex` hands the lock to a
waiter after 1 ms of starvation, hence strong fairness for `Handler(r)`. `database/sql` serves
those who wait for the connection in the order they came, hence strong fairness for the
store's `Step(r)`. Downloads and extractions end: the
pull context has a 30 min timeout (apps.go:150, portability.go:224); a ping ends after 3 s
(manager.go:302). Signals are
delivered and SIGKILL is obeyed. `Boot` is weakly fair on the assumption that the
platform restarts the server. Nothing is assumed of clients, browsers or programs: they
need not ask, stay, read, leave or exit. In `applog` the browsers have no fairness at
all: `OutputDrains` says that they cannot hold a program up.

Each property of a passing run has a mutant: a plausible bug (`\* Mutant:` beside the
definition it replaces) under which TLC refutes the property with the same
configuration.

## 4. What is proved

For all values of the constants, from the named assumptions of the modules:
`ManagerAssumption` (`None` is no process and no request; `Deaf` and `Asked` are of the
right type), `ServerAssumption` (`Main` is a request), `ImagePullAssumption`,
`DeployAssumption`, `AppLogAssumption` (`None` is nobody's name; sizes are numbers, those of
channels and pipes positive), `LogBufferAssumption` (ring and channels are not empty),
`AppStoreAssumption` and `PingerAssumption` (names that mean something else are nobody's,
and `Absent` is no app), `SamplerAssumption` (a word holds the sum of the three counters, as
64 bits hold that of ticks of 10 ms), `LaunchAssumption` (the variables the code sets can be
in an environment), `LayersAssumption` (finitely many names; the layers of an image come
in order), and for the sessions that `TTL` and `MaxTime` are numbers.

`ManagerProofs`: `IInv` = `TypeOK`, `CoreInv` and `RunningBacked`. `RunningBacked` is not
inductive alone. It needs to know that the holder of `mu` is inside `Start` and everybody
else is not (`LockInv`); that `procs[a]` is a process of `a` between its launch and its
watcher's delete (`SlotInv`); how `os`, `watcher`, `sig`, `stopping` and `pruner` of one
process go together over its life, in particular that a signal follows a mark and that a
report follows a check that found no mark (`LifeInv`); and that the target of a `Stop` is a
process of its app whose mark, once set, stays (`TargetInv`). From `Invariance`:
`TypeCorrect`, `Tracked` (`EveryInstanceTracked`), `StopsAreQuiet`
(`StopNotReportedAsCrash`), `Backed` (`RunningBacked`), and `Implements`: initial states map
to initial states of `Supervisor`, `Launch` to its `Launch`, the deaths to `Die`,
`WatchDelete` to `Release`, every other step to a stutter.

`ServerProofs` extends it over crashes: `ServerInv` says that `CoreInv` always holds, that
nothing is in memory while the server is down, and that marks are backed while it is
up. `RunningBacked` itself fails while the server is down, when the rows are
whatever the crash left; it comes back because `Boot` rewrites them before anybody
reads one, which is what `MarksStayBacked` (`MarksBacked`) says of any number of crashes.
`TrackedOverCrashes` is `EveryInstanceTracked` for the server.

`ImagePullProofs`: `Backed` (`PullingBacked`) is inductive with `TypeOK`; its point is that
every way out of a pull writes a status, and that a crash is followed by the reset at
boot. `Open` (`RegisteredOpen`) and `Once` (`ClosedOnce`) come from `ChanInv`, an invariant of
the lives of channels: a registered one is open and belongs to a pull of its app; one
about to be closed is open, registered no more, and held by one goroutine only; one not
made yet is neither registered nor held. It holds although the pull that closes need not
be the one that opened: what makes it true is that `ClosePullChannel` looks up and removes
the entry in one critical section. `Complete` (`CompleteMeansWritten`) takes the two together:
who closes the channel of a lone pull is that pull, past its outcome, so that
`PullingBacked` leaves no `pulling` in the row.

`LogBufferProofs` has the lemmas for whoever uses a log buffer: what each operation does to
each field, that it keeps `IsLogBuffer`, and `Follows`: a stream that has missed nothing has
in its channel the run of numbers from the line it is at to the last one written. A
subscription makes it true at the newest line of the history (`FollowSubscribe`), a write
and a receive keep it, and nothing another stream does disturbs it (`FollowOther`).

`DeployProofs`: `OneAtATime` and `FinishOwn` from `SlotInv` (whoever is between its
`StartDeploy` and the close of its `Done` is the one in `Manager.deploy`, open); `Ordered`
from `RelayInv` (an open relay means its pull is under way); `Contiguous` (`NoGap`) from
`StreamInv`: a log is not reset while a stream watches it, and every stream that is
subscribed, the told ones included, follows its log. So what a browser has been sent when it
is told the end is a run without a gap, and what it has not been sent is the content of
its channel, `SubCap` lines at most; the code does not send these (section 5). `TypeCorrect` needs `QueueInv` besides (an app is left while one is being
deployed) and that no log holds a channel over its capacity.

`AppLogProofs`: `LogInv` is the types, `Links` (a reader and a stream have a buffer),
`StreamsFollow`, `OneBuffer`, and for each process `Life`: no pipe outlives the slot, a
reader that has ended holds nothing, a line over the limit in a pipe or in a scanner was
counted, and what was printed is logged or on its way. From it `NoLineLost`
(`OutputKept`), `SharedBuffer` (`OneBuffer`), `StreamContiguous` (`StreamNoGap`). That a buffer
is made only for a name nobody refers to is why a delete with streams still open does
not disturb them.

`AppStoreProofs`: `StoreInv` is the types, `Where` (which call can be at which statement) and
`Transactions`. Inside a transaction the row and its variables disagree, so `EnvMatches` is not
inductive: the invariant has to say what is half done at each statement (`HalfDone`), that
the other apps are as before, and that the tables to roll back to are good. It holds at
every statement, so a crash between any two, or a statement that is refused, is covered, with
foreign keys enforced or not. From it `StoreTypes`, `EnvOfOneSave` (`EnvMatches`), `PathsStay`
(`RootfsAsPulled`), `ImportsAddOnly` (`ImportKeepsRows`). `StoreImplements` (`CallsAreAtomic`) is the
refinement of `AtomicStore`: statements inside a transaction and rollbacks, those of a
crash included, are stutters, a commit is the whole `Create` or `Update`, any other write a
step. `StoreInv` does not say enough for it: the commit of an edit has to be a step from the
tables as they were, so `Pending` relates the row a transaction has written to the row at
its begin (the form is the caller's, the rootfs as it was; an import's row was absent).
`NoCircle` is freedom from deadlock: while anybody is busy, somebody's next statement waits
neither for the connection nor for the manager's mutex, because who has the connection
never waits and who has the mutex waits for the connection only (`MutexInv`). That
everybody gets his turn, `CallsReturn`, needs fairness and is model-checked.

`PartsProofs` has the smaller modules.

- *Pingers and sessions.* `PingerIsUnique` (`OneLivePinger`: the goroutines not cancelled are
  exactly those registered, hence one per app) and `ValidSessions` (`ValidIsRecent`: the expiry
  is always `TTL` after the last use, and a token logged out has no session; a late request
  of a browser that has logged out finds none to refresh).
- *Sampler.* `PercentOfReadings` (`PercentIsExact`). The invariant says that `prev` is the last
  reading or the zeros of a failed one, and that the busy ticks have only grown
  since; `BusyDifference` is the arithmetic of the words: `deltaTotal - deltaIdle` wraps back to the busy
  ticks although the idle difference alone may have wrapped.
- *Launch plans.* `ImageProgramRuns` (`RunsImageProgram`) and `HostIsNotUsed` (`NothingOfHost`), for
  any arguments, any number of searched directories and any environment. They follow the
  argument list through the linker and the shell (`LinkerLoads`, `ShellReads`), and each variable
  through the two passes over the environment (`PathPrefixed`, `LibPathFirst`, `Defaults`, `LibPaths`).
- *Layers.* `ExtractPutsOnTop` (`ExtractedOnTop`), for images of any length over any finite set
  of names, any number of attempts, and any directory the image `Takes`. `Extracting` says that
  after `done` headers each name is what the last header that packs or hides it says
  (`AsPacked`), or has been left by an earlier attempt, and that the names the image does not
  touch are as they were (`KeepsOthers`); that is not inductive alone. A file must not be
  written through a symlink (`FilesAreFiles`) nor into an inode that a name already right
  shares (`Shared`: with a file only hard links to it share an inode, and those done already
  were packed for it); a link must find its directory (`DirThere`) and its target (`TargetIs`), and a
  new file an inode of its own (`FreeInode`, a pigeonhole argument). After a failure the disk is
  good to start from (`Sound` at 0), half-written file included; so it is for another image
  that takes it (`FromAnother`), and the type of the disk is kept whatever the image is
  (`EntryTyped`). `AllEntries` then shows that the last word on each name is `Flattened`, which
  speaks of layers and not of the order of headers. `ExtractIsImage` (`ExtractedIsImage`, no run) is the
  sentence of extract.go:14, for the first image on an empty directory only: every name is
  as in `Flattened`.

Writing that proof corrected the model: the first `Plain` admitted images with a link
before its target, or before its directory, on which a retry differs from the image.

Only model-checked: all liveness (`RequestsFinish`, `RunningCorrected`, `ForceKilled`,
`SlotReleased`, `BootFinishes`, `SlotFreed`, `StreamsEnd`, `CallsReturn`, `OutputDrains`,
`DownIsNoticed`, `ViewersEnd`), since fairness and ENABLED are out of the prover's reach here,
and the runs of section 5, which are refutations. Every safety property that a passing run
checks is a theorem.

## 5. Where the code departs from what it says

Refuted by a run, with the sentence they come from, in `findings`:

- `mgr_restart`: `Restart` alone can answer "app is already running" and leave the app
  stopped: `Stop` returns when the process is reaped, its slot is emptied later.
- `mgr_chroot`: in chroot mode nothing force-kills a program that ignores SIGTERM; it
  keeps its slot for ever.
- `pull_full`: a pull nobody watches blocks for ever on its last messages when the
  channel has filled (30 layers and more).
- `store_override`: a pull writes the image's entrypoint over one the user has set since the
  pull read the row.

The models reach what follows; no property claims the contrary.

*Processes and rows.* The watcher of an old process may write `crashed` or `stopped` over the
`running` of the next one (manager.go:160), and a `Stop` between `isStopping` and that write is
overwritten (manager.go:154). In prefix mode the cancelled context kills the program at
once, not after the 10 s of manager.go:189. A pruner of a crashed process prunes the rootfs of its
successor (manager.go:173); when the prune fails, the path stays. Deleting an app does not
wait for its process (apps.go:135). A `Start` between the check and the mark of a pull runs on
a directory that is being replaced (apps.go:218). With an empty `rootfs_path`, after a prune,
a start resolves the image's entrypoint on the host filesystem, although the form says that
the app cannot be restarted.

*Pulls and deploys.* Of two pulls of one app that pass the check together, the first to end
closes the channel of the other, whose next send ends the server (manager.go:261), although the
caller of `Pull` "owns the channel" (registry/pull.go:24). The path of a pull may be overwritten
with the empty one of a prune or a deploy that began before it and ends late
(manager.go:182, portability.go:302). The stream of a deploy may be told "done" while lines wait in its
channel, for `select` takes either case: the last lines of the log, 256 at most, are then never
sent, with the final summary among them (portability.go:151-171). The deploy page says that all apps
were pulled and started, whatever happened to them (deploy_progress.html:38).

*Health.* A pinger past its `IsRunning` leaves a state behind `RemoveApp`, or writes its own beside a
newer pinger's; a sweep that listed an
app before its delete gives it a pinger nobody cancels (manager.go:271). An app that is
created, edited or deployed gets no pinger before the next boot or import, and one
whose endpoint is edited keeps the old address.

*Logs.* A line over 512 KB ends the reader for good; the program blocks once its pipe is full
(process.go:453). The last lines of a program may be closed away by `cmd.Wait` before they are
read (process.go:480). The stream of a deleted app stays on its old buffer.

*Store.* `Get` and `List` read a row and its variables in two statements (apps.go:160), so one
save's row may come with another's variables. An edit form that is older than a pull sets
the entrypoint and the port back. A space does not clear the entrypoint, which is trimmed
first (api/apps.go:416-417). An edit that races a delete can leave variables without a row, and
so does every delete if the driver does not enforce foreign keys (db.go:13); an import of the
same ID then has them besides its own. `EnvMatches` and `Visible` leave such left-over variables out.

*Layers.* A second pull may be of another image, and neither `runPull` nor `Extract` (extract.go:16-44)
empties the directory: the files of the old image that the new one neither packs nor
hides stay, so the result is not "the image's flattened filesystem" (extract.go:14), but that on top of
what was there. `ExtractedOnTop` says which, and only the first image of an app is promised the
sentence itself (`ExtractedIsImage`). `Takes` leaves out the leftovers that are in the way: a file
of the new image goes through a symlink of its name, or into an inode other names
share. `Plain` leaves out the images on which `Extract` departs from "flattened" by itself: an
opaque whiteout removes what its own layer has put there before it; a file goes through a symlink of its name, or into an inode that other names
share; a link whose directory or target is not there yet is dropped without an error, and
a retry finds what the last attempt made of it.

*Launches.* A bare name that the rootfs does not have is looked up on the host (process.go:77)
and, if it is dynamic or a script, loaded by the image's linker or shell where the image has
them. A relative entrypoint is not run through the image's linker. Of several `PATH` variables
only the first is rewritten; one spelled `Path` suppresses the default. A `#!` line is split at
spaces only.

*Sessions and statistics.* The cookie is not renewed with the session (auth.go:46), so the browser is
logged out a day after its login, however active; expired sessions stay in the map. The clamp
of a negative percentage compares an unsigned number and is never taken.

## 6. What is not modelled

- The tunnel: one goroutine that stores a URL nothing depends on. Its use, requests before
  `main` listens, is in `Server`.
- Pages, routing and the stats handler: rendering, no state of their own. The routes fix
  which calls the models' requests make.
- The installer and the build files, outside the running program.
- The parsing of forms, of image references and of import files; the traffic with registries,
  whose outcome (messages, then success or failure) is chosen freely in `ImagePull` and `Deploy`.
- Database errors (a full disk, a lock), most of which the code ignores. The refusals that
  the tables themselves can give, a key that is taken and a reference to no row, are in
  `AppStore`, with their rollbacks.
- `ensureChrootDNS` and what `PruneRootfsKeepDNS` keeps, which are file I/O; of a prune the models
  have its moment and the path it writes.
- Grandchildren that outlive the process group, the reuse of PIDs, and processes that would
  outlive the server: the container ends with it.
- ELF and `ld.so` search details beyond one linker and one set of library directories;
  directories inside layers, permissions and path escapes.
- RAM numbers and the comparison of passwords: read and shown, or one library call.
