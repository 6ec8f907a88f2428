-------------------------------- MODULE AppLog --------------------------------
(***************************************************************************)
(* The output of one app on its way to the browsers: the program's pipe,   *)
(* the goroutine that reads it (pipeLines in process.go), the log buffers  *)
(* that Manager.logs has held for the app, and the streams of              *)
(* internal/api/logs.go.  A process has two such pipes, which nothing      *)
(* relates: the model has one.                                             *)
(***************************************************************************)
EXTENDS LogBuffer

CONSTANTS
  Procs,    \* processes; one is reused once its reader has ended
  Buffers,  \* LogBuffers; one is reused once nobody refers to it
  None,
  PipeCap,  \* lines that fit into a pipe nobody reads
  MaxLines  \* bound: lines printed in a behaviour

ASSUME AppLogAssumption ==
  /\ None \notin Procs \cup Buffers
  /\ PipeCap \in Nat \ {0} /\ MaxLines \in Nat

VARIABLES
  slot,      \* Manager.procs of the app
  logs,      \* Manager.logs of the app
  removed,   \* RemoveApp was called (for the properties)
  buffer,    \* the contents of the buffers
  prog,      \* the operating system's view of a process
  pipe,      \* what it has written and nobody read
  held,      \* lines in the scanner's buffer
  reader,    \* the goroutine
  into,      \* the buffer it writes to
  wrote,     \* lines a process has printed, those that reached the buffer,
             \* and whether one of them was too long
  budget,    \* lines that may still be printed
  stream,    \* where a stream is
  shows,     \* its buffer
  seen,      \* the number of the last line it sent
  missed     \* a line was written while its channel was full

output  == <<pipe, held, reader, into, wrote, budget>>
streams == <<stream, shows, seen, missed>>
lvars   == <<slot, logs, removed, buffer, prog, output, streams>>

\* By length: under 64 KB, up to the 512 KB of scannerBufSize, over it.
Lengths == {"short", "big", "overlong"}

NothingWritten == [out |-> 0, in |-> 0, long |-> FALSE]

LogTypeOK ==
  /\ slot \in Procs \cup {None}
  /\ logs \in Buffers \cup {None}
  /\ removed \in BOOLEAN
  /\ \A b \in Buffers : IsLogBuffer(buffer[b])
  /\ prog \in [Procs -> {"none", "alive", "exited"}]
  /\ pipe \in [Procs -> Seq(Lengths)] /\ held \in [Procs -> Seq(Lengths)]
  /\ \A p \in Procs : Len(pipe[p]) <= PipeCap
  /\ reader \in [Procs -> {"none", "scan", "ended"}]
  /\ into \in [Procs -> Buffers \cup {None}]
  /\ wrote \in [Procs -> [out : Nat, in : Nat, long : BOOLEAN]]
  /\ budget \in 0 .. MaxLines
  /\ stream \in [Viewers -> {"idle", "attach", "history", "live"}]
  /\ shows \in [Viewers -> Buffers \cup {None}]
  /\ seen \in [Viewers -> Nat]
  /\ missed \in [Viewers -> BOOLEAN]

-----------------------------------------------------------------------------
(* Manager.logs: the buffer of an app, made when first asked for, kept     *)
(* over restarts, forgotten by RemoveApp and by nothing else.              *)

Unused(b) ==
  /\ b # logs
  /\ \A p \in Procs : into[p] # b
  /\ \A v \in Viewers : shows[v] # b

\* Mutant: every start makes a buffer.
NewBufferAlways(b) ==
  /\ Unused(b)
  /\ logs' = b
  /\ buffer' = [buffer EXCEPT ![b] = NewLogBuffer]

BufferOfApp(b) ==
  /\ IF logs = None
     THEN Unused(b) /\ buffer' = [buffer EXCEPT ![b] = NewLogBuffer]
     ELSE b = logs /\ UNCHANGED buffer
  /\ logs' = b

RemoveApp ==
  /\ logs' = None
  /\ removed' = TRUE
  /\ UNCHANGED <<slot, buffer, prog, output, streams>>

-----------------------------------------------------------------------------
(* The process.                                                            *)

Start(p, b) ==
  /\ slot = None /\ prog[p] = "none"
  /\ BufferOfApp(b)
  /\ slot' = p
  /\ prog' = [prog EXCEPT ![p] = "alive"]
  /\ reader' = [reader EXCEPT ![p] = "scan"]
  /\ into' = [into EXCEPT ![p] = b]
  /\ UNCHANGED <<removed, pipe, held, wrote, budget, streams>>

\* write(2) blocks while the pipe is full.
PrintLine(p, length) ==
  /\ prog[p] = "alive" /\ budget > 0
  /\ Len(pipe[p]) < PipeCap
  /\ pipe' = [pipe EXCEPT ![p] = Append(@, length)]
  /\ wrote' = [wrote EXCEPT ![p].out = @ + 1,
                            ![p].long = @ \/ length = "overlong"]
  /\ budget' = budget - 1
  /\ UNCHANGED <<slot, logs, removed, buffer, prog, held, reader, into,
                 streams>>

Exit(p) ==
  /\ prog[p] = "alive"
  /\ prog' = [prog EXCEPT ![p] = "exited"]
  /\ UNCHANGED <<slot, logs, removed, buffer, output, streams>>

(* cmd.Wait closes the read end, read or not; then the watcher empties the *)
(* slot.                                                                   *)
Wait(p) ==
  /\ slot = p /\ prog[p] = "exited"
  /\ pipe' = [pipe EXCEPT ![p] = <<>>]
  /\ slot' = None
  /\ UNCHANGED <<logs, removed, buffer, prog, held, reader, into, wrote,
                 budget, streams>>

(* Nothing of the process is left: its record may stand for another.       *)
Forget(p) ==
  /\ prog[p] = "exited" /\ slot # p /\ reader[p] = "ended"
  /\ prog' = [prog EXCEPT ![p] = "none"]
  /\ reader' = [reader EXCEPT ![p] = "none"]
  /\ wrote' = [wrote EXCEPT ![p] = NothingWritten]
  /\ UNCHANGED <<slot, logs, removed, buffer, pipe, held, into, budget,
                 streams>>

-----------------------------------------------------------------------------
(* pipeLines.  The scanner reads what is there, and reads again when it    *)
(* has given out every line of it.                                         *)

Fill(p) ==
  /\ reader[p] = "scan" /\ held[p] = <<>> /\ pipe[p] # <<>>
  /\ held' = [held EXCEPT ![p] = pipe[p]]
  /\ pipe' = [pipe EXCEPT ![p] = <<>>]
  /\ UNCHANGED <<slot, logs, removed, buffer, prog, reader, into, wrote,
                 budget, streams>>

\* Mutant: a Scanner without the call of Buffer, whose limit is 64 KB.
TooLongDefault(line) == line # "short"

TooLong(line) == line = "overlong"

\* Mutant: the broadcast waits for room in every channel.
WaitsForViewers(b) == \A v \in Viewers : ~Full(buffer[b], v)

NeverWaits(b) == TRUE

Scan(p) ==
  /\ reader[p] = "scan" /\ held[p] # <<>>
  /\ ~TooLong(Head(held[p])) /\ NeverWaits(into[p])
  /\ held' = [held EXCEPT ![p] = Tail(@)]
  /\ buffer' = [buffer EXCEPT ![into[p]] = Write(@)]
  /\ wrote' = [wrote EXCEPT ![p].in = @ + 1]
  /\ missed' = [v \in Viewers |->
                  missed[v] \/ (shows[v] = into[p] /\ Full(buffer[into[p]], v))]
  /\ UNCHANGED <<slot, logs, removed, prog, pipe, reader, into, budget,
                 stream, shows, seen>>

ReaderEnds(p) ==
  /\ reader' = [reader EXCEPT ![p] = "ended"]
  /\ held' = [held EXCEPT ![p] = <<>>]
  /\ into' = [into EXCEPT ![p] = None]
  /\ UNCHANGED <<slot, logs, removed, buffer, prog, pipe, wrote, budget,
                 streams>>

(* Scan returns false: ErrTooLong, or the end of the pipe.                 *)
ScanFails(p) ==
  /\ reader[p] = "scan" /\ held[p] # <<>>
  /\ TooLong(Head(held[p]))
  /\ ReaderEnds(p)

EndOfPipe(p) ==
  /\ reader[p] = "scan" /\ held[p] = <<>> /\ pipe[p] = <<>>
  /\ prog[p] = "exited"
  /\ ReaderEnds(p)

-----------------------------------------------------------------------------
(* getLogsSSE.                                                             *)

Open(v, b) ==
  /\ stream[v] = "idle"
  /\ BufferOfApp(b)
  /\ stream' = [stream EXCEPT ![v] = "attach"]
  /\ shows' = [shows EXCEPT ![v] = b]
  /\ UNCHANGED <<slot, removed, prog, output, seen, missed>>

\* Mutant: Subscribe after a copy of Lines.
SubscribeAfterLines(v) ==
  /\ stream[v] = "attach"
  /\ buffer' = [buffer EXCEPT ![shows[v]] = SubscribeWithHistory(@, v)]
  /\ \E n \in 0 .. buffer[shows[v]].written : seen' = [seen EXCEPT ![v] = n]
  /\ stream' = [stream EXCEPT ![v] = "history"]
  /\ UNCHANGED <<slot, logs, removed, prog, output, shows, missed>>

Subscribe(v) ==
  /\ stream[v] = "attach"
  /\ buffer' = [buffer EXCEPT ![shows[v]] = SubscribeWithHistory(@, v)]
  /\ seen' = [seen EXCEPT ![v] = Newest(buffer[shows[v]])]
  /\ stream' = [stream EXCEPT ![v] = "history"]
  /\ UNCHANGED <<slot, logs, removed, prog, output, shows, missed>>

SendHistory(v) ==
  /\ stream[v] = "history"
  /\ stream' = [stream EXCEPT ![v] = "live"]
  /\ UNCHANGED <<slot, logs, removed, buffer, prog, output, shows, seen,
                 missed>>

Receive(v) ==
  /\ stream[v] = "live" /\ buffer[shows[v]].chan[v] # <<>>
  /\ seen' = [seen EXCEPT ![v] = Head(buffer[shows[v]].chan[v])]
  /\ buffer' = [buffer EXCEPT ![shows[v]] = Received(@, v)]
  /\ UNCHANGED <<slot, logs, removed, prog, output, stream, shows, missed>>

(* The browser has gone, or a ping could not be written.                   *)
Disconnect(v) ==
  /\ stream[v] = "live"
  /\ buffer' = [buffer EXCEPT ![shows[v]] = Unsubscribe(@, v)]
  /\ stream' = [stream EXCEPT ![v] = "idle"]
  /\ shows' = [shows EXCEPT ![v] = None]
  /\ seen' = [seen EXCEPT ![v] = 0]
  /\ missed' = [missed EXCEPT ![v] = FALSE]
  /\ UNCHANGED <<slot, logs, removed, prog, output>>

-----------------------------------------------------------------------------
LogInit ==
  /\ slot = None /\ logs = None /\ removed = FALSE
  /\ buffer = [b \in Buffers |-> NewLogBuffer]
  /\ prog = [p \in Procs |-> "none"]
  /\ pipe = [p \in Procs |-> <<>>] /\ held = [p \in Procs |-> <<>>]
  /\ reader = [p \in Procs |-> "none"]
  /\ into = [p \in Procs |-> None]
  /\ wrote = [p \in Procs |-> NothingWritten]
  /\ budget = MaxLines
  /\ stream = [v \in Viewers |-> "idle"]
  /\ shows = [v \in Viewers |-> None]
  /\ seen = [v \in Viewers |-> 0]
  /\ missed = [v \in Viewers |-> FALSE]

Reader(p) == Fill(p) \/ Scan(p) \/ ScanFails(p) \/ EndOfPipe(p)

LogNext ==
  \/ RemoveApp
  \/ \E p \in Procs : \/ \E b \in Buffers : Start(p, b)
                      \/ \E length \in Lengths : PrintLine(p, length)
                      \/ Exit(p) \/ Wait(p) \/ Forget(p) \/ Reader(p)
  \/ \E v \in Viewers : \/ \E b \in Buffers : Open(v, b)
                        \/ Subscribe(v) \/ SendHistory(v) \/ Receive(v)
                        \/ Disconnect(v)

LogSpec == LogInit /\ [][LogNext]_lvars

(* Readers run; a browser need not read.                                   *)
LogFairness == \A p \in Procs : WF_lvars(Reader(p))

LogFairSpec == LogSpec /\ LogFairness

-----------------------------------------------------------------------------
(* While a program runs and prints no line over 512 KB, every line it      *)
(* printed is in its pipe, in the scanner or in the log: none is lost      *)
(* before the exit (process.go:453-465).                                   *)
OutputKept ==
  \A p \in Procs :
    (prog[p] = "alive" /\ ~wrote[p].long) =>
       /\ reader[p] = "scan"
       /\ wrote[p].out = wrote[p].in + Len(pipe[p]) + Len(held[p])

(* Restarts and early or late browsers share one buffer: unless the app    *)
(* was deleted, what a process prints is what every stream of the app      *)
(* shows (manager.go:107-115, 134-136).                                    *)
OneBuffer ==
  ~removed =>
    /\ \A p \in Procs : reader[p] = "scan" => into[p] = logs
    /\ \A v \in Viewers : stream[v] # "idle" => shows[v] = logs

(* A stream shows every line from its history on, in order and once, until *)
(* it falls behind by a full channel (logs.go:59-71).                      *)
StreamNoGap ==
  \A v \in Viewers : stream[v] \in {"history", "live"} /\ ~missed[v] =>
    LET b == buffer[shows[v]]
    IN b.chan[v] = [i \in 1 .. b.written - seen[v] |-> seen[v] + i]

(* A program that fills its pipe is never held up by a browser that does   *)
(* not read: "drop lines for slow subscribers" (logs.go:34).               *)
OutputDrains ==
  \A p \in Procs :
    (Len(pipe[p]) = PipeCap /\ reader[p] = "scan")
      ~> (Len(pipe[p]) < PipeCap \/ reader[p] = "ended")
=============================================================================
