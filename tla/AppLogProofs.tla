----------------------------- MODULE AppLogProofs -----------------------------
(***************************************************************************)
(* The output of an app, for any number of processes, buffers and          *)
(* browsers, and pipes, rings and channels of any size.                    *)
(***************************************************************************)
EXTENDS AppLog, LogBufferProofs

LogTypes == LogTypeOK /\ buffer \in [Buffers -> LogRecords]

(* A reader and a stream have a buffer.                                    *)
Links ==
  /\ \A p \in Procs : reader[p] = "scan" => into[p] \in Buffers
  /\ \A v \in Viewers : stream[v] # "idle" => shows[v] \in Buffers

StreamsFollow ==
  \A v \in Viewers :
    stream[v] \in {"history", "live"} =>
      Follows(buffer[shows[v]], v, seen[v], missed[v])

NoneLong(lines) == \A i \in 1 .. Len(lines) : lines[i] # "overlong"

(* The life of a process, its pipe and its reader.                         *)
Life(p) ==
  /\ prog[p] = "none" => /\ reader[p] = "none"
                         /\ wrote[p] = NothingWritten
                         /\ pipe[p] = <<>>
  /\ prog[p] = "alive" => slot = p
  /\ prog[p] = "exited" /\ slot # p => pipe[p] = <<>>
  /\ reader[p] # "scan" => held[p] = <<>>
  /\ ~wrote[p].long => NoneLong(pipe[p]) /\ NoneLong(held[p])
  /\ prog[p] = "alive" /\ ~wrote[p].long =>
       /\ reader[p] = "scan"
       /\ wrote[p].out = wrote[p].in + Len(pipe[p]) + Len(held[p])

Lives == \A p \in Procs : Life(p)

LogInv == LogTypes /\ Links /\ StreamsFollow /\ Lives /\ OneBuffer

-----------------------------------------------------------------------------
(* What a step keeps by leaving things alone.                              *)

LEMMA LifeKept ==
  ASSUME NEW p \in Procs, Life(p),
         pipe'[p] = pipe[p], held'[p] = held[p], prog'[p] = prog[p],
         reader'[p] = reader[p], wrote'[p] = wrote[p],
         slot' = p <=> slot = p
  PROVE  Life(p)'
BY DEF Life, NoneLong

LEMMA LivesKept ==
  ASSUME Lives, UNCHANGED <<slot, prog, pipe, held, reader, wrote>>
  PROVE  Lives'
BY LifeKept DEF Lives

LEMMA StreamsKept ==
  ASSUME Links, StreamsFollow, UNCHANGED streams,
         \A v \in Viewers : shows[v] \in Buffers =>
                              buffer'[shows[v]] = buffer[shows[v]]
  PROVE  StreamsFollow'
BY DEF Links, StreamsFollow, streams

LEMMA TailNoneLong ==
  ASSUME NEW s \in Seq(Lengths), s # <<>>
  PROVE  /\ Head(s) \in Lengths /\ Tail(s) \in Seq(Lengths)
         /\ Len(Tail(s)) = Len(s) - 1
         /\ NoneLong(s) => NoneLong(Tail(s)) /\ Head(s) # "overlong"
<1>1. /\ Tail(s) \in Seq(Lengths) /\ Len(Tail(s)) = Len(s) - 1
      /\ \A i \in 1 .. Len(s) - 1 : Tail(s)[i] = s[i + 1]
      /\ Head(s) = s[1] /\ Len(s) \in Nat \ {0}
  BY HeadTailProperties, EmptySeq
<1>2. Head(s) \in Lengths
  BY <1>1
<1>3. NoneLong(s) => NoneLong(Tail(s)) /\ Head(s) # "overlong"
  BY <1>1 DEF NoneLong
<1> QED
  BY <1>1, <1>2, <1>3

-----------------------------------------------------------------------------
(* The counts of one process.                                              *)

Counts == [out : Nat, in : Nat, long : BOOLEAN]

LEMMA CountPrinted ==
  ASSUME wrote \in [Procs -> Counts], NEW p \in Procs, NEW length \in Lengths,
         PrintLine(p, length)
  PROVE  /\ wrote' \in [Procs -> Counts]
         /\ wrote'[p].out = wrote[p].out + 1 /\ wrote'[p].in = wrote[p].in
         /\ ~wrote'[p].long => ~wrote[p].long /\ length # "overlong"
         /\ \A q \in Procs : q # p => wrote'[q] = wrote[q]
<1> DEFINE x == [wrote EXCEPT ![p].out = @ + 1]
           r == [x[p] EXCEPT !.long = @ \/ length = "overlong"]
<1>1. wrote[p] \in Counts
  OBVIOUS
<1>2. /\ x \in [Procs -> Counts]
      /\ x[p].out = wrote[p].out + 1 /\ x[p].in = wrote[p].in
      /\ x[p].long = wrote[p].long
      /\ \A q \in Procs : q # p => x[q] = wrote[q]
  <2> DEFINE a == [wrote[p] EXCEPT !.out = @ + 1]
  <2>1. /\ a \in Counts /\ a.out = wrote[p].out + 1
        /\ a.in = wrote[p].in /\ a.long = wrote[p].long
    BY <1>1 DEF Counts
  <2>2. x = [wrote EXCEPT ![p] = a]
    OBVIOUS
  <2> HIDE DEF a, x
  <2> QED
    BY <2>1, <2>2
<1>3. wrote' = [x EXCEPT ![p] = r]
  BY DEF PrintLine
<1> HIDE DEF x
<1>4. /\ r \in Counts /\ r.out = x[p].out /\ r.in = x[p].in
      /\ r.long = (wrote[p].long \/ length = "overlong")
  <2>1. x[p] \in Counts
    BY <1>2
  <2> QED
    BY <1>2, <2>1 DEF Counts
<1> HIDE DEF r
<1>5. /\ wrote'[p] = r /\ wrote' \in [Procs -> Counts]
      /\ \A q \in Procs : q # p => wrote'[q] = x[q]
  BY <1>2, <1>3, <1>4
<1> QED
  BY <1>2, <1>4, <1>5

LEMMA CountScanned ==
  ASSUME wrote \in [Procs -> Counts], NEW p \in Procs, Scan(p)
  PROVE  /\ wrote' \in [Procs -> Counts]
         /\ wrote'[p].out = wrote[p].out /\ wrote'[p].in = wrote[p].in + 1
         /\ ~wrote'[p].long => ~wrote[p].long
         /\ \A q \in Procs : q # p => wrote'[q] = wrote[q]
<1> DEFINE r == [wrote[p] EXCEPT !.in = @ + 1]
<1>1. wrote[p] \in Counts
  OBVIOUS
<1>2. /\ r \in Counts /\ r.out = wrote[p].out
      /\ r.in = wrote[p].in + 1 /\ r.long = wrote[p].long
  BY <1>1 DEF Counts
<1>3. wrote' = [wrote EXCEPT ![p] = r]
  BY DEF Scan
<1> HIDE DEF r
<1>4. /\ wrote'[p] = r /\ wrote' \in [Procs -> Counts]
      /\ \A q \in Procs : q # p => wrote'[q] = wrote[q]
  BY <1>2, <1>3
<1> QED
  BY <1>2, <1>4

-----------------------------------------------------------------------------
LEMMA LogInitInv == LogInit => LogInv
<1> SUFFICES ASSUME LogInit PROVE LogInv
  OBVIOUS
<1> USE AppLogAssumption DEF LogInit
<1>1. LogTypes
  <2>1. <<>> \in Seq(Lengths) /\ Len(<<>>) <= PipeCap
    OBVIOUS
  <2>2. \A b \in Buffers : IsLogBuffer(buffer[b]) /\ buffer[b] \in LogRecords
    BY NewBuffer
  <2>3. buffer \in [Buffers -> LogRecords]
    BY <2>2
  <2>4. wrote \in [Procs -> [out : Nat, in : Nat, long : BOOLEAN]]
    BY DEF NothingWritten
  <2>5. /\ pipe \in [Procs -> Seq(Lengths)] /\ held \in [Procs -> Seq(Lengths)]
        /\ \A p \in Procs : Len(pipe[p]) <= PipeCap
    BY <2>1
  <2>6. /\ slot \in Procs \cup {None} /\ logs \in Buffers \cup {None}
        /\ removed \in BOOLEAN
    OBVIOUS
  <2>7. budget \in 0 .. MaxLines
    OBVIOUS
  <2>8. /\ prog \in [Procs -> {"none", "alive", "exited"}]
        /\ reader \in [Procs -> {"none", "scan", "ended"}]
        /\ into \in [Procs -> Buffers \cup {None}]
    OBVIOUS
  <2>9. /\ stream \in [Viewers -> {"idle", "attach", "history", "live"}]
        /\ shows \in [Viewers -> Buffers \cup {None}]
        /\ seen \in [Viewers -> Nat]
        /\ missed \in [Viewers -> BOOLEAN]
    OBVIOUS
  <2> HIDE DEF LogInit
  <2> QED
    BY <2>2, <2>3, <2>4, <2>5, <2>6, <2>7, <2>8, <2>9
    DEF LogTypes, LogTypeOK
<1>2. Links /\ StreamsFollow /\ OneBuffer
  BY DEF Links, StreamsFollow, OneBuffer
<1>3. Lives
  BY DEF Lives, Life, NoneLong, NothingWritten
<1> QED
  BY <1>1, <1>2, <1>3 DEF LogInv

LEMMA RemoveAppStep ==
  ASSUME LogInv, RemoveApp
  PROVE  LogInv'
<1> USE DEF LogInv, RemoveApp, output, streams
<1>1. LogTypes' /\ Links' /\ OneBuffer'
  BY DEF LogTypes, LogTypeOK, Links, OneBuffer
<1>2. StreamsFollow' /\ Lives'
  BY StreamsKept, LivesKept
<1> QED
  BY <1>1, <1>2

(* Manager.LogBuffer gives the registered buffer, or one nobody has.       *)
LEMMA BufferOfAppStep ==
  ASSUME LogInv, NEW b \in Buffers, BufferOfApp(b)
  PROVE  /\ logs' = b
         /\ buffer' \in [Buffers -> LogRecords]
         /\ \A c \in Buffers : IsLogBuffer(buffer'[c])
         /\ \A v \in Viewers : shows[v] \in Buffers =>
                                 buffer'[shows[v]] = buffer[shows[v]]
         /\ ~removed =>
              /\ \A p \in Procs : reader[p] = "scan" => into[p] = b
              /\ \A v \in Viewers : stream[v] # "idle" => shows[v] = b
<1> USE AppLogAssumption DEF LogInv, LogTypes
<1>1. logs' = b
  BY DEF BufferOfApp
<1>2. CASE logs = None
  <2>1. Unused(b) /\ buffer' = [buffer EXCEPT ![b] = NewLogBuffer]
    BY <1>2 DEF BufferOfApp
  <2>2. /\ buffer' \in [Buffers -> LogRecords]
        /\ \A c \in Buffers : IsLogBuffer(buffer'[c])
    BY <2>1, NewBuffer DEF LogTypeOK
  <2>3. \A v \in Viewers : shows[v] \in Buffers =>
                             buffer'[shows[v]] = buffer[shows[v]]
    BY <2>1 DEF Unused
  <2>4. ~removed => /\ \A p \in Procs : reader[p] # "scan"
                    /\ \A v \in Viewers : stream[v] = "idle"
    BY <1>2 DEF Links, OneBuffer
  <2> QED
    BY <1>1, <2>2, <2>3, <2>4
<1>3. CASE logs # None
  <2>1. b = logs /\ buffer' = buffer
    BY <1>3 DEF BufferOfApp
  <2> QED
    BY <1>1, <2>1 DEF LogTypeOK, OneBuffer
<1> QED
  BY <1>2, <1>3

LEMMA StartStep ==
  ASSUME LogInv, NEW p \in Procs, NEW b \in Buffers, Start(p, b)
  PROVE  LogInv'
<1> USE AppLogAssumption DEF LogInv, Start
<1>0. BufferOfApp(b)
  OBVIOUS
<1>1. LogTypes'
  BY <1>0, BufferOfAppStep DEF LogTypes, LogTypeOK, streams
<1>2. Links'
  BY DEF Links, LogTypes, LogTypeOK, streams
<1>3. StreamsFollow'
  BY <1>0, BufferOfAppStep, StreamsKept
<1>4. Lives'
  <2>1. Life(p)'
    BY DEF LogTypes, LogTypeOK, Lives, Life, NothingWritten
  <2>2. ASSUME NEW q \in Procs, q # p
        PROVE  Life(q)'
    BY <2>2 DEF LogTypes, LogTypeOK, Lives, Life
  <2> QED
    BY <2>1, <2>2 DEF Lives
<1>5. OneBuffer'
  BY <1>0, BufferOfAppStep DEF OneBuffer, LogTypes, LogTypeOK, streams
<1> QED
  BY <1>1, <1>2, <1>3, <1>4, <1>5

LEMMA PrintLineStep ==
  ASSUME LogInv, NEW p \in Procs, NEW length \in Lengths, PrintLine(p, length)
  PROVE  LogInv'
<1> USE AppLogAssumption DEF LogInv, PrintLine
<1> DEFINE s == pipe[p]
           t == Append(s, length)
<1>1. s \in Seq(Lengths) /\ t \in Seq(Lengths) /\ Len(t) = Len(s) + 1
  BY DEF LogTypes, LogTypeOK
<1>2. NoneLong(s) /\ length # "overlong" => NoneLong(t)
  BY <1>1 DEF NoneLong
<1>3. wrote \in [Procs -> Counts]
  BY DEF LogTypes, LogTypeOK, Counts
<1>4. /\ wrote' \in [Procs -> Counts]
      /\ wrote'[p].out = wrote[p].out + 1 /\ wrote'[p].in = wrote[p].in
      /\ ~wrote'[p].long => ~wrote[p].long /\ length # "overlong"
      /\ \A q \in Procs : q # p => wrote'[q] = wrote[q]
  <2> HIDE DEF PrintLine, LogInv
  <2> QED
    BY <1>3, CountPrinted
<1>5. LogTypes'
  <2>1. /\ pipe' \in [Procs -> Seq(Lengths)] /\ held' = held
        /\ \A q \in Procs : Len(pipe'[q]) <= PipeCap
    BY <1>1 DEF LogTypes, LogTypeOK
  <2>2. budget' \in 0 .. MaxLines
    BY DEF LogTypes, LogTypeOK
  <2>3. UNCHANGED <<slot, logs, removed, buffer, prog, held, reader, into,
                    stream, shows, seen, missed>>
    BY DEF streams
  <2> HIDE DEF PrintLine
  <2> QED
    BY <1>4, <2>1, <2>2, <2>3 DEF LogTypes, LogTypeOK, Counts
<1>6. Links' /\ OneBuffer'
  BY DEF Links, OneBuffer, streams
<1>7. StreamsFollow'
  BY StreamsKept
<1>8. Lives'
  <2>1. Life(p)'
    <3> HIDE DEF t
    <3>1. pipe'[p] = t /\ held'[p] = held[p] /\ slot' = slot
          /\ prog'[p] = prog[p] /\ reader'[p] = reader[p]
      BY DEF LogTypes, LogTypeOK, t
    <3>2. /\ Len(s) \in Nat /\ Len(held[p]) \in Nat
          /\ wrote[p].out \in Nat /\ wrote[p].in \in Nat
      BY <1>3 DEF LogTypes, LogTypeOK, Counts
    <3>3. prog[p] = "alive" /\ Life(p)
      BY DEF Lives
    <3> HIDE DEF PrintLine, LogInv, s
    <3>4. slot' = p /\ prog'[p] = "alive"
      BY <3>1, <3>3 DEF Life
    <3>5. ~wrote'[p].long => NoneLong(t) /\ NoneLong(held'[p])
      <4> SUFFICES ASSUME ~wrote'[p].long
                   PROVE  NoneLong(t) /\ NoneLong(held'[p])
        OBVIOUS
      <4>1. ~wrote[p].long /\ length # "overlong"
        BY <1>4
      <4>2. NoneLong(s) /\ NoneLong(held[p])
        BY <4>1, <3>3 DEF Life, s
      <4> QED
        BY <1>2, <3>1, <4>1, <4>2
    <3>6. wrote[p].out = wrote[p].in + Len(s) + Len(held[p])
            => wrote'[p].out = wrote'[p].in + Len(t) + Len(held[p])
      <4> DEFINE o == wrote[p].out   i == wrote[p].in
                 n == Len(s)         h == Len(held[p])
                 oo == wrote'[p].out ii == wrote'[p].in  nn == Len(t)
      <4>1. /\ o \in Nat /\ i \in Nat /\ n \in Nat /\ h \in Nat
            /\ oo = o + 1 /\ ii = i /\ nn = n + 1
        BY <1>1, <1>4, <3>2
      <4> HIDE DEF o, i, n, h, oo, ii, nn
      <4>2. o = i + n + h => oo = ii + nn + h
        BY <4>1
      <4> QED
        BY <4>2 DEF o, i, n, h, oo, ii, nn
    <3>7. ~wrote'[p].long =>
            /\ reader'[p] = "scan"
            /\ wrote'[p].out = wrote'[p].in + Len(t) + Len(held[p])
      <4>1. ~wrote'[p].long =>
              /\ reader[p] = "scan"
              /\ wrote[p].out = wrote[p].in + Len(s) + Len(held[p])
        BY <1>4, <3>3 DEF Life, s
      <4> QED
        BY <3>1, <3>6, <4>1
    <3>8. reader'[p] # "scan" => held'[p] = <<>>
      BY <3>1, <3>3 DEF Life
    <3> QED
      BY <3>1, <3>4, <3>5, <3>7, <3>8 DEF Life
  <2>2. ASSUME NEW q \in Procs, q # p
        PROVE  Life(q)'
    BY <1>4, <2>2, LifeKept DEF LogTypes, LogTypeOK, Lives
  <2> QED
    BY <2>1, <2>2 DEF Lives
<1> QED
  BY <1>5, <1>6, <1>7, <1>8

LEMMA ProcessSteps ==
  ASSUME LogInv, NEW p \in Procs, Exit(p) \/ Wait(p) \/ Forget(p)
  PROVE  LogInv'
<1> USE AppLogAssumption DEF LogInv, Exit, Wait, Forget, output
<1>1. LogTypes'
  <2>1. <<>> \in Seq(Lengths) /\ Len(<<>>) <= PipeCap
    OBVIOUS
  <2>2. NothingWritten \in [out : Nat, in : Nat, long : BOOLEAN]
    BY DEF NothingWritten
  <2>3. /\ pipe' \in [Procs -> Seq(Lengths)] /\ held' = held
        /\ \A q \in Procs : Len(pipe'[q]) <= PipeCap
    BY <2>1 DEF LogTypes, LogTypeOK
  <2>4. wrote' \in [Procs -> [out : Nat, in : Nat, long : BOOLEAN]]
    BY <2>2 DEF LogTypes, LogTypeOK
  <2>5. /\ slot' \in Procs \cup {None}
        /\ prog' \in [Procs -> {"none", "alive", "exited"}]
        /\ reader' \in [Procs -> {"none", "scan", "ended"}]
    BY DEF LogTypes, LogTypeOK
  <2>6. UNCHANGED <<logs, removed, buffer, into, budget, stream, shows, seen,
                    missed>>
    BY DEF streams
  <2> HIDE DEF Exit, Wait, Forget
  <2> QED
    BY <2>3, <2>4, <2>5, <2>6 DEF LogTypes, LogTypeOK
<1>2. Links' /\ OneBuffer'
  BY DEF Links, OneBuffer, LogTypes, LogTypeOK, streams
<1>3. StreamsFollow'
  BY StreamsKept
<1>4. Lives'
  <2>1. CASE Exit(p)
    BY <2>1 DEF LogTypes, LogTypeOK, Lives, Life
  <2>2. CASE Wait(p)
    BY <2>2 DEF LogTypes, LogTypeOK, Lives, Life, NoneLong
  <2>3. CASE Forget(p)
    <3>1. Life(p)'
      BY <2>3 DEF LogTypes, LogTypeOK, Lives, Life, NoneLong, NothingWritten
    <3>2. ASSUME NEW q \in Procs, q # p
          PROVE  Life(q)'
      BY <2>3, <3>2, LifeKept DEF LogTypes, LogTypeOK, Lives
    <3> QED
      BY <3>1, <3>2 DEF Lives
  <2> QED
    BY <2>1, <2>2, <2>3
<1> QED
  BY <1>1, <1>2, <1>3, <1>4

LEMMA FillStep ==
  ASSUME LogInv, NEW p \in Procs, Fill(p)
  PROVE  LogInv'
<1> USE AppLogAssumption DEF LogInv, Fill
<1>1. LogTypes'
  BY DEF LogTypes, LogTypeOK, streams
<1>2. Links' /\ OneBuffer'
  BY DEF Links, OneBuffer, streams
<1>3. StreamsFollow'
  BY StreamsKept
<1>4. Lives'
  <2>1. Life(p)'
    <3>1. /\ pipe'[p] = <<>> /\ held'[p] = pipe[p] /\ held[p] = <<>>
          /\ UNCHANGED <<slot, prog, reader, wrote>> /\ Len(pipe[p]) \in Nat
      BY DEF LogTypes, LogTypeOK
    <3>2. NoneLong(<<>>)
      BY DEF NoneLong
    <3> QED
      BY <3>1, <3>2 DEF Lives, Life, LogTypes, LogTypeOK
  <2>2. ASSUME NEW q \in Procs, q # p
        PROVE  Life(q)'
    BY <2>2, LifeKept DEF LogTypes, LogTypeOK, Lives
  <2> QED
    BY <2>1, <2>2 DEF Lives
<1> QED
  BY <1>1, <1>2, <1>3, <1>4

LEMMA ScanStep ==
  ASSUME LogInv, NEW p \in Procs, Scan(p)
  PROVE  LogInv'
<1> USE AppLogAssumption DEF LogInv, Scan
<1> DEFINE b == into[p]
<1>1. /\ held[p] \in Seq(Lengths) /\ held[p] # <<>>
      /\ b \in Buffers /\ buffer[b] \in LogRecords /\ IsLogBuffer(buffer[b])
      /\ wrote \in [Procs -> Counts]
  BY DEF LogTypes, LogTypeOK, Links, Counts
<1>2. /\ Tail(held[p]) \in Seq(Lengths)
      /\ Len(Tail(held[p])) = Len(held[p]) - 1
      /\ NoneLong(held[p]) => NoneLong(Tail(held[p]))
  BY <1>1, TailNoneLong
<1>3. /\ Write(buffer[b]) \in LogRecords
      /\ IsLogBuffer(Write(buffer[b]))
      /\ buffer' = [buffer EXCEPT ![b] = Write(buffer[b])]
  BY <1>1, WriteFields, WriteKeeps
<1>4. /\ wrote' \in [Procs -> Counts]
      /\ wrote'[p].out = wrote[p].out /\ wrote'[p].in = wrote[p].in + 1
      /\ ~wrote'[p].long => ~wrote[p].long
      /\ \A q \in Procs : q # p => wrote'[q] = wrote[q]
  <2> HIDE DEF Scan, LogInv
  <2> QED
    BY <1>1, CountScanned
<1>5. LogTypes'
  <2>1. missed' \in [Viewers -> BOOLEAN]
    BY DEF LogTypes, LogTypeOK, Full
  <2>2. held' \in [Procs -> Seq(Lengths)]
    BY <1>2 DEF LogTypes, LogTypeOK
  <2>3. /\ buffer' \in [Buffers -> LogRecords]
        /\ \A c \in Buffers : IsLogBuffer(buffer'[c])
    BY <1>3 DEF LogTypes, LogTypeOK
  <2>4. UNCHANGED <<slot, logs, removed, prog, pipe, reader, into, budget,
                    stream, shows, seen>>
    OBVIOUS
  <2> HIDE DEF Scan
  <2> QED
    BY <1>4, <2>1, <2>2, <2>3, <2>4 DEF LogTypes, LogTypeOK, Counts
<1>6. Links' /\ OneBuffer'
  BY DEF Links, OneBuffer
<1>7. StreamsFollow'
  <2> SUFFICES ASSUME NEW v \in Viewers, stream[v] \in {"history", "live"}
               PROVE  Follows(buffer'[shows[v]], v, seen[v], missed'[v])
    BY DEF StreamsFollow
  <2>1. /\ shows[v] \in Buffers /\ seen[v] \in Nat /\ missed[v] \in BOOLEAN
        /\ Follows(buffer[shows[v]], v, seen[v], missed[v])
    BY DEF StreamsFollow, Links, LogTypes, LogTypeOK
  <2>2. CASE shows[v] = b
    <3>1. missed'[v] = (missed[v] \/ Full(buffer[b], v))
      BY <2>2
    <3>2. buffer'[shows[v]] = Write(buffer[b])
      BY <1>1, <1>3, <2>2 DEF LogTypes
    <3> QED
      BY <1>1, <2>1, <2>2, <3>1, <3>2, FollowWrite
  <2>3. CASE shows[v] # b
    <3>1. missed'[v] = missed[v] /\ buffer'[shows[v]] = buffer[shows[v]]
      BY <1>3, <2>1, <2>3 DEF LogTypes
    <3> QED
      BY <2>1, <3>1
  <2> QED
    BY <2>2, <2>3
<1>8. Lives'
  <2>1. Life(p)'
    <3>1. /\ held'[p] = Tail(held[p])
          /\ UNCHANGED <<slot, prog, pipe, reader>>
          /\ Len(pipe[p]) \in Nat /\ Len(held[p]) \in Nat
      BY <1>1 DEF LogTypes, LogTypeOK
    <3>2. reader[p] = "scan"
      OBVIOUS
    <3>3. prog[p] # "none" /\ Life(p)
      BY <3>2 DEF Lives, Life
    <3>4. wrote[p].out \in Nat /\ wrote[p].in \in Nat
      BY <1>1 DEF Counts
    <3> HIDE DEF Scan, LogInv
    <3>5. ~wrote'[p].long => NoneLong(pipe[p]) /\ NoneLong(held'[p])
      <4> SUFFICES ASSUME ~wrote'[p].long
                   PROVE  NoneLong(pipe[p]) /\ NoneLong(held'[p])
        OBVIOUS
      <4>1. ~wrote[p].long
        BY <1>4
      <4>2. NoneLong(pipe[p]) /\ NoneLong(held[p])
        BY <4>1, <3>3 DEF Life
      <4> QED
        BY <1>2, <3>1, <4>2
    <3>6. wrote[p].out = wrote[p].in + Len(pipe[p]) + Len(held[p])
            => wrote'[p].out = wrote'[p].in + Len(pipe[p]) + Len(held'[p])
      <4> DEFINE o == wrote[p].out   i == wrote[p].in
                 n == Len(pipe[p])   h == Len(held[p])
                 oo == wrote'[p].out ii == wrote'[p].in
                 hh == Len(held'[p])
      <4>1. /\ o \in Nat /\ i \in Nat /\ n \in Nat /\ h \in Nat
            /\ oo = o /\ ii = i + 1 /\ hh = h - 1
        BY <1>2, <1>4, <3>1, <3>4
      <4> HIDE DEF o, i, n, h, oo, ii, hh
      <4>2. o = i + n + h => oo = ii + n + hh
        BY <4>1
      <4> QED
        BY <4>2 DEF o, i, n, h, oo, ii, hh
    <3>7. prog[p] = "alive" /\ ~wrote'[p].long =>
            wrote'[p].out = wrote'[p].in + Len(pipe[p]) + Len(held'[p])
      <4>1. prog[p] = "alive" /\ ~wrote'[p].long =>
              wrote[p].out = wrote[p].in + Len(pipe[p]) + Len(held[p])
        BY <1>4, <3>3 DEF Life
      <4> QED
        BY <3>6, <4>1
    <3> QED
      BY <3>1, <3>2, <3>3, <3>5, <3>7 DEF Life
  <2>2. ASSUME NEW q \in Procs, q # p
        PROVE  Life(q)'
    BY <1>4, <2>2, LifeKept DEF LogTypes, LogTypeOK, Lives
  <2> QED
    BY <2>1, <2>2 DEF Lives
<1> QED
  BY <1>5, <1>6, <1>7, <1>8

LEMMA ReaderEndsStep ==
  ASSUME LogInv, NEW p \in Procs, ScanFails(p) \/ EndOfPipe(p)
  PROVE  LogInv'
<1> USE AppLogAssumption DEF LogInv, ReaderEnds
<1>0. reader[p] = "scan" /\ ReaderEnds(p)
  BY DEF ScanFails, EndOfPipe
<1>1. LogTypes'
  BY <1>0 DEF LogTypes, LogTypeOK, streams
<1>2. Links' /\ OneBuffer'
  BY <1>0 DEF Links, OneBuffer, LogTypes, LogTypeOK, streams
<1>3. StreamsFollow'
  BY <1>0, StreamsKept
<1>4. Lives'
  <2>1. prog[p] = "alive" => wrote[p].long
    <3>1. CASE ScanFails(p)
      <4>1. held[p] \in Seq(Lengths) /\ held[p] # <<>>
            /\ Head(held[p]) = "overlong"
        BY <3>1 DEF ScanFails, TooLong, LogTypes, LogTypeOK
      <4>2. ~NoneLong(held[p])
        BY <4>1, TailNoneLong
      <4> QED
        BY <4>2 DEF Lives, Life
    <3>2. CASE EndOfPipe(p)
      BY <3>2 DEF EndOfPipe
    <3> QED
      BY <3>1, <3>2
  <2>2. Life(p)'
    <3>1. /\ held'[p] = <<>> /\ reader'[p] = "ended"
          /\ UNCHANGED <<slot, prog, pipe, wrote>>
      BY <1>0 DEF LogTypes, LogTypeOK
    <3>2. NoneLong(<<>>)
      BY DEF NoneLong
    <3>3. prog[p] # "none"
      BY <1>0 DEF Lives, Life
    <3> QED
      BY <2>1, <3>1, <3>2, <3>3 DEF Lives, Life
  <2>3. ASSUME NEW q \in Procs, q # p
        PROVE  Life(q)'
    BY <1>0, <2>3, LifeKept DEF LogTypes, LogTypeOK, Lives
  <2> QED
    BY <2>2, <2>3 DEF Lives
<1> QED
  BY <1>1, <1>2, <1>3, <1>4

-----------------------------------------------------------------------------
(* Streams.                                                                *)

LEMMA OpenStep ==
  ASSUME LogInv, NEW v \in Viewers, NEW b \in Buffers, Open(v, b)
  PROVE  LogInv'
<1> USE AppLogAssumption DEF LogInv, Open, output
<1>0. BufferOfApp(b)
  OBVIOUS
<1>1. LogTypes'
  BY <1>0, BufferOfAppStep DEF LogTypes, LogTypeOK
<1>2. Links'
  BY DEF Links, LogTypes, LogTypeOK
<1>3. StreamsFollow'
  <2> SUFFICES ASSUME NEW u \in Viewers, stream'[u] \in {"history", "live"}
               PROVE  Follows(buffer'[shows'[u]], u, seen[u], missed[u])
    BY DEF StreamsFollow
  <2>1. u # v /\ stream'[u] = stream[u] /\ shows'[u] = shows[u]
    BY DEF LogTypes, LogTypeOK
  <2>2. shows[u] \in Buffers
    BY <2>1 DEF Links
  <2>3. buffer'[shows[u]] = buffer[shows[u]]
    BY <1>0, <2>2, BufferOfAppStep
  <2> QED
    BY <2>1, <2>3 DEF StreamsFollow
<1>4. Lives'
  BY LivesKept
<1>5. OneBuffer'
  BY <1>0, BufferOfAppStep DEF OneBuffer, LogTypes, LogTypeOK
<1> QED
  BY <1>1, <1>2, <1>3, <1>4, <1>5

(* A stream's own operation on its buffer, as it looks to the others.      *)
LEMMA OthersFollow ==
  ASSUME LogInv, NEW v \in Viewers, NEW u \in Viewers, u # v,
         NEW b \in Buffers, NEW c,
         stream[u] \in {"history", "live"},
         buffer'[b] = c, \A d \in Buffers \ {b} : buffer'[d] = buffer[d],
         \/ c = SubscribeWithHistory(buffer[b], v)
         \/ c = Unsubscribe(buffer[b], v)
         \/ c = Received(buffer[b], v) /\ buffer[b].chan[v] # <<>>
  PROVE  Follows(buffer'[shows[u]], u, seen[u], missed[u])
<1>1. /\ buffer \in [Buffers -> LogRecords] /\ shows[u] \in Buffers
      /\ seen[u] \in Nat /\ missed[u] \in BOOLEAN
      /\ Follows(buffer[shows[u]], u, seen[u], missed[u])
  BY DEF LogInv, LogTypes, LogTypeOK, Links, StreamsFollow
<1>2. CASE shows[u] = b
  <2>1. Follows(c, u, seen[u], missed[u])
    BY <1>1, <1>2, FollowOther
  <2> QED
    BY <1>1, <1>2, <2>1
<1>3. CASE shows[u] # b
  BY <1>1, <1>3
<1> QED
  BY <1>2, <1>3

LEMMA SubscribeStep ==
  ASSUME LogInv, NEW v \in Viewers, Subscribe(v)
  PROVE  LogInv'
<1> USE AppLogAssumption DEF LogInv, Subscribe, output
<1> DEFINE b == shows[v]
           c == SubscribeWithHistory(buffer[b], v)
<1>1. b \in Buffers /\ buffer[b] \in LogRecords /\ IsLogBuffer(buffer[b])
  BY DEF Links, LogTypes, LogTypeOK
<1>2. /\ c \in LogRecords /\ IsLogBuffer(c)
      /\ buffer' = [buffer EXCEPT ![b] = c]
  BY <1>1, SubscribeFields, SubscribeKeeps
<1>3. Newest(buffer[b]) \in Nat
  BY <1>1, NewestWritten DEF LogRecords
<1>4. LogTypes'
  BY <1>2, <1>3 DEF LogTypes, LogTypeOK
<1>5. Links' /\ OneBuffer'
  BY DEF Links, OneBuffer, LogTypes, LogTypeOK
<1>6. StreamsFollow'
  <2>1. Follows(c, v, Newest(buffer[b]), missed[v])
    BY <1>1, FollowSubscribe
  <2>2. Follows(buffer'[shows[v]], v, seen'[v], missed[v])
    <3>1. buffer'[b] = c /\ seen'[v] = Newest(buffer[b])
      BY <1>1, <1>2 DEF LogTypes, LogTypeOK
    <3> QED
      BY <2>1, <3>1
  <2>3. ASSUME NEW u \in Viewers, u # v, stream[u] \in {"history", "live"}
        PROVE  Follows(buffer'[shows[u]], u, seen[u], missed[u])
    <3>1. /\ buffer'[b] = c
          /\ \A d \in Buffers \ {b} : buffer'[d] = buffer[d]
      BY <1>1, <1>2 DEF LogTypes
    <3> HIDE DEF LogInv, b, c
    <3> QED
      BY <1>1, <2>3, <3>1, OthersFollow DEF c
  <2>4. \A u \in Viewers :
          u # v => stream'[u] = stream[u] /\ seen'[u] = seen[u]
    BY DEF LogTypes, LogTypeOK
  <2> QED
    BY <2>2, <2>3, <2>4 DEF StreamsFollow
<1>7. Lives'
  BY LivesKept
<1> QED
  BY <1>4, <1>5, <1>6, <1>7

LEMMA SendHistoryStep ==
  ASSUME LogInv, NEW v \in Viewers, SendHistory(v)
  PROVE  LogInv'
<1> USE DEF LogInv, SendHistory, output
<1>1. LogTypes' /\ Links' /\ OneBuffer'
  BY DEF LogTypes, LogTypeOK, Links, OneBuffer
<1>2. StreamsFollow'
  BY DEF StreamsFollow, LogTypes, LogTypeOK
<1>3. Lives'
  BY LivesKept
<1> QED
  BY <1>1, <1>2, <1>3

LEMMA ReceiveStep ==
  ASSUME LogInv, NEW v \in Viewers, Receive(v)
  PROVE  LogInv'
<1> USE AppLogAssumption DEF LogInv, Receive, output
<1> DEFINE b == shows[v]
           c == Received(buffer[b], v)
<1>1. /\ b \in Buffers /\ buffer[b] \in LogRecords /\ IsLogBuffer(buffer[b])
      /\ buffer[b].chan[v] # <<>>
  BY DEF Links, LogTypes, LogTypeOK
<1>2. /\ c \in LogRecords /\ IsLogBuffer(c)
      /\ Head(buffer[b].chan[v]) \in Nat
      /\ buffer' = [buffer EXCEPT ![b] = c]
  BY <1>1, ReceivedFields, ReceivedKeeps
<1>3. LogTypes'
  BY <1>2 DEF LogTypes, LogTypeOK
<1>4. Links' /\ OneBuffer'
  BY DEF Links, OneBuffer
<1>5. StreamsFollow'
  <2>1. Follows(buffer'[shows[v]], v, seen'[v], missed[v])
    <3>1. /\ Follows(buffer[b], v, seen[v], missed[v])
          /\ seen[v] \in Nat /\ missed[v] \in BOOLEAN
      BY DEF StreamsFollow, LogTypes, LogTypeOK
    <3>2. Follows(c, v, Head(buffer[b].chan[v]), missed[v])
      BY <1>1, <3>1, FollowReceived
    <3>3. buffer'[b] = c /\ seen'[v] = Head(buffer[b].chan[v])
      BY <1>1, <1>2 DEF LogTypes, LogTypeOK
    <3> QED
      BY <3>2, <3>3
  <2>2. ASSUME NEW u \in Viewers, u # v, stream[u] \in {"history", "live"}
        PROVE  Follows(buffer'[shows[u]], u, seen[u], missed[u])
    <3>1. /\ buffer'[b] = c
          /\ \A d \in Buffers \ {b} : buffer'[d] = buffer[d]
      BY <1>1, <1>2 DEF LogTypes
    <3> HIDE DEF LogInv, b, c
    <3> QED
      BY <1>1, <2>2, <3>1, OthersFollow DEF c
  <2>3. \A u \in Viewers : u # v => seen'[u] = seen[u]
    BY DEF LogTypes, LogTypeOK
  <2> QED
    BY <2>1, <2>2, <2>3 DEF StreamsFollow
<1>6. Lives'
  BY LivesKept
<1> QED
  BY <1>3, <1>4, <1>5, <1>6

LEMMA DisconnectStep ==
  ASSUME LogInv, NEW v \in Viewers, Disconnect(v)
  PROVE  LogInv'
<1> USE AppLogAssumption DEF LogInv, Disconnect, output
<1> DEFINE b == shows[v]
           c == Unsubscribe(buffer[b], v)
<1>1. b \in Buffers /\ buffer[b] \in LogRecords /\ IsLogBuffer(buffer[b])
  BY DEF Links, LogTypes, LogTypeOK
<1>2. /\ c \in LogRecords /\ IsLogBuffer(c)
      /\ buffer' = [buffer EXCEPT ![b] = c]
  BY <1>1, UnsubscribeFields, SubscribeKeeps
<1>3. LogTypes'
  BY <1>2 DEF LogTypes, LogTypeOK
<1>4. Links' /\ OneBuffer'
  BY DEF Links, OneBuffer, LogTypes, LogTypeOK
<1>5. StreamsFollow'
  <2>1. ASSUME NEW u \in Viewers, u # v, stream[u] \in {"history", "live"}
        PROVE  Follows(buffer'[shows[u]], u, seen[u], missed[u])
    <3>1. /\ buffer'[b] = c
          /\ \A d \in Buffers \ {b} : buffer'[d] = buffer[d]
      BY <1>1, <1>2 DEF LogTypes
    <3> HIDE DEF LogInv, b, c
    <3> QED
      BY <1>1, <2>1, <3>1, OthersFollow DEF c
  <2>2. /\ stream'[v] = "idle"
        /\ \A u \in Viewers : u # v =>
             /\ stream'[u] = stream[u] /\ shows'[u] = shows[u]
             /\ seen'[u] = seen[u] /\ missed'[u] = missed[u]
    BY DEF LogTypes, LogTypeOK
  <2> QED
    BY <2>1, <2>2 DEF StreamsFollow
<1>6. Lives'
  BY LivesKept
<1> QED
  BY <1>3, <1>4, <1>5, <1>6

-----------------------------------------------------------------------------
LEMMA LogNextInv == LogInv /\ [LogNext]_lvars => LogInv'
<1> SUFFICES ASSUME LogInv, [LogNext]_lvars PROVE LogInv'
  OBVIOUS
<1>1. CASE UNCHANGED lvars
  <2>1. (LogTypes /\ Links /\ OneBuffer)'
    BY <1>1 DEF LogInv, LogTypes, LogTypeOK, Links, OneBuffer, lvars, output,
                streams
  <2>2. StreamsFollow' /\ Lives'
    BY <1>1, StreamsKept, LivesKept DEF LogInv, lvars, output
  <2> QED
    BY <2>1, <2>2 DEF LogInv
<1>2. CASE RemoveApp
  BY <1>2, RemoveAppStep
<1>3. ASSUME NEW p \in Procs,
             \/ \E b \in Buffers : Start(p, b)
             \/ \E length \in Lengths : PrintLine(p, length)
             \/ Exit(p) \/ Wait(p) \/ Forget(p) \/ Reader(p)
      PROVE  LogInv'
  BY <1>3, StartStep, PrintLineStep, ProcessSteps, FillStep, ScanStep,
     ReaderEndsStep DEF Reader
<1>4. ASSUME NEW v \in Viewers,
             \/ \E b \in Buffers : Open(v, b)
             \/ Subscribe(v) \/ SendHistory(v) \/ Receive(v) \/ Disconnect(v)
      PROVE  LogInv'
  BY <1>4, OpenStep, SubscribeStep, SendHistoryStep, ReceiveStep,
     DisconnectStep
<1> QED
  BY <1>1, <1>2, <1>3, <1>4 DEF LogNext

(* The inductive invariant: types, links, what a stream follows, and how    *)
(* the pipe, the reader and the counts of a process go together.           *)
THEOREM LogInvariance == LogSpec => []LogInv
BY LogInitInv, LogNextInv, PTL DEF LogSpec

(* Every variable keeps its type; no pipe and no channel exceeds its size. *)
THEOREM LogTypeCorrect == LogSpec => []LogTypeOK
BY LogInvariance, PTL DEF LogInv, LogTypes

(* No line of a program that runs and prints none over 512 KB is lost, for *)
(* a pipe of any size (process.go:453-465).                                *)
THEOREM NoLineLost == LogSpec => []OutputKept
<1>1. LogInv => OutputKept
  BY DEF LogInv, Lives, Life, OutputKept
<1> QED
  BY <1>1, LogInvariance, PTL

(* All processes and browsers of an app that was not deleted share one     *)
(* buffer (manager.go:107-115).                                            *)
THEOREM SharedBuffer == LogSpec => []OneBuffer
BY LogInvariance, PTL DEF LogInv

(* A stream shows every line from its history on, in order and once, until *)
(* its channel has been full: over restarts, deletes and other streams.    *)
THEOREM StreamContiguous == LogSpec => []StreamNoGap
<1>1. LogInv => StreamNoGap
  BY DEF LogInv, StreamsFollow, StreamNoGap, Follows, Run
<1> QED
  BY <1>1, LogInvariance, PTL
=============================================================================
