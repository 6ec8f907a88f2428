------------------------------ MODULE PartsProofs ------------------------------
(***************************************************************************)
(* The smaller modules, for all values of their constants: an app has at   *)
(* most one live pinger, a valid session is recent and not logged out, the *)
(* CPU percentage is exact, the launch plan of every app runs the image's  *)
(* program with nothing of the host, and a pull that is done has written   *)
(* the image.                                                              *)
(***************************************************************************)
EXTENDS HealthPinger, Sessions, CpuSampler, LaunchPlan, Layers,
        SequenceTheorems, FiniteSetTheorems, TLAPS

-----------------------------------------------------------------------------
(* Health pingers.                                                         *)

(* An ended goroutine is not cancelled, so that its record can stand for   *)
(* the next one.                                                           *)
EndedClean == \A p \in Pingers : p \in cancelled => pinging[p] # "ended"

PingerInv == PingerTypeOK /\ OneLivePinger /\ EndedClean

LEMMA PingerInitInv == PingerInit => PingerInv
<1> SUFFICES ASSUME PingerInit PROVE PingerInv
  OBVIOUS
<1> USE PingerAssumption DEF PingerInit
<1>1. PingerTypeOK
  BY DEF PingerTypeOK
<1>2. OneLivePinger /\ EndedClean
  BY DEF OneLivePinger, EndedClean
<1> QED
  BY <1>1, <1>2 DEF PingerInv

(* What a step that moves no goroutine to or from its end and leaves the   *)
(* registrations alone keeps.                                              *)
LEMMA SameGoroutines ==
  ASSUME PingerInv, UNCHANGED <<pingers, pingee, cancelled>>,
         \A p \in Pingers : pinging'[p] = "ended" <=> pinging[p] = "ended"
  PROVE  OneLivePinger' /\ EndedClean'
BY DEF PingerInv, OneLivePinger, EndedClean

LEMMA TableSteps ==
  ASSUME PingerInv, NEW a \in Apps,
         SaveRow(a) \/ DeleteRow(a) \/ AppStarts(a) \/ AppEnds(a)
  PROVE  PingerInv'
<1> USE DEF PingerInv, manager, gos, table
<1>1. PingerTypeOK'
  BY DEF PingerTypeOK, SaveRow, DeleteRow, AppStarts, AppEnds
<1>2. OneLivePinger' /\ EndedClean'
  BY SameGoroutines DEF SaveRow, DeleteRow, AppStarts, AppEnds
<1> QED
  BY <1>1, <1>2

LEMMA RemoveAppStep ==
  ASSUME PingerInv, NEW a \in Apps, RemoveApp(a)
  PROVE  PingerInv'
<1> USE PingerAssumption DEF PingerInv, RemoveApp, Cancelled, PingerTypeOK
<1>1. PingerTypeOK'
  OBVIOUS
<1>2. OneLivePinger'
  BY DEF OneLivePinger
<1>3. EndedClean'
  BY DEF OneLivePinger, EndedClean
<1> QED
  BY <1>1, <1>2, <1>3

LEMMA StartStep ==
  ASSUME PingerInv, NEW s \in Sweeps, NEW a \in Apps, NEW p \in Pingers,
         StartHealthPinger(s, a, p)
  PROVE  PingerInv'
<1> USE PingerAssumption
    DEF PingerInv, StartHealthPinger, Cancelled, PingerTypeOK, table
<1>1. PingerTypeOK'
  OBVIOUS
<1>2. p \notin cancelled'
  BY DEF OneLivePinger, EndedClean
<1>3. OneLivePinger'
  BY <1>2 DEF OneLivePinger
<1>4. EndedClean'
  BY <1>2 DEF OneLivePinger, EndedClean
<1> QED
  BY <1>1, <1>3, <1>4

LEMMA GoroutineSteps ==
  ASSUME PingerInv, NEW p \in Pingers, PingStep(p)
  PROVE  PingerInv'
<1> USE DEF PingerInv, manager, table, PingerTypeOK
<1>1. CASE Tick(p)
  BY <1>1, SameGoroutines DEF Tick
<1>2. CASE IsRunning(p)
  BY <1>2, SameGoroutines DEF IsRunning, AfterCheck
<1>3. CASE Get(p)
  BY <1>3, SameGoroutines DEF Get
<1>4. CASE Write(p)
  BY <1>4, SameGoroutines DEF Write
<1>5. CASE End(p)
  <2>1. PingerTypeOK'
    BY <1>5 DEF End
  <2>2. OneLivePinger' /\ EndedClean'
    BY <1>5 DEF End, OneLivePinger, EndedClean
  <2> QED
    BY <2>1, <2>2
<1> QED
  BY <1>1, <1>2, <1>3, <1>4, <1>5 DEF PingStep

LEMMA PingerNextInv == PingerInv /\ [PingerNext]_pvars => PingerInv'
<1> SUFFICES ASSUME PingerInv, [PingerNext]_pvars PROVE PingerInv'
  OBVIOUS
<1>1. CASE UNCHANGED pvars
  BY <1>1 DEF PingerInv, PingerTypeOK, OneLivePinger, EndedClean,
              pvars, table, manager, gos
<1>2. ASSUME NEW s \in Sweeps, List(s) PROVE PingerInv'
  <2>1. PingerTypeOK'
    BY <1>2 DEF PingerInv, PingerTypeOK, List, table, manager, gos
  <2> QED
    BY <1>2, <2>1, SameGoroutines DEF List, PingerInv, manager, gos
<1> QED
  BY <1>1, <1>2, TableSteps, RemoveAppStep, StartStep, GoroutineSteps
     DEF PingerNext

(* The states of the pingers are always of their types.                    *)
THEOREM PingerTypes == PingerSpec => []PingerTypeOK
<1>1. PingerInv => PingerTypeOK
  BY DEF PingerInv
<1> QED
  BY <1>1, PingerInitInv, PingerNextInv, PTL DEF PingerSpec

(* However many sweeps, deletes, edits and goroutines meet, the goroutines *)
(* that were not cancelled are exactly the registered ones, one per app    *)
(* (manager.go:275-280, 292-298).                                          *)
THEOREM PingerIsUnique == PingerSpec => []OneLivePinger
<1>1. PingerInv => OneLivePinger
  BY DEF PingerInv
<1> QED
  BY <1>1, PingerInitInv, PingerNextInv, PTL DEF PingerSpec

-----------------------------------------------------------------------------
(* Sessions.                                                               *)

Bounds == TTL \in Nat /\ MaxTime \in Nat \ {0}

Clock == now \in 1 .. MaxTime

Maps ==
  /\ sessions \in [Tokens -> Nat]
  /\ used \in [Tokens -> Nat]
  /\ request \in [Browsers -> Tokens \cup {NoToken}]
  /\ cookie \in [Browsers -> [token : Tokens \cup {NoToken}, until : Nat]]
  /\ minted \subseteq Tokens

(* The expiry is always TTL after the last use; a token that was logged    *)
(* out, or was never made, has no session.                                 *)
ExpiryFromUse ==
  \A t \in Tokens :
    sessions[t] # 0 => /\ used[t] <= now
                       /\ sessions[t] = used[t] + TTL

SessionsInv == Clock /\ Maps /\ ExpiryFromUse

LEMMA SessionsInitInv == Bounds /\ SessionsInit => SessionsInv
BY DEF Bounds, SessionsInit, SessionsInv, Clock, Maps, ExpiryFromUse, NoCookie

LEMMA LoginStep ==
  ASSUME Bounds, SessionsInv, NEW b \in Browsers, NEW t \in Tokens, Login(b, t)
  PROVE  SessionsInv'
<1> USE DEF Bounds, SessionsInv, Clock, Maps, Login
<1>1. Clock' /\ Maps'
  OBVIOUS
<1>2. ExpiryFromUse'
  BY DEF ExpiryFromUse
<1> QED
  BY <1>1, <1>2

LEMMA SendStep ==
  ASSUME Bounds, SessionsInv, NEW b \in Browsers, Send(b)
  PROVE  SessionsInv'
<1> USE DEF Bounds, SessionsInv, Send
<1>1. Clock' /\ Maps'
  BY DEF Clock, Maps
<1>2. ExpiryFromUse'
  BY DEF ExpiryFromUse
<1> QED
  BY <1>1, <1>2

LEMMA ValidateStep ==
  ASSUME Bounds, SessionsInv, NEW b \in Browsers, ValidateSession(b)
  PROVE  SessionsInv'
<1> USE DEF Bounds, SessionsInv, Clock, Maps, ValidateSession
<1> DEFINE t == request[b]
<1>0. t \in Tokens
  OBVIOUS
<1>1. Clock' /\ Maps'
  BY <1>0
<1>2. ExpiryFromUse'
  BY <1>0 DEF ExpiryFromUse
<1> QED
  BY <1>1, <1>2

LEMMA LogoutStep ==
  ASSUME Bounds, SessionsInv, NEW b \in Browsers, Logout(b)
  PROVE  SessionsInv'
<1> USE DEF Bounds, SessionsInv, Clock, Maps, Logout, DeleteSession, NoCookie,
            LoggedOut
<1>0. cookie[b].token \in Tokens
  OBVIOUS
<1>1. Clock' /\ Maps'
  BY <1>0
<1>2. ExpiryFromUse'
  BY <1>0 DEF ExpiryFromUse
<1> QED
  BY <1>1, <1>2

LEMMA PassStep ==
  ASSUME Bounds, SessionsInv, Pass
  PROVE  SessionsInv'
<1> USE DEF Bounds, SessionsInv, Clock, Maps, Pass, NoCookie
<1>1. Clock' /\ Maps'
  OBVIOUS
<1>2. ExpiryFromUse'
  BY DEF ExpiryFromUse
<1> QED
  BY <1>1, <1>2

LEMMA SessionsNextInv ==
  Bounds /\ SessionsInv /\ [SessionsNext]_avars => SessionsInv'
<1> SUFFICES ASSUME Bounds, SessionsInv, [SessionsNext]_avars
             PROVE  SessionsInv'
  OBVIOUS
<1>1. CASE UNCHANGED avars
  BY <1>1 DEF avars, SessionsInv, Clock, Maps, ExpiryFromUse
<1>2. CASE ServerRestart
  BY <1>2 DEF ServerRestart, SessionsInv, Clock, Maps, ExpiryFromUse
<1> QED
  BY <1>1, <1>2, LoginStep, SendStep, ValidateStep, LogoutStep, PassStep
     DEF SessionsNext

LEMMA InvValid == Bounds /\ SessionsInv => ValidIsRecent
BY DEF Bounds, SessionsInv, Clock, Maps, ExpiryFromUse, ValidIsRecent, Valid

(* Whatever requests are on their way when a browser logs out, the clock   *)
(* passes or the server restarts, a session that is valid was used within  *)
(* the last TTL and was not logged out since (auth.go:44-63).              *)
THEOREM ValidSessions ==
  ASSUME TTL \in Nat, MaxTime \in Nat \ {0}
  PROVE  SessionsSpec => []ValidIsRecent
<1>1. Bounds
  BY DEF Bounds
<1>2. SessionsInit => SessionsInv
  BY <1>1, SessionsInitInv
<1>3. SessionsInv /\ [SessionsNext]_avars => SessionsInv'
  BY <1>1, SessionsNextInv
<1>4. SessionsInv => ValidIsRecent
  BY <1>1, InvValid
<1> QED
  BY <1>2, <1>3, <1>4, PTL DEF SessionsSpec

-----------------------------------------------------------------------------
(* The CPU percentage.                                                     *)

(* Unsigned differences: what fits in a word stays, and what is below zero *)
(* comes back a word higher.                                               *)
LEMMA ModSmall ==
  ASSUME NEW w \in Nat, NEW x \in 0 .. w - 1
  PROVE  x % w = x
BY SMT

LEMMA ModWraps ==
  ASSUME NEW w \in Nat, NEW x \in Int, x < 0, -w <= x
  PROVE  x % w = x + w
BY SMT

LEMMA CounterSizes ==
  ASSUME NEW c \in Counters
  PROVE  /\ c.busy \in Nat /\ Idle(c) \in Nat
         /\ Total(c) = c.busy + Idle(c)
         /\ c.busy <= Total(c) /\ Idle(c) <= Total(c) /\ Total(c) < Word
BY SamplerAssumption DEF Counters, Idle, Total

(* A reading that worked is the sum of the counters, unwrapped.            *)
LEMMA ReadingSums ==
  ASSUME NEW c \in Counters
  PROVE  [total |-> Total(c) % Word, idle |-> Idle(c) % Word]
           = [total |-> Total(c), idle |-> Idle(c)]
<1>1. /\ Total(c) \in 0 .. Word - 1
      /\ Idle(c) \in 0 .. Word - 1
  BY CounterSizes, SamplerAssumption DEF Total
<1>2. Total(c) % Word = Total(c) /\ Idle(c) % Word = Idle(c)
  BY <1>1, ModSmall, SamplerAssumption
<1> QED
  BY <1>2

(* Two readings in a row: idle time may have gone back, and its difference *)
(* wrapped, but the busy time between them comes out.                      *)
LEMMA BusyDifference ==
  ASSUME NEW b \in Nat, NEW i \in Int, NEW w \in Nat,
         b + i > 0, b + i < w, -w < i, i < w, b < w
  PROVE  (((b + i) % w) - (i % w)) % w = b /\ (b + i) % w = b + i
<1>1. (b + i) % w = b + i
  BY ModSmall
<1>2. CASE i >= 0
  <2>1. i % w = i
    BY <1>2, ModSmall
  <2>2. (b + i) - i = b /\ b \in 0 .. w - 1
    OBVIOUS
  <2> QED
    BY <1>1, <2>1, <2>2, ModSmall
<1>3. CASE i < 0
  <2>1. i % w = i + w
    BY <1>3, ModWraps
  <2>2. (b + i) - (i + w) = b - w /\ b - w \in Int /\ b - w < 0 /\ -w <= b - w
    OBVIOUS
  <2>3. (b - w) % w = (b - w) + w /\ (b - w) + w = b
    BY <2>2, ModWraps
  <2> QED
    BY <1>1, <2>1, <2>2, <2>3
<1> QED
  BY <1>2, <1>3

LEMMA PercentExact ==
  ASSUME NEW c \in Counters, NEW d \in Counters,
         c.busy <= d.busy, Total(c) < Total(d)
  PROVE  Percent([total |-> Total(c), idle |-> Idle(c)],
                 [total |-> Total(d), idle |-> Idle(d)]) = ExactShare(c, d)
<1> DEFINE b == d.busy - c.busy
           i == Idle(d) - Idle(c)
<1>1. /\ b \in Nat /\ i \in Int /\ Word \in Nat
      /\ b + i > 0 /\ b + i < Word /\ -Word < i /\ i < Word /\ b < Word
      /\ Total(d) - Total(c) = b + i
  BY CounterSizes, SamplerAssumption
<1> HIDE DEF b, i
<1>2. (((b + i) % Word) - (i % Word)) % Word = b /\ (b + i) % Word = b + i
  BY <1>1, BusyDifference
<1>3. Percent([total |-> Total(c), idle |-> Idle(c)],
              [total |-> Total(d), idle |-> Idle(d)])
        = Clamp((100 * ((((b + i) % Word) - (i % Word)) % Word))
                  \div ((b + i) % Word))
  BY <1>1 DEF Percent, Minus, i
<1>4. ExactShare(c, d) = Clamp((100 * b) \div (b + i))
  BY <1>1 DEF ExactShare, b
<1> QED
  BY <1>2, <1>3, <1>4

(* What Update compares with is the sums of the counters at the last       *)
(* reading that worked, if the last one did; time in the kernel goes on.   *)
SamplerInv ==
  /\ cpu \in Counters
  /\ taken = <<>> => prev = NoReading
  /\ taken # <<>> => \E c \in Counters :
       /\ taken = <<c>> /\ c.busy <= cpu.busy
       /\ prev = [total |-> Total(c), idle |-> Idle(c)] /\ prev.total > 0
  /\ PercentIsExact

LEMMA SamplerInitInv == SamplerInit => SamplerInv
BY DEF SamplerInit, SamplerInv, PercentIsExact

LEMMA KernelStep ==
  ASSUME SamplerInv, Kernel
  PROVE  SamplerInv'
<1>1. cpu' \in Counters /\ UNCHANGED <<prev, percent, taken, shares>>
  BY DEF Kernel
<1>2. cpu.busy <= cpu'.busy
  BY SamplerAssumption DEF Kernel, SamplerInv, Counters
<1>3. ASSUME NEW c \in Counters, c.busy <= cpu.busy
      PROVE  c.busy <= cpu'.busy
  BY <1>1, <1>2, <1>3, SamplerAssumption DEF SamplerInv, Counters
<1> QED
  BY <1>1, <1>3 DEF SamplerInv, PercentIsExact

LEMMA UpdateStep ==
  ASSUME SamplerInv, Update
  PROVE  SamplerInv'
<1>1. cpu \in Counters /\ cpu' = cpu
  BY DEF SamplerInv, Update
<1>2. PICK read \in Readings(cpu) :
        /\ percent' = IF Comparable(prev, read) THEN Percent(prev, read)
                                                ELSE percent
        /\ prev' = read
        /\ taken' = IF read = NoReading THEN <<>> ELSE <<cpu>>
        /\ shares' = IF taken = <<>> \/ read = NoReading THEN shares
                     ELSE IF Total(cpu) <= Total(taken[1]) THEN shares
                     ELSE {ExactShare(taken[1], cpu)}
  BY DEF Update
<1>3. read = NoReading \/ read = [total |-> Total(cpu), idle |-> Idle(cpu)]
  BY <1>1, ReadingSums DEF Readings
<1>4. read # NoReading => read.total = Total(cpu) /\ read.total > 0
  BY <1>1, <1>3, CounterSizes DEF NoReading
<1>5. percent' \in shares'
  <2>1. CASE taken = <<>> \/ read = NoReading
    <3>1. ~Comparable(prev, read)
      <4>1. CASE taken = <<>>
        BY <4>1 DEF SamplerInv, NoReading, Comparable
      <4>2. CASE taken # <<>> /\ read = NoReading
        <5>1. PICK c \in Counters : prev.total = Total(c)
          BY <4>2 DEF SamplerInv
        <5> QED
          BY <4>2, <5>1, CounterSizes DEF NoReading, Comparable
      <4> QED
        BY <2>1, <4>1, <4>2
    <3> QED
      BY <1>2, <2>1, <3>1 DEF SamplerInv, PercentIsExact
  <2>2. CASE taken # <<>> /\ read # NoReading
    <3>1. PICK c \in Counters :
            /\ taken = <<c>> /\ c.busy <= cpu.busy
            /\ prev = [total |-> Total(c), idle |-> Idle(c)]
            /\ prev.total > 0
      BY <2>2 DEF SamplerInv
    <3>2. /\ taken[1] = c /\ prev.total = Total(c)
          /\ read = [total |-> Total(cpu), idle |-> Idle(cpu)]
          /\ Total(c) \in Nat /\ Total(cpu) \in Nat
      BY <1>1, <1>3, <2>2, <3>1, CounterSizes
    <3>3. CASE Total(cpu) <= Total(c)
      <4>1. ~Comparable(prev, read)
        BY <1>4, <2>2, <3>2, <3>3 DEF Comparable
      <4> QED
        BY <1>2, <2>2, <3>2, <3>3, <4>1 DEF SamplerInv, PercentIsExact
    <3>4. CASE ~(Total(cpu) <= Total(c))
      <4>1. Total(c) < Total(cpu) /\ Comparable(prev, read)
        BY <1>4, <2>2, <3>1, <3>2, <3>4 DEF Comparable
      <4>2. Percent(prev, read) = ExactShare(c, cpu)
        BY <1>1, <3>1, <3>2, <4>1, PercentExact
      <4> QED
        BY <1>2, <2>2, <3>2, <3>4, <4>1, <4>2
    <3> QED
      BY <3>3, <3>4
  <2> QED
    BY <2>1, <2>2
<1>6. taken' # <<>> =>
        /\ taken' = <<cpu>> /\ cpu.busy <= cpu'.busy
        /\ prev' = [total |-> Total(cpu), idle |-> Idle(cpu)]
        /\ prev'.total > 0
  BY <1>1, <1>2, <1>3, <1>4, CounterSizes
<1>7. taken' = <<>> => prev' = NoReading
  BY <1>2
<1> QED
  BY <1>1, <1>5, <1>6, <1>7 DEF SamplerInv, PercentIsExact

(* Whatever reading failed before, and whichever way iowait went, the      *)
(* percentage is the busy share between two readings in a row              *)
(* (stats.go:33-46).                                                       *)
THEOREM PercentOfReadings == SamplerSpec => []PercentIsExact
<1>1. SamplerInv /\ [SamplerNext]_mvars => SamplerInv'
  <2>1. CASE UNCHANGED mvars
    BY <2>1 DEF mvars, SamplerInv, PercentIsExact
  <2> QED
    BY <2>1, KernelStep, UpdateStep DEF SamplerNext
<1>2. SamplerInv => PercentIsExact
  BY DEF SamplerInv
<1> QED
  BY <1>1, <1>2, SamplerInitInv, PTL DEF SamplerSpec

-----------------------------------------------------------------------------
(* Launch plans.                                                           *)

(* A sequence behind one element, and behind others.                       *)
LEMMA TailOfCons ==
  ASSUME NEW S, NEW x \in S, NEW s \in Seq(S)
  PROVE  /\ <<x>> \o s \in Seq(S) /\ <<x>> \o s # <<>>
         /\ Len(<<x>> \o s) = 1 + Len(s)
         /\ (<<x>> \o s)[1] = x /\ Head(<<x>> \o s) = x
         /\ Tail(<<x>> \o s) = s
<1>1. <<x>> \in Seq(S)
  OBVIOUS
<1>2. /\ <<x>> \o s \in Seq(S) /\ Len(<<x>> \o s) = 1 + Len(s)
      /\ \A i \in 1 .. 1 + Len(s) :
           (<<x>> \o s)[i] = IF i <= 1 THEN <<x>>[i] ELSE s[i - 1]
  BY <1>1, ConcatProperties
<1> DEFINE t == <<x>> \o s
<1> HIDE DEF t
<1>3. /\ t \in Seq(S) /\ Len(t) = 1 + Len(s) /\ Len(s) \in Nat
      /\ t[1] = x /\ \A i \in 1 .. Len(s) : t[i + 1] = s[i]
  BY <1>2 DEF t
<1>4. t # <<>> /\ Head(t) = x
  BY <1>3
<1>5. Tail(t) \in Seq(S) /\ Len(Tail(t)) = Len(s)
      /\ \A i \in 1 .. Len(s) : Tail(t)[i] = s[i]
  BY <1>3, <1>4, HeadTailProperties
<1>6. Tail(t) = s
  BY <1>5, SeqEqual
<1> QED
  BY <1>3, <1>4, <1>6 DEF t

LEMMA SubSeqOfCons ==
  ASSUME NEW S, NEW s \in Seq(S), NEW p \in Seq(S)
  PROVE  SubSeq(p \o s, Len(p) + 1, Len(p \o s)) = s
<1> DEFINE t == p \o s
           u == SubSeq(t, Len(p) + 1, Len(t))
<1>1. /\ t \in Seq(S) /\ Len(t) = Len(p) + Len(s)
      /\ Len(s) \in Nat /\ Len(p) \in Nat
      /\ \A i \in 1 .. Len(p) + Len(s) :
           t[i] = IF i <= Len(p) THEN p[i] ELSE s[i - Len(p)]
  BY ConcatProperties
<1> HIDE DEF t
<1>2. \A i \in Len(p) + 1 .. Len(t) : t[i] \in S
  BY <1>1, ElementOfSeq
<1>3. /\ u \in Seq(S) /\ Len(u) = Len(s)
      /\ \A i \in 1 .. Len(s) : u[i] = t[Len(p) + 1 + i - 1]
  BY <1>1, <1>2, SubSeqProperties
<1>4. \A i \in 1 .. Len(s) : u[i] = s[i]
  BY <1>1, <1>3
<1>5. u = s
  BY <1>3, <1>4, SeqEqual
<1> QED
  BY <1>5 DEF t

(* The arguments that linker and shell take for themselves.                *)
Option == T("rel", "--library-path")
Own    == {Linker, Shell, Option, T("rel", "dirs")}

LEMMA LinkerLoads ==
  ASSUME NEW S, Own \subseteq S, NEW a, a.libs \in BOOLEAN,
         NEW argv \in Seq(S), argv # <<>>, argv[1] # Option
  PROVE  AfterLinker(Linked(a, argv)) = argv
<1>0. Linker \in S /\ Option \in S /\ T("rel", "dirs") \in S
  BY DEF Own
<1> HIDE DEF Linker, Option
<1>1. CASE a.libs
  <2> DEFINE p == <<Linker>> \o <<Option, T("rel", "dirs")>>
  <2>1. /\ p \in Seq(S) /\ Len(p) = 3 /\ p[2] = Option
    BY <1>0
  <2>2. Linked(a, argv) = p \o argv
    BY <1>1 DEF Linked, LibraryPath, Option
  <2> HIDE DEF p
  <2>3. Len(p \o argv) > 1 /\ (p \o argv)[2] = Option
    <3>0. p \in Seq(S)
      BY <2>1
    <3>1. Len(p \o argv) = Len(p) + Len(argv) /\ Len(argv) \in Nat
      BY <3>0, ConcatProperties
    <3>2. (p \o argv)[2] = p[2]
      BY <2>1, <3>1, ConcatProperties
    <3> QED
      BY <2>1, <3>1, <3>2
  <2>4. SubSeq(p \o argv, 4, Len(p \o argv)) = argv
    <3>1. p \in Seq(S) /\ Len(p) + 1 = 4
      BY <2>1
    <3>2. SubSeq(p \o argv, Len(p) + 1, Len(p \o argv)) = argv
      BY <3>1, SubSeqOfCons
    <3> QED
      BY <3>1, <3>2
  <2> QED
    BY <2>2, <2>3, <2>4 DEF AfterLinker, Option
<1>2. CASE ~a.libs
  <2>1. Linked(a, argv) = <<Linker>> \o argv
    <3>1. <<Linker>> \o <<>> = <<Linker>>
      BY <1>0
    <3> QED
      BY <1>2, <3>1 DEF Linked, LibraryPath
  <2> DEFINE t == <<Linker>> \o argv
  <2>2. t[2] = argv[1]
    <3>1. <<Linker>> \in Seq(S) /\ Len(<<Linker>>) = 1 /\ Len(argv) \in Nat
          /\ 1 <= Len(argv)
      BY <1>0
    <3> QED
      BY <3>1, ConcatProperties
  <2>3. Tail(t) = argv
    BY <1>0, TailOfCons
  <2> HIDE DEF t
  <2> QED
    BY <2>1, <2>2, <2>3 DEF AfterLinker, Option, t
<1> QED
  BY <1>1, <1>2

LEMMA ShellReads ==
  ASSUME NEW S, Own \subseteq S, NEW a, a.arg \in S,
         NEW argv \in Seq(S)
  PROVE  /\ Interpreted(a, argv) \in Seq(S)
         /\ Interpreted(a, argv) # <<>>
         /\ Interpreted(a, argv)[1] = Shell
         /\ AfterShell(a, Interpreted(a, argv)) = argv
<1>0. Shell \in S
  BY DEF Own
<1> HIDE DEF Shell
<1> DEFINE p == <<Shell>> \o (IF a.arg = NoArg THEN <<>> ELSE <<a.arg>>)
           n == IF a.arg = NoArg THEN 2 ELSE 3
<1>1. p \in Seq(S) /\ Len(p) + 1 = n /\ p[1] = Shell /\ Len(p) \in Nat \ {0}
  <2>1. CASE a.arg = NoArg
    BY <1>0, <2>1
  <2>2. CASE a.arg # NoArg
    BY <1>0, <2>2
  <2> QED
    BY <2>1, <2>2
<1>2. Interpreted(a, argv) = p \o argv
  BY DEF Interpreted
<1> HIDE DEF p
<1>3. p \o argv \in Seq(S) /\ (p \o argv)[1] = Shell /\ p \o argv # <<>>
  <2>1. p \o argv \in Seq(S) /\ Len(p \o argv) = Len(p) + Len(argv)
        /\ Len(argv) \in Nat /\ (p \o argv)[1] = p[1]
    BY <1>1, ConcatProperties
  <2> QED
    BY <1>1, <2>1
<1>4. SubSeq(p \o argv, Len(p) + 1, Len(p \o argv)) = argv
  BY <1>1, SubSeqOfCons
<1>5. AfterShell(a, p \o argv) = argv
  BY <1>1, <1>4 DEF AfterShell
<1> QED
  BY <1>2, <1>3, <1>5

(* The arguments, resolved: the program in the image, then the rest.       *)
Rest(a)  == [i \in DOMAIN a.args |-> Prefixed(a.args[i])]
Words(a) == Own \cup {a.arg} \cup {Argv(a)[i] : i \in 1 .. 1 + Len(a.args)}

LEMMA ProgramFirst ==
  ASSUME NEW a, IsApp(a), Found(a)
  PROVE  Prefixed(LookPath(a)) = Program(a)
<1>1. CASE a.argv0 = T("abs", "prog")
  BY <1>1 DEF LookPath, Prefixed, Program, T, Token
<1>2. CASE a.argv0 = T("rel", "prog")
  <2>1. a.dirs # {} /\ a.argv0.kind # "abs"
    BY <1>2 DEF Found, T, Token
  <2>2. LookPath(a) = Token("abs", a.argv0.name, Min(a.dirs))
    BY <2>1 DEF LookPath, Min
  <2> QED
    BY <2>1, <2>2 DEF Prefixed, Program, Token
<1> QED
  BY <1>1, <1>2 DEF IsApp

LEMMA ProgramIsOwn ==
  ASSUME NEW a, IsApp(a)
  PROVE  /\ Program(a).kind = "rootfs"
         /\ Program(a) # Shell /\ Program(a) # Linker /\ Program(a) # Option
<1>1. a.argv0.name = "prog"
  BY DEF IsApp, T, Token
<1>2. Program(a).kind = "rootfs" /\ Program(a).name = "prog"
  BY <1>1 DEF Program, Token
<1> QED
  BY <1>2 DEF Shell, Linker, Option, T, Token

LEMMA ArgvShape ==
  ASSUME NEW a, IsApp(a), Found(a)
  PROVE  /\ Argv(a) \in Seq(Words(a)) /\ Argv(a) # <<>>
         /\ Argv(a)[1] = Program(a)
         /\ Argv(a) = <<Program(a)>> \o Rest(a)
<1> DEFINE n == Len(a.args)
           S == Words(a)
<1>1. n \in Nat /\ DOMAIN a.args = 1 .. n
  BY DEF IsApp
<1>2. DOMAIN Argv(a) = 1 .. 1 + n /\ \A i \in 1 .. 1 + n : Argv(a)[i] \in S
  BY <1>1 DEF Argv, Words
<1>3. Argv(a) \in [1 .. 1 + n -> S]
  BY <1>1, <1>2 DEF Argv
<1>4. Argv(a) \in Seq(S) /\ Len(Argv(a)) = 1 + n
  BY <1>1, <1>3
<1>5. Argv(a)[1] = Program(a)
  BY <1>1, ProgramFirst DEF Argv
<1>6. \A i \in 1 .. n : Argv(a)[1 + i] = Rest(a)[i]
  <2> SUFFICES ASSUME NEW i \in 1 .. n PROVE Argv(a)[1 + i] = Rest(a)[i]
    OBVIOUS
  <2>1. RawArgv(a)[1 + i] = a.args[i]
    <3>1. a.args \in Seq({T("rel", "flag"), T("abs", "conf"), a.argv0})
      BY DEF IsApp
    <3>2. /\ 1 + i \in 1 .. 1 + n
          /\ <<a.argv0>> \in Seq({T("rel", "flag"), T("abs", "conf"), a.argv0})
          /\ Len(<<a.argv0>>) = 1 /\ 1 + i > 1 /\ (1 + i) - 1 = i
      BY <1>1
    <3> QED
      BY <3>1, <3>2, ConcatProperties DEF RawArgv
  <2> QED
    BY <1>1, <2>1 DEF Argv, Rest
<1>7. Rest(a) \in Seq(S) /\ Len(Rest(a)) = n
  <2>1. Rest(a) = [i \in 1 .. n |-> Prefixed(a.args[i])]
    BY <1>1 DEF Rest
  <2>2. \A i \in 1 .. n : Rest(a)[i] \in S
    BY <1>1, <1>2, <1>6
  <2>3. Rest(a) \in [1 .. n -> S]
    BY <2>1, <2>2
  <2> QED
    BY <1>1, <2>3
<1>8. Argv(a) = <<Program(a)>> \o Rest(a)
  <2>1. Program(a) \in S
    BY <1>1, <1>2, <1>5
  <2>2. <<Program(a)>> \in Seq(S) /\ Len(<<Program(a)>>) = 1
        /\ <<Program(a)>>[1] = Program(a)
    BY <2>1
  <2> DEFINE t == <<Program(a)>> \o Rest(a)
  <2>3. /\ t \in Seq(S) /\ Len(t) = 1 + n
        /\ \A i \in 1 .. 1 + n :
             t[i] = IF i <= 1 THEN <<Program(a)>>[i] ELSE Rest(a)[i - 1]
    BY <1>7, <2>2, ConcatProperties
  <2> HIDE DEF t, n
  <2>4. ASSUME NEW i \in 1 .. 1 + n PROVE Argv(a)[i] = t[i]
    <3>1. CASE i = 1
      BY <1>1, <1>5, <2>2, <2>3, <3>1
    <3>2. CASE i # 1
      <4>1. i - 1 \in 1 .. n /\ 1 + (i - 1) = i /\ ~(i <= 1)
        BY <1>1, <3>2
      <4> QED
        BY <1>6, <2>3, <4>1
    <3> QED
      BY <3>1, <3>2
  <2>5. Argv(a) = t
    BY <1>4, <2>3, <2>4, SeqEqual
  <2> QED
    BY <2>5 DEF t
<1>9. Argv(a) # <<>>
  BY <1>1, <1>4
<1> QED
  BY <1>4, <1>5, <1>8, <1>9

(* Which file is executed: the linker for all that is dynamic, if there    *)
(* is one, the shell for other scripts, the program itself for the rest.   *)
LEMMA PlanCases ==
  ASSUME NEW a, IsApp(a), Found(a)
  PROVE  \/ /\ a.type = "dynamic" /\ a.linker
            /\ PrefixPlan(a) = Plan(Linker, Linked(a, Argv(a)))
         \/ /\ a.type = "script" /\ ShellLinked(a)
            /\ PrefixPlan(a) =
                 Plan(Linker, Linked(a, Interpreted(a, Argv(a))))
         \/ /\ a.type = "script" /\ ~ShellLinked(a)
            /\ PrefixPlan(a) = Plan(Shell, Interpreted(a, Argv(a)))
         \/ /\ ~(a.type = "dynamic" /\ a.linker)
            /\ ~(a.type = "script" /\ ShellLinked(a))
            /\ PrefixPlan(a) = Plan(Program(a), Argv(a))
<1>1. Argv(a)[1] = Program(a) /\ Program(a).kind = "rootfs"
  BY ArgvShape, ProgramIsOwn
<1>2. HostPath(Argv(a)[1]) = Program(a)
  BY <1>1 DEF HostPath
<1> QED
  BY <1>1, <1>2 DEF PrefixPlan

(* Through whatever linker and shell, the program of the image runs with   *)
(* the app's arguments (process.go:59-170).                                *)
THEOREM ImageProgramRuns == LaunchTypeOK => RunsImageProgram
<1> DEFINE a == app
           argv == Argv(app)
           S == Words(app)
<1> SUFFICES ASSUME IsApp(app), app.mode = "prefix", Found(app)
             PROVE  RunsAs(app, PrefixPlan(app)) = argv
  BY ArgvShape DEF LaunchTypeOK, RunsImageProgram, StartPlan, Rest
<1>1. /\ argv \in Seq(S) /\ argv # <<>> /\ argv[1] = Program(app)
      /\ Own \subseteq S /\ app.arg \in S
      /\ app.libs \in BOOLEAN
  BY ArgvShape DEF Words, IsApp
<1>2. /\ Program(app) # Shell /\ Program(app) # Linker /\ Program(app) # Option
      /\ Shell # Linker /\ Shell # Option
  BY ProgramIsOwn DEF Shell, Linker, Option, T, Token
<1> DEFINE shargv == Interpreted(app, argv)
<1>3. /\ shargv \in Seq(S) /\ shargv # <<>> /\ shargv[1] = Shell
      /\ AfterShell(app, shargv) = argv
  BY <1>1, ShellReads
<1> HIDE DEF S, argv, shargv
<1>4. Head(argv) = Program(app) /\ Head(shargv) = Shell
  BY <1>1, <1>3
<1>5. ASSUME NEW s \in {argv, shargv}
      PROVE  Loaded(Plan(Linker, Linked(app, s))) = s
  <2>1. s \in Seq(S) /\ s # <<>> /\ s[1] # Option
    BY <1>1, <1>2, <1>3, <1>5
  <2> QED
    BY <1>1, <2>1, LinkerLoads DEF Loaded, Plan
<1>6. ASSUME NEW s \in {argv, shargv}
      PROVE  Loaded(Plan(s[1], s)) = s
  <2>1. s \in Seq(S) /\ s # <<>> /\ s[1] # Linker
    BY <1>1, <1>2, <1>3, <1>6
  <2>2. <<s[1]>> \o Tail(s) = s
    <3>1. 1 \in 1 .. Len(s) /\ Len(s) \in 1 .. Len(s)
      BY <2>1
    <3>2. SubSeq(s, 1, Len(s)) = <<s[1]>> \o SubSeq(s, 2, Len(s))
      BY <2>1, <3>1, SubSeqRecursiveFirst
    <3>3. SubSeq(s, 1, Len(s)) = s
      BY <2>1, SubSeqFull
    <3>4. Tail(s) = SubSeq(s, 2, Len(s))
      BY <2>1, TailIsSubSeq
    <3> QED
      BY <3>2, <3>3, <3>4
  <2> QED
    BY <2>1, <2>2 DEF Loaded, Plan
<1>7. ASSUME NEW p, Loaded(p) = argv PROVE RunsAs(app, p) = argv
  BY <1>1, <1>2, <1>4, <1>7 DEF RunsAs
<1>8. ASSUME NEW p, Loaded(p) = shargv PROVE RunsAs(app, p) = argv
  BY <1>3, <1>4, <1>8 DEF RunsAs
<1> QED
  BY <1>1, <1>3, <1>5, <1>6, <1>7, <1>8, PlanCases DEF argv, shargv

-----------------------------------------------------------------------------
(* The environment.                                                        *)

Envs == Seq([key : Keys, places : Seq({"abs", "rel", "rootfs"})])

Once(env, key) ==
  \A i, j \in DOMAIN env : env[i].key = key /\ env[j].key = key => i = j

LEMMA VarsOfApps ==
  ASSUME NEW a, IsApp(a)
  PROVE  a.env \in Envs
<1>1. Seq({"abs", "rel"}) \subseteq Seq({"abs", "rel", "rootfs"})
  BY SeqMonotonic
<1> DEFINE V == [key : Keys, places : Seq({"abs", "rel"})]
           W == [key : Keys, places : Seq({"abs", "rel", "rootfs"})]
<1>2. V \subseteq W
  BY <1>1
<1>3. a.env \in Seq(V) /\ Envs = Seq(W)
  BY DEF IsApp, Envs
<1> HIDE DEF V, W
<1> QED
  BY <1>2, <1>3, SeqMonotonic

LEMMA VarInEnv ==
  ASSUME NEW env \in Envs, NEW k \in DOMAIN env
  PROVE  /\ k \in Nat \ {0}
         /\ env[k] \in [key : Keys, places : Seq({"abs", "rel", "rootfs"})]
         /\ env[k].places \in Seq({"abs", "rel", "rootfs"})
<1> DEFINE W == [key : Keys, places : Seq({"abs", "rel", "rootfs"})]
<1>1. env \in Seq(W)
  BY DEF Envs
<1> HIDE DEF W
<1>2. DOMAIN env = 1 .. Len(env) /\ Len(env) \in Nat /\ env[k] \in W
  BY <1>1, ElementOfSeq
<1> USE DEF W
<1>3. env[k].places \in Seq({"abs", "rel", "rootfs"})
  BY <1>2
<1> QED
  BY <1>2, <1>3

(* Where SelectInSeq finds a variable that is there once.                  *)
LEMMA Selected ==
  ASSUME NEW env \in Envs, NEW key, Once(env, key),
         NEW k \in DOMAIN env, env[k].key = key
  PROVE  SelectInSeq(env, LAMBDA v : v.key = key) = k
<1> DEFINE I == {i \in 1 .. Len(env) : env[i].key = key}
<1>1. I = {k} /\ k \in Int
  BY DEF Once, Envs
<1>2. Min(I) = k
  BY <1>1 DEF Min
<1>3. SelectInSeq(env, LAMBDA v : v.key = key) = IF I # {} THEN Min(I) ELSE 0
  BY DEF SelectInSeq
<1> QED
  BY <1>1, <1>2, <1>3

LEMMA NotSelected ==
  ASSUME NEW env \in Envs, NEW key, ~Has(env, {key})
  PROVE  SelectInSeq(env, LAMBDA v : v.key = key) = 0
<1> DEFINE I == {i \in 1 .. Len(env) : env[i].key = key}
<1>1. I = {}
  BY DEF Has, Range, Envs
<1>2. SelectInSeq(env, LAMBDA v : v.key = key) = IF I # {} THEN Min(I) ELSE 0
  BY DEF SelectInSeq
<1> QED
  BY <1>1, <1>2

(* The two changes, on an environment that has the variable once.          *)
AtRootfs(p) == [i \in DOMAIN p |-> IF p[i] = "abs" THEN "rootfs" ELSE p[i]]

SetPlaces(env, k, places) == [env EXCEPT ![k].places = places]

LEMMA Changed ==
  ASSUME NEW env \in Envs, NEW k \in DOMAIN env,
         NEW places \in Seq({"abs", "rel", "rootfs"}),
         NEW out, out = SetPlaces(env, k, places)
  PROVE  /\ out \in Envs /\ DOMAIN out = DOMAIN env
         /\ out[k].key = env[k].key /\ out[k].places = places
         /\ \A i \in DOMAIN env \ {k} : out[i] = env[i]
         /\ \A i \in DOMAIN env : out[i].key = env[i].key
<1> DEFINE W == [key : Keys, places : Seq({"abs", "rel", "rootfs"})]
           w == [env[k] EXCEPT !.places = places]
<1>1. env \in Seq(W) /\ Envs = Seq(W) /\ env[k] \in W
  BY VarInEnv DEF Envs
<1>2. w \in W /\ w.key = env[k].key /\ w.places = places
  BY <1>1
<1>3. out = [env EXCEPT ![k] = w]
  BY DEF SetPlaces
<1> HIDE DEF W, w
<1>4. k \in 1 .. Len(env) /\ DOMAIN env = 1 .. Len(env)
  BY <1>1
<1>5. /\ out \in Seq(W) /\ Len(out) = Len(env)
      /\ \A i \in 1 .. Len(env) : out[i] = IF i = k THEN w ELSE env[i]
  BY <1>1, <1>2, <1>3, <1>4, ExceptSeq
<1> QED
  BY <1>1, <1>2, <1>4, <1>5

LEMMA PathPrefixed ==
  ASSUME NEW env \in Envs, Once(env, "PATH"),
         NEW k \in DOMAIN env, env[k].key = "PATH"
  PROVE  /\ DOMAIN PrefixPathEnv(env) = DOMAIN env
         /\ PrefixPathEnv(env)[k].key = "PATH"
         /\ "abs" \notin Range(PrefixPathEnv(env)[k].places)
         /\ \A i \in DOMAIN env \ {k} : PrefixPathEnv(env)[i] = env[i]
<1>1. k # 0 /\ env[k].places \in Seq({"abs", "rel", "rootfs"})
  BY VarInEnv
<1> DEFINE p == env[k].places
           q == AtRootfs(env[k].places)
<1>2. q \in Seq({"abs", "rel", "rootfs"}) /\ "abs" \notin Range(q)
  <2>1. /\ DOMAIN p = 1 .. Len(p) /\ Len(p) \in Nat
        /\ \A i \in 1 .. Len(p) : p[i] \in {"abs", "rel", "rootfs"}
    BY <1>1
  <2>2. q = [i \in 1 .. Len(p) |-> IF p[i] = "abs" THEN "rootfs" ELSE p[i]]
    BY <2>1 DEF AtRootfs
  <2>3. q \in [1 .. Len(p) -> {"rel", "rootfs"}]
    BY <2>1, <2>2
  <2>4. q \in Seq({"rel", "rootfs"})
    BY <2>1, <2>3
  <2>5. q \in Seq({"abs", "rel", "rootfs"})
    BY <2>4, SeqMonotonic
  <2>6. "abs" \notin Range(q)
    BY <2>3 DEF Range
  <2> QED
    BY <2>5, <2>6
<1> HIDE DEF p, q
<1>3. SelectInSeq(env, LAMBDA v : v.key = "PATH") = k
  BY Selected
<1>4. PrefixPathEnv(env) = SetPlaces(env, k, q)
  BY <1>1, <1>3 DEF PrefixPathEnv, Change, SetPlaces, q, AtRootfs
<1> QED
  BY <1>2, <1>4, Changed

LEMMA LibPathFirst ==
  ASSUME NEW env \in Envs, NEW a, a.libs, Once(env, "LD_LIBRARY_PATH"),
         NEW k \in DOMAIN env, env[k].key = "LD_LIBRARY_PATH"
  PROVE  /\ InjectLibPaths(a, env) \in Envs
         /\ DOMAIN InjectLibPaths(a, env) = DOMAIN env
         /\ \A i \in DOMAIN env : InjectLibPaths(a, env)[i].key = env[i].key
         /\ Head(InjectLibPaths(a, env)[k].places) = "rootfs"
<1>1. k # 0 /\ env[k].places \in Seq({"abs", "rel", "rootfs"})
  BY VarInEnv
<1> DEFINE q == <<"rootfs">> \o env[k].places
<1>2. q \in Seq({"abs", "rel", "rootfs"}) /\ Head(q) = "rootfs"
  BY <1>1, TailOfCons
<1> HIDE DEF q
<1>3. SelectInSeq(env, LAMBDA v : v.key = "LD_LIBRARY_PATH") = k
  BY Selected
<1>4. Has(env, {"LD_LIBRARY_PATH"})
  BY DEF Has, Range
<1>5. InjectLibPaths(a, env) = SetPlaces(env, k, q)
  BY <1>1, <1>3, <1>4 DEF InjectLibPaths, Change, SetPlaces, q
<1> QED
  BY <1>2, <1>5, Changed

LEMMA OnePlace ==
  ASSUME NEW key \in Keys, NEW x \in {"abs", "rel", "rootfs"}
  PROVE  /\ Var(key, <<x>>)
              \in [key : Keys, places : Seq({"abs", "rel", "rootfs"})]
         /\ Var(key, <<x>>).key = key
         /\ Head(Var(key, <<x>>).places) = x
<1> DEFINE P == {"abs", "rel", "rootfs"}
<1> x \in P
  OBVIOUS
<1> HIDE DEF P
<1>1. <<x>> \in Seq(P) /\ Head(<<x>>) = x
  OBVIOUS
<1> QED
  BY <1>1 DEF Var, P

(* A default at the end, for a variable that is not there.                 *)
Adds(env, v, key) ==
  /\ env \o <<v>> \in Envs
  /\ Once(env \o <<v>>, key)
  /\ \E n \in DOMAIN (env \o <<v>>) :
       /\ (env \o <<v>>)[n] = v
       /\ DOMAIN (env \o <<v>>) = DOMAIN env \cup {n} /\ n \notin DOMAIN env
  /\ \A i \in DOMAIN env : (env \o <<v>>)[i] = env[i]

LEMMA AddVar ==
  ASSUME NEW env \in Envs, NEW key, Once(env, key),
         NEW v \in [key : Keys, places : Seq({"abs", "rel", "rootfs"})],
         v.key = key => ~Has(env, {key})
  PROVE  Adds(env, v, key)
<1> DEFINE W == [key : Keys, places : Seq({"abs", "rel", "rootfs"})]
           out == env \o <<v>>
<1>1. env \in Seq(W) /\ Envs = Seq(W) /\ v \in W
  BY DEF Envs
<1> HIDE DEF W
<1>2. /\ <<v>> \in Seq(W) /\ Len(<<v>>) = 1 /\ <<v>>[1] = v
      /\ Len(env) \in Nat /\ DOMAIN env = 1 .. Len(env)
  BY <1>1
<1>3. /\ out \in Seq(W) /\ Len(out) = Len(env) + 1
      /\ \A i \in 1 .. Len(env) + 1 :
           out[i] = IF i <= Len(env) THEN env[i] ELSE <<v>>[i - Len(env)]
  BY <1>1, <1>2, ConcatProperties
<1> HIDE DEF out
<1>4. /\ DOMAIN out = 1 .. Len(env) + 1 /\ out[Len(env) + 1] = v
      /\ \A i \in 1 .. Len(env) : out[i] = env[i]
  BY <1>2, <1>3
<1>5. v.key = key => \A i \in DOMAIN env : env[i].key # key
  BY DEF Has, Range
<1>6. Once(out, key)
  <2> SUFFICES ASSUME NEW i \in DOMAIN out, NEW j \in DOMAIN out,
                      out[i].key = key, out[j].key = key
               PROVE  i = j
    BY DEF Once
  <2>1. CASE i \in DOMAIN env /\ j \in DOMAIN env
    BY <1>2, <1>4, <2>1 DEF Once
  <2>2. CASE i = Len(env) + 1 \/ j = Len(env) + 1
    BY <1>2, <1>4, <1>5, <2>2
  <2> QED
    BY <1>2, <1>4, <2>1, <2>2
<1>7. /\ DOMAIN out = DOMAIN env \cup {Len(env) + 1}
      /\ Len(env) + 1 \notin DOMAIN env
  BY <1>2, <1>4
<1> QED
  BY <1>1, <1>2, <1>3, <1>4, <1>6, <1>7 DEF Adds, out

(* What the steps of the environment keep.                                 *)
Proper(env) ==
  /\ env \in Envs
  /\ Once(env, "PATH") /\ Once(env, "LD_LIBRARY_PATH")

LEMMA Defaults ==
  ASSUME NEW env \in Envs, SetsOnce(env), ~Has(env, {"Path"})
  PROVE  /\ Proper(BuildEnv(env))
         /\ \E k \in DOMAIN BuildEnv(env) : BuildEnv(env)[k].key = "PATH"
<1> DEFINE path == Var("PATH", <<"abs">>)
           home == Var("HOME", <<"abs">>)
           e == env \o (IF Has(env, {"PATH", "Path"}) THEN <<>> ELSE <<path>>)
<1>1. Proper(env)
  BY DEF Proper, SetsOnce, Once
<1>2. /\ path \in [key : Keys, places : Seq({"abs", "rel", "rootfs"})]
      /\ home \in [key : Keys, places : Seq({"abs", "rel", "rootfs"})]
      /\ path.key = "PATH" /\ home.key = "HOME"
  <2>1. "PATH" \in Keys /\ "HOME" \in Keys
    BY LaunchAssumption
  <2>2. "abs" \in {"abs", "rel", "rootfs"}
    OBVIOUS
  <2> QED
    BY <2>1, <2>2, OnePlace
<1>3. env \o <<>> = env
  BY ConcatEmptySeq DEF Envs
<1> HIDE DEF path, home
<1>4. Proper(e) /\ \E k \in DOMAIN e : e[k].key = "PATH"
  <2>1. CASE Has(env, {"PATH", "Path"})
    <3>1. PICK v \in Range(env) : v.key \in {"PATH", "Path"}
      BY <2>1 DEF Has
    <3>2. v.key = "PATH"
      BY <3>1 DEF Has
    <3>3. \E k \in DOMAIN env : env[k].key = "PATH"
      BY <3>1, <3>2 DEF Range
    <3> QED
      BY <1>1, <1>3, <2>1, <3>3
  <2>2. CASE ~Has(env, {"PATH", "Path"})
    <3>1. ~Has(env, {"PATH"})
      BY <2>2 DEF Has
    <3>2. Adds(env, path, "PATH") /\ Adds(env, path, "LD_LIBRARY_PATH")
      BY <1>1, <1>2, <3>1, AddVar DEF Proper
    <3>3. e = env \o <<path>>
      BY <2>2
    <3> QED
      BY <1>2, <3>2, <3>3 DEF Adds, Proper
  <2> QED
    BY <2>1, <2>2
<1>5. BuildEnv(env) =
        e \o (IF Has(env, {"HOME"}) THEN <<>> ELSE <<home>>)
  BY DEF BuildEnv, path, home
<1> HIDE DEF e
<1>6. CASE Has(env, {"HOME"})
  <2>1. BuildEnv(env) = e
    BY <1>4, <1>5, <1>6, ConcatEmptySeq DEF Proper, Envs
  <2> QED
    BY <1>4, <2>1
<1>7. CASE ~Has(env, {"HOME"})
  <2>1. Adds(e, home, "PATH") /\ Adds(e, home, "LD_LIBRARY_PATH")
    BY <1>2, <1>4, AddVar DEF Proper
  <2>2. BuildEnv(env) = e \o <<home>>
    BY <1>5, <1>7
  <2> QED
    BY <1>4, <2>1, <2>2 DEF Adds, Proper
<1> QED
  BY <1>6, <1>7

LEMMA LibPaths ==
  ASSUME NEW a, a.libs \in BOOLEAN, NEW env, Proper(env),
         \E k \in DOMAIN env : env[k].key = "PATH"
  PROVE  LET out == InjectLibPaths(a, env)
         IN /\ Proper(out)
            /\ \E k \in DOMAIN out : out[k].key = "PATH"
            /\ a.libs => \A i \in DOMAIN out :
                 out[i].key = "LD_LIBRARY_PATH"
                   => Head(out[i].places) = "rootfs"
<1> DEFINE out == InjectLibPaths(a, env)
<1>1. CASE ~a.libs
  BY <1>1 DEF InjectLibPaths
<1>2. CASE a.libs /\ Has(env, {"LD_LIBRARY_PATH"})
  <2>1. PICK k \in DOMAIN env : env[k].key = "LD_LIBRARY_PATH"
    BY <1>2 DEF Has, Range
  <2>2. /\ out \in Envs /\ DOMAIN out = DOMAIN env
        /\ \A i \in DOMAIN env : out[i].key = env[i].key
        /\ Head(out[k].places) = "rootfs"
    BY <1>2, <2>1, LibPathFirst DEF Proper
  <2> HIDE DEF out
  <2>3. \A i \in DOMAIN out : out[i].key = "LD_LIBRARY_PATH" => i = k
    BY <2>1, <2>2 DEF Proper, Once
  <2>4. Proper(out)
    BY <2>2 DEF Proper, Once
  <2> QED
    BY <2>2, <2>3, <2>4 DEF out
<1>3. CASE a.libs /\ ~Has(env, {"LD_LIBRARY_PATH"})
  <2> DEFINE v == Var("LD_LIBRARY_PATH", <<"rootfs">>)
  <2>1. /\ v \in [key : Keys, places : Seq({"abs", "rel", "rootfs"})]
        /\ v.key = "LD_LIBRARY_PATH" /\ Head(v.places) = "rootfs"
    <3>1. "LD_LIBRARY_PATH" \in Keys /\ "rootfs" \in {"abs", "rel", "rootfs"}
      BY LaunchAssumption
    <3> QED
      BY <3>1, OnePlace
  <2>2. out = Append(env, v)
    BY <1>3 DEF InjectLibPaths
  <2> HIDE DEF v, out
  <2>3. Append(env, v) = env \o <<v>>
    BY <2>1, AppendIsConcat DEF Proper, Envs
  <2>4. Adds(env, v, "PATH") /\ Adds(env, v, "LD_LIBRARY_PATH")
    BY <1>3, <2>1, AddVar DEF Proper
  <2>5. \A i \in DOMAIN env : env[i].key # "LD_LIBRARY_PATH"
    BY <1>3 DEF Has, Range
  <2>6. Proper(out) /\ \E k \in DOMAIN out : out[k].key = "PATH"
    BY <2>2, <2>3, <2>4 DEF Adds, Proper
  <2>7. \A i \in DOMAIN out :
          out[i].key = "LD_LIBRARY_PATH" => Head(out[i].places) = "rootfs"
    BY <2>1, <2>2, <2>3, <2>4, <2>5 DEF Adds
  <2> QED
    BY <2>6, <2>7 DEF out
<1> QED
  BY <1>1, <1>2, <1>3

(* What is dynamic is loaded by the image's linker, and no search path of  *)
(* the app begins on the host (process.go:98-170, 263-311).                *)
THEOREM HostIsNotUsed == LaunchTypeOK => NothingOfHost
<1> SUFFICES ASSUME IsApp(app), app.mode = "prefix" PROVE NothingOfHost
  BY DEF LaunchTypeOK, NothingOfHost
<1>1. Found(app) /\ NeedsLinker(app) /\ app.linker =>
        StartPlan(app).path = Linker
  BY PlanCases DEF StartPlan, Plan, NeedsLinker, ShellLinked
<1>2. ASSUME SetsOnce(app.env), ~Has(app.env, {"Path"})
      PROVE  /\ Has(StartEnv(app), {"PATH"})
             /\ \A v \in Range(StartEnv(app)) : InImage(app, v)
  <2> DEFINE f == InjectLibPaths(app, BuildEnv(app.env))
             g == PrefixPathEnv(f)
  <2>1. /\ Proper(f) /\ \E k \in DOMAIN f : f[k].key = "PATH"
        /\ app.libs => \A i \in DOMAIN f :
             f[i].key = "LD_LIBRARY_PATH" => Head(f[i].places) = "rootfs"
    <3>1. app.env \in Envs /\ app.libs \in BOOLEAN
      BY VarsOfApps DEF IsApp
    <3> DEFINE e == BuildEnv(app.env)
    <3>2. Proper(e) /\ \E k \in DOMAIN e : e[k].key = "PATH"
      BY <1>2, <3>1, Defaults
    <3> HIDE DEF e
    <3>3. LET out == InjectLibPaths(app, e)
          IN /\ Proper(out)
             /\ \E k \in DOMAIN out : out[k].key = "PATH"
             /\ app.libs => \A i \in DOMAIN out :
                  out[i].key = "LD_LIBRARY_PATH"
                    => Head(out[i].places) = "rootfs"
      BY <3>1, <3>2, LibPaths
    <3> QED
      BY <3>3 DEF e
  <2>2. StartEnv(app) = g
    BY DEF StartEnv
  <2> HIDE DEF f
  <2>3. PICK k \in DOMAIN f : f[k].key = "PATH"
    BY <2>1
  <2>4. /\ DOMAIN g = DOMAIN f /\ g[k].key = "PATH"
        /\ "abs" \notin Range(g[k].places)
        /\ \A i \in DOMAIN f \ {k} : g[i] = f[i]
    BY <2>1, <2>3, PathPrefixed DEF Proper
  <2> HIDE DEF g
  <2>5. Has(g, {"PATH"})
    BY <2>3, <2>4 DEF Has, Range
  <2>6. ASSUME NEW i \in DOMAIN g PROVE InImage(app, g[i])
    <3>1. CASE i = k
      BY <2>4, <3>1 DEF InImage
    <3>2. CASE i # k
      <4>1. g[i] = f[i] /\ f[i].key # "PATH"
        BY <2>1, <2>3, <2>4, <3>2 DEF Proper, Once
      <4> QED
        BY <2>1, <2>4, <4>1 DEF InImage
    <3> QED
      BY <3>1, <3>2
  <2> QED
    BY <2>2, <2>5, <2>6 DEF Range
<1> QED
  BY <1>1, <1>2 DEF NothingOfHost

-----------------------------------------------------------------------------
(* The layers of an image.                                                 *)

(* Where Extract is, after the first k entries of an image: a name that    *)
(* one of them packs or hides is what the last of these says, any other is *)
(* what earlier attempts have left of the image's own entries.             *)

Inodes == 1 .. Cardinality(Names)
Disks  == [dir : BOOLEAN, inode : [Names -> 0 .. Cardinality(Names)],
           data : [Inodes -> Things]]

IsImage(img) ==
  /\ img \in Seq(Headers)
  /\ \A i, j \in DOMAIN img : i < j => img[i].layer <= img[j].layer

LastTouch(img, k, p, n) ==
  /\ p \in 1 .. k /\ Touches(img[p], n)
  /\ \A q \in 1 .. k : Touches(img[q], n) => q <= p

Says(img, p, n) == IF Packs(img[p], n) THEN Packed(img, p) ELSE NoFile

IsFile(img, n) == \E j \in DOMAIN img : img[j].op = "file" /\ img[j].name = n

LinkName(img, m) == \E j \in DOMAIN img : img[j].op = "link" /\ img[j].name = m

(* What the image says nothing about is left alone.                        *)
KeepsOthers(img, d, e) ==
  \A n \in Names : ~Touched(img, n) => Content(e, n) = Content(d, n)

FilesAreFiles(img, d) ==
  \A n \in Names :
    IsFile(img, n) /\ d.inode[n] # 0 => d.data[d.inode[n]].kind = "file"

(* Names share an inode through hard links only.                           *)
Shared(img, k, d) ==
  \A n, m \in Names :
    IsFile(img, n) /\ m # n /\ d.inode[n] # 0 /\ d.inode[m] = d.inode[n] =>
      /\ ~IsFile(img, m) /\ LinkName(img, m)
      /\ \A p \in 1 .. k : LastTouch(img, k, p, m) =>
           img[p].op = "link" /\ img[p].arg.name = n

AsPacked(img, k, d) ==
  \A n \in Names :
    \/ \A i \in 1 .. k : ~Touches(img[i], n)
    \/ \E p \in 1 .. k :
         LastTouch(img, k, p, n) /\ Content(d, n) = Says(img, p, n)

DirThere(img, k, d) ==
  \A j \in 1 .. k :
    Makes(img[j]) /\ (\A i \in j .. k : img[i].op # "opaque") => d.dir

Sound(img, k, d) ==
  /\ FilesAreFiles(img, d)
  /\ Shared(img, k, d) /\ AsPacked(img, k, d) /\ DirThere(img, k, d)

-----------------------------------------------------------------------------
LEMMA HeaderFacts ==
  ASSUME NEW e \in Headers
  PROVE  /\ e.op \in {"dir", "file", "symlink", "link", "white", "opaque"}
         /\ e.layer \in Nat
         /\ e.op \in {"file", "symlink", "link", "white"} => e.name \in Names
         /\ e.op = "file" => e.arg \in Files
         /\ e.op = "symlink" => e.arg \in Symlinks
         /\ e.op = "link" => e.arg.name \in Names
<1> DEFINE D == [op : {"dir", "opaque"}, layer : Nat, name : {""},
                 arg : {NoFile}]
           W == [op : {"white"}, layer : Nat, name : Names, arg : {NoFile}]
           F == [op : {"file"}, layer : Nat, name : Names, arg : Files]
           S == [op : {"symlink"}, layer : Nat, name : Names, arg : Symlinks]
           L == [op : {"link"}, layer : Nat, name : Names,
                 arg : [kind : {"name"}, layer : {0}, name : Names]]
<1>1. e \in D \/ e \in W \/ e \in F \/ e \in S \/ e \in L
  BY DEF Headers
<1>2. e \in D => e.op \in {"dir", "opaque"} /\ e.layer \in Nat
  OBVIOUS
<1>3. e \in W => e.op = "white" /\ e.layer \in Nat /\ e.name \in Names
  OBVIOUS
<1>4. e \in F => /\ e.op = "file" /\ e.layer \in Nat
                 /\ e.name \in Names /\ e.arg \in Files
  OBVIOUS
<1>5. e \in S => /\ e.op = "symlink" /\ e.layer \in Nat
                 /\ e.name \in Names /\ e.arg \in Symlinks
  OBVIOUS
<1>6. e \in L => /\ e.op = "link" /\ e.layer \in Nat
                 /\ e.name \in Names /\ e.arg.name \in Names
  OBVIOUS
<1> HIDE DEF D, W, F, S, L
<1> QED
  BY <1>1, <1>2, <1>3, <1>4, <1>5, <1>6

LEMMA ImageEntries ==
  ASSUME NEW img, IsImage(img)
  PROVE  /\ Len(img) \in Nat /\ DOMAIN img = 1 .. Len(img)
         /\ \A i \in 1 .. Len(img) : img[i] \in Headers
BY DEF IsImage

LEMMA MaxIs ==
  ASSUME NEW S \in SUBSET Nat, NEW p \in S, \A q \in S : q <= p
  PROVE  Max(S) = p
<1>1. \A y \in S : p >= y
  OBVIOUS
<1>2. \A x \in S : (\A y \in S : x >= y) => x = p
  OBVIOUS
<1> QED
  BY <1>1, <1>2 DEF Max

LEMMA NamesCount == IsFiniteSet(Names) /\ Cardinality(Names) \in Nat
BY LayersAssumption, FS_CardinalityType

(* There is an inode for a name that has none.                             *)
LEMMA FreeInode ==
  ASSUME NEW d \in Disks, NEW n \in Names, d.inode[n] = 0
  PROVE  Free(d) \in Inodes /\ \A m \in Names : d.inode[m] # Free(d)
<1> DEFINE held == {d.inode[m] : m \in Names \ {n}}
<1>1. IsFiniteSet(Names) /\ Cardinality(Names) \in Nat
  BY NamesCount
<1>2. /\ IsFiniteSet(Names \ {n})
      /\ Cardinality(Names \ {n}) = Cardinality(Names) - 1
  BY <1>1, FS_RemoveElement
<1>3. IsFiniteSet(held) /\ Cardinality(held) <= Cardinality(Names) - 1
  <2> DEFINE f == [m \in Names \ {n} |-> d.inode[m]]
  <2>1. f \in Surjection(Names \ {n}, held)
    BY DEF Surjection
  <2> HIDE DEF held, f
  <2>2. Cardinality(held) <= Cardinality(Names \ {n}) /\ IsFiniteSet(held)
    BY <1>2, <2>1, FS_Surjection
  <2> QED
    BY <1>2, <2>2
<1>4. IsFiniteSet(Inodes) /\ Cardinality(Inodes) = Cardinality(Names)
  BY <1>1, FS_Interval DEF Inodes
<1>5. ~(Inodes \subseteq held)
  BY <1>1, <1>3, <1>4, FS_Subset, FS_CardinalityType
<1>6. \E i \in Inodes : \A m \in Names : d.inode[m] # i
  BY <1>5 DEF Inodes
<1>7. DOMAIN d.data = Inodes
  BY DEF Disks
<1> QED
  BY <1>6, <1>7 DEF Free

-----------------------------------------------------------------------------
(* What the state of the disk after an entry has to do with that entry,    *)
(* for the next state to be sound.                                         *)

LEMMA TouchesNext ==
  ASSUME NEW img, NEW k \in Nat, NEW n
  PROVE  /\ Touches(img[k + 1], n) => LastTouch(img, k + 1, k + 1, n)
         /\ ~Touches(img[k + 1], n) =>
              \A p : LastTouch(img, k + 1, p, n) <=> LastTouch(img, k, p, n)
BY DEF LastTouch

LEMMA AsPackedNext ==
  ASSUME NEW img, NEW k \in Nat, NEW d, NEW e, AsPacked(img, k, d),
         \A n \in Names : Touches(img[k + 1], n) =>
           Content(e, n) = Says(img, k + 1, n),
         \A n \in Names, p \in 1 .. k :
           ~Touches(img[k + 1], n) /\ LastTouch(img, k, p, n) =>
             Content(e, n) = Content(d, n)
  PROVE  AsPacked(img, k + 1, e)
<1> SUFFICES ASSUME NEW n \in Names,
                    ~ \A i \in 1 .. k + 1 : ~Touches(img[i], n)
             PROVE  \E p \in 1 .. k + 1 :
                      /\ LastTouch(img, k + 1, p, n)
                      /\ Content(e, n) = Says(img, p, n)
  BY DEF AsPacked
<1>1. CASE Touches(img[k + 1], n)
  BY <1>1, TouchesNext
<1>2. CASE ~Touches(img[k + 1], n)
  <2>1. ~ \A i \in 1 .. k : ~Touches(img[i], n)
    BY <1>2
  <2>2. PICK p \in 1 .. k :
          LastTouch(img, k, p, n) /\ Content(d, n) = Says(img, p, n)
    BY <2>1 DEF AsPacked
  <2>3. LastTouch(img, k + 1, p, n)
    BY <1>2, <2>2, TouchesNext
  <2> QED
    BY <1>2, <2>2, <2>3
<1> QED
  BY <1>1, <1>2

LEMMA DirNext ==
  ASSUME NEW img, NEW k \in Nat, NEW d, NEW e, DirThere(img, k, d),
         img[k + 1].op # "opaque" /\ d.dir => e.dir,
         Makes(img[k + 1]) => e.dir
  PROVE  DirThere(img, k + 1, e)
<1> SUFFICES ASSUME NEW j \in 1 .. k + 1, Makes(img[j]),
                    \A i \in j .. k + 1 : img[i].op # "opaque"
             PROVE  e.dir
  BY DEF DirThere
<1>1. img[k + 1].op # "opaque"
  OBVIOUS
<1>2. CASE j = k + 1
  BY <1>2
<1>3. CASE j \in 1 .. k
  <2>1. \A i \in j .. k : img[i].op # "opaque"
    OBVIOUS
  <2>2. d.dir
    BY <1>3, <2>1 DEF DirThere
  <2> QED
    BY <1>1, <2>2
<1> QED
  BY <1>2, <1>3

(* What is shared afterwards was shared before, or has an inode of its own.*)
LEMMA SharedNext ==
  ASSUME NEW img, NEW k \in Nat, NEW d, NEW e, Shared(img, k, d),
         \A m \in Names : e.inode[m] # 0 =>
           \/ /\ e.inode[m] = d.inode[m]
              /\ Touches(img[k + 1], m) => IsFile(img, m)
           \/ \A n \in Names \ {m} : e.inode[n] # e.inode[m]
  PROVE  Shared(img, k + 1, e)
<1> SUFFICES ASSUME NEW n \in Names, NEW m \in Names, IsFile(img, n), m # n,
                    e.inode[n] # 0, e.inode[m] = e.inode[n]
             PROVE  /\ ~IsFile(img, m) /\ LinkName(img, m)
                    /\ \A p \in 1 .. k + 1 : LastTouch(img, k + 1, p, m) =>
                         img[p].op = "link" /\ img[p].arg.name = n
  BY DEF Shared
<1>1. d.inode[n] # 0 /\ d.inode[m] = d.inode[n]
  OBVIOUS
<1>2. ~IsFile(img, m) /\ LinkName(img, m)
  BY <1>1 DEF Shared
<1>3. ~Touches(img[k + 1], m)
  BY <1>2
<1>4. \A p : LastTouch(img, k + 1, p, m) <=> LastTouch(img, k, p, m)
  BY <1>3, TouchesNext
<1> QED
  BY <1>1, <1>2, <1>4 DEF Shared, LastTouch

LEMMA StoreIs ==
  ASSUME NEW d \in Disks, NEW i \in Inodes, NEW n \in Names, NEW x \in Things
  PROVE  /\ Store(d, i, n, x) \in Disks
         /\ Store(d, i, n, x).dir = d.dir
         /\ Store(d, i, n, x).inode = [d.inode EXCEPT ![n] = i]
         /\ Store(d, i, n, x).data = [d.data EXCEPT ![i] = x]
<1> DEFINE e == [d EXCEPT !.inode[n] = i]
<1>1. d = [dir |-> d.dir, inode |-> d.inode, data |-> d.data]
  BY DEF Disks
<1>2. e = [dir |-> d.dir, inode |-> [d.inode EXCEPT ![n] = i],
           data |-> d.data]
  BY <1>1 DEF Disks
<1>4. Store(d, i, n, x) = [e EXCEPT !.data[i] = x]
  BY DEF Store
<1> HIDE DEF e
<1>5. Store(d, i, n, x) = [dir |-> d.dir, inode |-> [d.inode EXCEPT ![n] = i],
                           data |-> [d.data EXCEPT ![i] = x]]
  BY <1>2, <1>4 DEF Disks
<1>3. i \in 0 .. Cardinality(Names)
  BY NamesCount DEF Inodes
<1> QED
  BY <1>5, <1>3 DEF Disks

LEMMA RemoveIs ==
  ASSUME NEW d \in Disks, NEW n \in Names
  PROVE  /\ RemoveName(d, n) \in Disks
         /\ RemoveName(d, n).dir = d.dir
         /\ RemoveName(d, n).inode = [d.inode EXCEPT ![n] = 0]
         /\ RemoveName(d, n).data = d.data
<1>1. d = [dir |-> d.dir, inode |-> d.inode, data |-> d.data]
  BY DEF Disks
<1>2. RemoveName(d, n) = [dir |-> d.dir, inode |-> [d.inode EXCEPT ![n] = 0],
                          data |-> d.data]
  BY <1>1 DEF RemoveName, Disks
<1>3. 0 \in 0 .. Cardinality(Names)
  BY NamesCount
<1> QED
  BY <1>2, <1>3 DEF Disks

-----------------------------------------------------------------------------
(* The entries, one kind after the other.                                  *)

Before(img, k, d) ==
  /\ IsImage(img) /\ Plain(img)
  /\ k \in Nat /\ k < Len(img)
  /\ d \in Disks /\ Sound(img, k, d)

After(img, k, d, e) ==
  e \in Disks /\ Sound(img, k, e) /\ KeepsOthers(img, d, e)

LEMMA EntryIs ==
  ASSUME NEW img, NEW k, NEW d, Before(img, k, d)
  PROVE  k + 1 \in DOMAIN img /\ img[k + 1] \in Headers
BY ImageEntries DEF Before

LEMMA DirStep ==
  ASSUME NEW img, NEW k, NEW d, Before(img, k, d), img[k + 1].op = "dir"
  PROVE  After(img, k + 1, d, [d EXCEPT !.dir = TRUE])
<1> DEFINE e == [d EXCEPT !.dir = TRUE]
<1>1. /\ e \in Disks /\ e.dir = TRUE
      /\ e.inode = d.inode /\ e.data = d.data
  BY DEF Before, Disks
<1> HIDE DEF e
<1>2. \A n : ~Touches(img[k + 1], n)
  BY DEF Touches, Packs, Hides
<1>3. KeepsOthers(img, d, e) /\ FilesAreFiles(img, e)
  BY <1>1 DEF Before, Sound, KeepsOthers, FilesAreFiles, Content
<1>4. Shared(img, k + 1, e)
  BY <1>1, <1>2, SharedNext DEF Before, Sound
<1>5. AsPacked(img, k + 1, e)
  BY <1>1, <1>2, AsPackedNext DEF Before, Sound, Content
<1>6. DirThere(img, k + 1, e)
  BY <1>1, DirNext DEF Before, Sound
<1> QED
  BY <1>1, <1>3, <1>4, <1>5, <1>6 DEF After, Sound, e

LEMMA NoDiskIs ==
  /\ NoDisk \in Disks /\ \A n \in Names : NoDisk.inode[n] = 0
  /\ \A n \in Names : Content(NoDisk, n) = NoFile
<1>1. 0 \in 0 .. Cardinality(Names) /\ NoFile \in Things
  BY NamesCount DEF Things
<1> QED
  BY <1>1 DEF NoDisk, Disks, Content, Inodes

LEMMA OpaqueStep ==
  ASSUME NEW img, NEW k, NEW d, Before(img, k, d), img[k + 1].op = "opaque"
  PROVE  After(img, k + 1, d, NoDisk)
<1>1. /\ NoDisk \in Disks /\ \A n \in Names : NoDisk.inode[n] = 0
      /\ \A n \in Names : Content(NoDisk, n) = NoFile
  BY NoDiskIs
<1>2. \A n : Touches(img[k + 1], n) /\ ~Packs(img[k + 1], n)
  BY DEF Touches, Packs, Hides
<1>3. KeepsOthers(img, d, NoDisk) /\ FilesAreFiles(img, NoDisk)
  BY <1>1, <1>2, EntryIs DEF KeepsOthers, FilesAreFiles, Touched
<1>4. Shared(img, k + 1, NoDisk)
  BY <1>1 DEF Shared
<1>5. AsPacked(img, k + 1, NoDisk)
  BY <1>1, <1>2, AsPackedNext DEF Before, Sound, Says
<1>6. DirThere(img, k + 1, NoDisk)
  BY DirNext DEF Before, Sound, Makes
<1> QED
  BY <1>1, <1>3, <1>4, <1>5, <1>6 DEF After, Sound

LEMMA WhiteStep ==
  ASSUME NEW img, NEW k, NEW d, Before(img, k, d), img[k + 1].op = "white"
  PROVE  After(img, k + 1, d, RemoveName(d, img[k + 1].name))
<1> DEFINE w == img[k + 1].name
           e == RemoveName(d, w)
<1>1. w \in Names
  BY EntryIs, HeaderFacts
<1>2. \A n : (Touches(img[k + 1], n) <=> n = w) /\ ~Packs(img[k + 1], n)
  BY DEF Touches, Packs, Hides
<1>3. /\ e \in Disks /\ e.dir = d.dir /\ e.data = d.data
      /\ e.inode = [d.inode EXCEPT ![w] = 0]
  BY <1>1, RemoveIs DEF Before
<1>4. e.inode[w] = 0 /\ \A n \in Names \ {w} : e.inode[n] = d.inode[n]
  BY <1>1, <1>3 DEF Before, Disks
<1> HIDE DEF e, w
<1>5. KeepsOthers(img, d, e) /\ FilesAreFiles(img, e)
  <2>1. \A n : ~Touched(img, n) => n # w
    BY <1>2, EntryIs DEF Touched
  <2> QED
    BY <1>3, <1>4, <2>1
       DEF Before, Sound, KeepsOthers, FilesAreFiles, Content
<1>6. Shared(img, k + 1, e)
  BY <1>2, <1>4, SharedNext DEF Before, Sound
<1>7. AsPacked(img, k + 1, e)
  <2>1. Content(e, w) = NoFile
    BY <1>4 DEF Content
  <2>2. \A n \in Names \ {w} : Content(e, n) = Content(d, n)
    BY <1>3, <1>4 DEF Content
  <2> QED
    BY <1>2, <2>1, <2>2, AsPackedNext DEF Before, Sound, Says
<1>8. DirThere(img, k + 1, e)
  BY <1>3, DirNext DEF Before, Sound, Makes
<1> QED
  BY <1>3, <1>5, <1>6, <1>7, <1>8 DEF After, Sound, e, w

(* A file is written into the inode its name has: a symlink never has it,  *)
(* and the hard links that do are to come, or they were hidden.            *)
LEMMA FileWritten ==
  ASSUME NEW img, NEW k, NEW d, Before(img, k, d), img[k + 1].op = "file",
         NEW x \in Files
  PROVE  LET e == WriteFile(d, img[k + 1].name, x) IN
         /\ e \in Disks
         /\ KeepsOthers(img, d, e) /\ FilesAreFiles(img, e)
         /\ Shared(img, k + 1, e) /\ DirThere(img, k + 1, e)
         /\ x = img[k + 1].arg => AsPacked(img, k + 1, e)
<1> DEFINE w == img[k + 1].name
           i == IF d.inode[w] = 0 THEN Free(d) ELSE d.inode[w]
           s == Store(d, i, w, x)
           e == [s EXCEPT !.dir = TRUE]
<1>1. w \in Names /\ x \in Files /\ x \in Things /\ x.kind = "file"
  BY EntryIs, HeaderFacts DEF Files, Things
<1>2. IsFile(img, w)
  BY EntryIs DEF IsFile
<1>3. Written(d, w) = w
  BY <1>1, <1>2 DEF Written, Content, Before, Sound, FilesAreFiles, NoFile,
                    Thing
<1>4. WriteFile(d, w, x) = e
  BY <1>3 DEF WriteFile
<1>5. \A n : (Touches(img[k + 1], n) <=> n = w)
             /\ (Packs(img[k + 1], n) <=> n = w)
  BY DEF Touches, Packs, Hides
<1>6. d \in Disks /\ d.inode[w] \in 0 .. Cardinality(Names)
  BY <1>1 DEF Before, Disks
<1>7. i \in Inodes /\ i # 0
  BY <1>1, <1>6, FreeInode, NamesCount DEF Inodes
<1>8. d.inode[w] = 0 => \A n \in Names : d.inode[n] # i
  BY <1>1, <1>6, FreeInode
<1>9. d.inode[w] # 0 => i = d.inode[w]
  OBVIOUS
<1>10. /\ s \in Disks /\ s.inode = [d.inode EXCEPT ![w] = i]
       /\ s.data = [d.data EXCEPT ![i] = x]
  <2> HIDE DEF i, w
  <2>1. d \in Disks /\ i \in Inodes /\ w \in Names /\ x \in Things
    BY <1>1, <1>6, <1>7
  <2> QED
    BY <2>1, StoreIs
<1> HIDE DEF s
<1>11. e \in Disks /\ e.dir = TRUE /\ e.inode = s.inode /\ e.data = s.data
  BY <1>10 DEF Disks
<1> HIDE DEF i, e
<1>12. /\ e.inode[w] = i /\ \A n \in Names \ {w} : e.inode[n] = d.inode[n]
       /\ e.data[i] = x /\ \A j \in Inodes \ {i} : e.data[j] = d.data[j]
  BY <1>1, <1>6, <1>7, <1>10, <1>11 DEF Disks
<1>13. \A n \in Names : d.inode[n] # 0 => d.inode[n] \in Inodes
  BY <1>6, NamesCount DEF Disks, Inodes
<1> HIDE DEF w
<1>14. KeepsOthers(img, d, e)
  <2> SUFFICES ASSUME NEW n \in Names, ~Touched(img, n)
               PROVE  Content(e, n) = Content(d, n)
    BY DEF KeepsOthers
  <2>1. n # w
    BY <1>5, EntryIs DEF Touched
  <2>2. ~LinkName(img, n)
    BY DEF LinkName, Touched, Touches, Packs
  <2>3. d.inode[n] # i
    BY <1>1, <1>2, <1>7, <1>8, <1>9, <2>1, <2>2 DEF Before, Sound, Shared
  <2> QED
    BY <1>12, <1>13, <2>1, <2>3 DEF Content
<1>15. FilesAreFiles(img, e)
  BY <1>1, <1>12, <1>13 DEF Before, Sound, FilesAreFiles
<1>16. Shared(img, k + 1, e)
  <2>1. \A m \in Names : e.inode[m] # 0 =>
          \/ /\ e.inode[m] = d.inode[m]
             /\ Touches(img[k + 1], m) => IsFile(img, m)
          \/ \A n \in Names \ {m} : e.inode[n] # e.inode[m]
    BY <1>2, <1>5, <1>8, <1>9, <1>12
  <2> QED
    BY <2>1, SharedNext DEF Before, Sound
<1>17. x = img[k + 1].arg => AsPacked(img, k + 1, e)
  <2> SUFFICES ASSUME x = img[k + 1].arg PROVE AsPacked(img, k + 1, e)
    OBVIOUS
  <2>1. Content(e, w) = Says(img, k + 1, w)
    BY <1>5, <1>7, <1>12 DEF Content, Says, Packed
  <2>2. ASSUME NEW n \in Names, NEW p \in 1 .. k, n # w,
               LastTouch(img, k, p, n)
        PROVE  Content(e, n) = Content(d, n)
    <3>1. CASE d.inode[n] = i
      <4>1. d.inode[w] = i
        BY <1>8, <1>9, <3>1
      <4>2. img[p].op = "link" /\ img[p].arg.name = w
        BY <1>1, <1>2, <1>7, <2>2, <3>1, <4>1 DEF Before, Sound, Shared
      <4>3. p \in DOMAIN img /\ k + 1 \in DOMAIN img
        BY ImageEntries, EntryIs DEF Before
      <4>4. k + 1 < p
        BY <4>2, <4>3 DEF Before, Plain, NotRewritten, w
      <4> QED
        BY <4>4 DEF Before
    <3>2. CASE d.inode[n] # i
      BY <1>12, <1>13, <2>2, <3>2 DEF Content
    <3> QED
      BY <3>1, <3>2
  <2> QED
    BY <1>5, <2>1, <2>2, AsPackedNext DEF Before, Sound
<1>18. DirThere(img, k + 1, e)
  BY <1>11, DirNext DEF Before, Sound
<1> QED
  BY <1>4, <1>11, <1>14, <1>15, <1>16, <1>17, <1>18 DEF w

LEMMA FileStep ==
  ASSUME NEW img, NEW k, NEW d, Before(img, k, d), img[k + 1].op = "file"
  PROVE  After(img, k + 1, d, WriteFile(d, img[k + 1].name, img[k + 1].arg))
<1>1. img[k + 1].arg \in Files
  BY EntryIs, HeaderFacts
<1> QED
  BY <1>1, FileWritten DEF After, Sound

(* The name of a link is no file's, and the directory is there.            *)
LEMMA LinkHasDir ==
  ASSUME NEW img, NEW k, NEW d, Before(img, k, d),
         img[k + 1].op \in {"symlink", "link"}
  PROVE  /\ img[k + 1].name \in Names
         /\ ~IsFile(img, img[k + 1].name)
         /\ d.dir
         /\ \A n : (Touches(img[k + 1], n) <=> n = img[k + 1].name)
                   /\ (Packs(img[k + 1], n) <=> n = img[k + 1].name)
<1>1. img[k + 1].name \in Names
  BY EntryIs, HeaderFacts
<1>2. ~IsFile(img, img[k + 1].name)
  BY EntryIs DEF Before, Plain, NotRewritten, IsFile
<1>3. PICK j \in 1 .. k :
        Makes(img[j]) /\ \A q \in j .. k : img[q].op # "opaque"
  <2>1. (k + 1) - 1 = k
    BY DEF Before
  <2> QED
    BY <2>1, EntryIs DEF Before, Plain, DirBeforeLinks
<1>4. d.dir
  BY <1>3 DEF Before, Sound, DirThere
<1>5. \A n : (Touches(img[k + 1], n) <=> n = img[k + 1].name)
             /\ (Packs(img[k + 1], n) <=> n = img[k + 1].name)
  BY DEF Touches, Packs, Hides
<1> QED
  BY <1>1, <1>2, <1>4, <1>5

LEMMA SymlinkStep ==
  ASSUME NEW img, NEW k, NEW d, Before(img, k, d), img[k + 1].op = "symlink"
  PROVE  After(img, k + 1, d, MakeSymlink(d, img[k + 1].name, img[k + 1].arg))
<1> DEFINE w == img[k + 1].name
           x == img[k + 1].arg
           r == RemoveName(d, w)
           i == Free(r)
           e == Store(r, i, w, x)
<1>1. /\ w \in Names /\ ~IsFile(img, w) /\ d.dir /\ d \in Disks
      /\ \A n : (Touches(img[k + 1], n) <=> n = w)
                /\ (Packs(img[k + 1], n) <=> n = w)
  BY LinkHasDir DEF Before
<1>2. x \in Things
  BY EntryIs, HeaderFacts DEF Things
<1>3. /\ r \in Disks /\ r.dir = d.dir /\ r.data = d.data
      /\ r.inode = [d.inode EXCEPT ![w] = 0]
  BY <1>1, RemoveIs
<1>4. MakeSymlink(d, w, x) = e
  BY <1>1, <1>3 DEF MakeSymlink
<1> HIDE DEF r
<1>5. r.inode[w] = 0 /\ \A n \in Names \ {w} : r.inode[n] = d.inode[n]
  BY <1>1, <1>3 DEF Disks
<1>6. i \in Inodes /\ i # 0 /\ \A n \in Names : r.inode[n] # i
  <2>1. i \in Inodes /\ \A n \in Names : r.inode[n] # i
    BY <1>1, <1>3, <1>5, FreeInode
  <2> HIDE DEF i
  <2> QED
    BY <2>1, NamesCount DEF Inodes
<1> HIDE DEF i, w, x
<1>7. /\ e \in Disks /\ e.dir = r.dir /\ e.inode = [r.inode EXCEPT ![w] = i]
      /\ e.data = [r.data EXCEPT ![i] = x]
  <2>1. r \in Disks /\ i \in Inodes /\ w \in Names /\ x \in Things
    BY <1>1, <1>2, <1>3, <1>6
  <2> QED
    BY <2>1, StoreIs
<1> HIDE DEF e
<1>8. /\ e.inode[w] = i /\ \A n \in Names \ {w} : e.inode[n] = d.inode[n]
      /\ e.data[i] = x /\ \A j \in Inodes \ {i} : e.data[j] = d.data[j]
  BY <1>1, <1>3, <1>5, <1>6, <1>7 DEF Disks
<1>9. \A n \in Names \ {w} : e.inode[n] # i /\ d.inode[n] # i
  BY <1>5, <1>6, <1>8
<1>10. \A n \in Names : d.inode[n] # 0 => d.inode[n] \in Inodes
  BY <1>1, NamesCount DEF Disks, Inodes
<1> HIDE DEF w, x
<1>11. KeepsOthers(img, d, e)
  <2>1. \A n : ~Touched(img, n) => n # w
    BY <1>1, EntryIs DEF Touched
  <2> QED
    BY <1>8, <1>9, <1>10, <2>1 DEF Content, KeepsOthers
<1>12. FilesAreFiles(img, e)
  BY <1>1, <1>8, <1>9, <1>10 DEF Before, Sound, FilesAreFiles
<1>13. Shared(img, k + 1, e)
  <2>1. \A m \in Names : e.inode[m] # 0 =>
          \/ /\ e.inode[m] = d.inode[m]
             /\ Touches(img[k + 1], m) => IsFile(img, m)
          \/ \A n \in Names \ {m} : e.inode[n] # e.inode[m]
    BY <1>1, <1>8, <1>9
  <2> QED
    BY <2>1, SharedNext DEF Before, Sound
<1>14. AsPacked(img, k + 1, e)
  <2>1. Content(e, w) = Says(img, k + 1, w)
    BY <1>1, <1>6, <1>8 DEF Content, Says, Packed, x
  <2>2. \A n \in Names \ {w} : Content(e, n) = Content(d, n)
    BY <1>8, <1>9, <1>10 DEF Content
  <2> QED
    BY <1>1, <2>1, <2>2, AsPackedNext DEF Before, Sound
<1>15. DirThere(img, k + 1, e)
  BY <1>1, <1>3, <1>7, DirNext DEF Before, Sound, Makes
<1> QED
  BY <1>4, <1>7, <1>11, <1>12, <1>13, <1>14, <1>15 DEF After, Sound, w, x

(* The other name of a hard link has the file the link was packed for.     *)
LEMMA TargetIs ==
  ASSUME NEW img, NEW k, NEW d, Before(img, k, d), img[k + 1].op = "link"
  PROVE  LET t == img[k + 1].arg.name IN
         /\ t \in Names /\ IsFile(img, t)
         /\ d.inode[t] # 0
         /\ d.data[d.inode[t]] = Packed(img, k + 1)
<1> DEFINE t == img[k + 1].arg.name
           S == LinkedTo(img, k + 1)
<1>1. t \in Names
  BY EntryIs, HeaderFacts
<1>2. /\ DOMAIN img = 1 .. Len(img) /\ k \in Nat /\ k < Len(img)
      /\ Len(img) \in Nat
      /\ \A i \in 1 .. Len(img) : img[i].layer \in Nat
  BY ImageEntries, HeaderFacts DEF Before
<1>3. S = {j \in 1 .. k : img[j].op = "file" /\ img[j].name = t}
  BY <1>2 DEF LinkedTo
<1>4. PICK j \in S : img[j].layer = img[k + 1].layer
  BY EntryIs DEF Before, Plain, FileBeforeLinks
<1>5. /\ j \in 1 .. k /\ img[j].op = "file" /\ img[j].name = t
      /\ \A q \in S : q \in 1 .. k /\ Touches(img[q], t)
  BY <1>3, <1>4 DEF Touches, Packs
<1>6. PICK p \in 1 .. k :
        LastTouch(img, k, p, t) /\ Content(d, t) = Says(img, p, t)
  BY <1>1, <1>5 DEF Before, Sound, AsPacked
<1>7. j <= p /\ Touches(img[p], t) /\ \A q \in S : q <= p
  BY <1>5, <1>6 DEF LastTouch
<1>8. img[p].op = "file" /\ img[p].name = t
  <2>1. p \in DOMAIN img /\ j \in DOMAIN img
    BY <1>2, <1>5
  <2>2. img[p].op \in {"link", "symlink"} => img[p].name # t
    BY <1>5, <2>1 DEF Before, Plain, NotRewritten
  <2>3. img[p].op \notin {"white", "opaque"}
    <3> SUFFICES ASSUME img[p].op \in {"white", "opaque"} PROVE FALSE
      OBVIOUS
    <3>1. j < p
      BY <1>2, <1>5, <1>7
    <3>2. \A a, b \in DOMAIN img : a < b => img[a].layer <= img[b].layer
      BY DEF Before, IsImage
    <3>3. /\ img[j].layer <= img[p].layer
          /\ img[p].layer <= img[k + 1].layer
      BY <1>2, <2>1, <3>1, <3>2
    <3>4. img[j].layer = img[p].layer
      BY <1>2, <1>4, <2>1, <3>3
    <3> QED
      BY <1>5, <2>1, <3>1, <3>4 DEF Before, Plain, WhiteoutsFirst
  <2> QED
    BY <1>7, <2>2, <2>3 DEF Touches, Packs, Hides
<1>9. Content(d, t) = img[p].arg
  BY <1>6, <1>8 DEF Says, Packs, Packed
<1>10. img[p].arg # NoFile
  <2>1. img[p] \in Headers
    BY <1>2, ImageEntries DEF Before
  <2>2. QED
    <3>1. img[p].arg \in Files
      BY <1>8, <2>1, HeaderFacts
    <3>2. img[p].arg.kind = "file"
      BY <3>1 DEF Files
    <3>3. NoFile.kind = "none"
      BY DEF NoFile, Thing
    <3> QED
      BY <3>2, <3>3
<1>11. Packed(img, k + 1) = img[p].arg
  <2>1. p \in S /\ S \in SUBSET Nat
    BY <1>2, <1>3, <1>8
  <2> HIDE DEF S
  <2>2. Max(S) = p
    BY <1>7, <2>1, MaxIs
  <2> QED
    BY <2>2 DEF Packed, S
<1>12. IsFile(img, t)
  BY <1>2, <1>8 DEF IsFile
<1> QED
  BY <1>1, <1>9, <1>10, <1>11, <1>12 DEF Content

LEMMA LinkStep ==
  ASSUME NEW img, NEW k, NEW d, Before(img, k, d), img[k + 1].op = "link"
  PROVE  After(img, k + 1, d,
               MakeLink(d, img[k + 1].name, img[k + 1].arg.name))
<1> DEFINE w == img[k + 1].name
           t == img[k + 1].arg.name
           r == RemoveName(d, w)
           e == [r EXCEPT !.inode[w] = r.inode[t]]
<1>1. /\ w \in Names /\ ~IsFile(img, w) /\ d.dir /\ d \in Disks
      /\ \A n : (Touches(img[k + 1], n) <=> n = w)
                /\ (Packs(img[k + 1], n) <=> n = w)
  BY LinkHasDir DEF Before
<1>2. /\ t \in Names /\ IsFile(img, t) /\ d.inode[t] # 0
      /\ d.data[d.inode[t]] = Packed(img, k + 1)
  BY TargetIs
<1>3. t # w
  BY <1>1, <1>2
<1>4. /\ r \in Disks /\ r.dir = d.dir /\ r.data = d.data
      /\ r.inode = [d.inode EXCEPT ![w] = 0]
  BY <1>1, RemoveIs
<1> HIDE DEF r
<1>5. r.inode[t] = d.inode[t]
  BY <1>1, <1>2, <1>3, <1>4 DEF Disks
<1>6. MakeLink(d, w, t) = e
  BY <1>1, <1>2, <1>4, <1>5 DEF MakeLink, r
<1>7. /\ e \in Disks /\ e.dir = r.dir /\ e.data = r.data
      /\ e.inode = [r.inode EXCEPT ![w] = r.inode[t]]
  <2>1. r = [dir |-> r.dir, inode |-> r.inode, data |-> r.data]
    BY <1>4 DEF Disks
  <2>2. e = [dir |-> r.dir, inode |-> [r.inode EXCEPT ![w] = r.inode[t]],
             data |-> r.data]
    BY <2>1
  <2>3. r.inode[t] \in 0 .. Cardinality(Names)
    BY <1>2, <1>4 DEF Disks
  <2> HIDE DEF e
  <2> QED
    BY <1>4, <2>2, <2>3 DEF Disks
<1> HIDE DEF e
<1>8. /\ e.inode[w] = d.inode[t] /\ e.data = d.data
      /\ \A n \in Names \ {w} : e.inode[n] = d.inode[n]
  BY <1>1, <1>4, <1>5, <1>7 DEF Disks
<1> HIDE DEF w, t
<1>9. KeepsOthers(img, d, e)
  <2>1. \A n : ~Touched(img, n) => n # w
    BY <1>1, EntryIs DEF Touched
  <2> QED
    BY <1>8, <2>1 DEF Content, KeepsOthers
<1>10. FilesAreFiles(img, e)
  BY <1>1, <1>8 DEF Before, Sound, FilesAreFiles
<1>11. Shared(img, k + 1, e)
  <2> SUFFICES ASSUME NEW n \in Names, NEW m \in Names, IsFile(img, n),
                      m # n, e.inode[n] # 0, e.inode[m] = e.inode[n]
               PROVE  /\ ~IsFile(img, m) /\ LinkName(img, m)
                      /\ \A p \in 1 .. k + 1 : LastTouch(img, k + 1, p, m) =>
                           img[p].op = "link" /\ img[p].arg.name = n
    BY DEF Shared
  <2>1. n # w /\ e.inode[n] = d.inode[n]
    BY <1>1, <1>8
  <2>2. CASE m = w
    <3>1. d.inode[n] = d.inode[t]
      BY <1>8, <2>1, <2>2
    <3>2. n = t
      BY <1>2, <3>1 DEF Before, Sound, Shared
    <3>3. \A p \in 1 .. k + 1 : LastTouch(img, k + 1, p, m) => p = k + 1
      BY <1>1, <2>2 DEF LastTouch, Before
    <3>4. LinkName(img, w)
      BY EntryIs DEF LinkName, w
    <3> QED
      BY <1>1, <2>2, <3>2, <3>3, <3>4 DEF t
  <2>3. CASE m # w
    <3>1. e.inode[m] = d.inode[m] /\ ~Touches(img[k + 1], m)
      BY <1>1, <1>8, <2>3
    <3>2. \A p : LastTouch(img, k + 1, p, m) <=> LastTouch(img, k, p, m)
      BY <3>1, TouchesNext DEF Before
    <3> QED
      BY <2>1, <3>1, <3>2 DEF Before, Sound, Shared, LastTouch
  <2> QED
    BY <2>2, <2>3
<1>12. AsPacked(img, k + 1, e)
  <2>1. Content(e, w) = Says(img, k + 1, w)
    BY <1>1, <1>2, <1>8 DEF Content, Says
  <2>2. \A n \in Names \ {w} : Content(e, n) = Content(d, n)
    BY <1>8 DEF Content
  <2> QED
    BY <1>1, <2>1, <2>2, AsPackedNext DEF Before, Sound
<1>13. DirThere(img, k + 1, e)
  BY <1>1, <1>4, <1>7, DirNext DEF Before, Sound, Makes
<1> QED
  BY <1>6, <1>7, <1>9, <1>10, <1>11, <1>12, <1>13 DEF After, Sound, w, t

-----------------------------------------------------------------------------
LEMMA EntryStep ==
  ASSUME NEW img, NEW k, NEW d, Before(img, k, d)
  PROVE  After(img, k + 1, d, Apply(d, img[k + 1]))
<1> DEFINE h == img[k + 1]
<1>1. h.op \in {"dir", "file", "symlink", "link", "white", "opaque"}
  BY EntryIs, HeaderFacts
<1>2. CASE h.op = "dir"
  BY <1>2, DirStep DEF Apply
<1>3. CASE h.op = "file"
  BY <1>3, FileStep DEF Apply
<1>4. CASE h.op = "symlink"
  BY <1>4, SymlinkStep DEF Apply
<1>5. CASE h.op = "link"
  BY <1>5, LinkStep DEF Apply
<1>6. CASE h.op = "white"
  BY <1>6, WhiteStep DEF Apply, Whiteout
<1>7. CASE h.op = "opaque"
  BY <1>7, OpaqueStep DEF Apply, RemoveDir
<1> QED
  BY <1>1, <1>2, <1>3, <1>4, <1>5, <1>6, <1>7

(* After the last entry, that is the flattened filesystem.                 *)
LEMMA AllEntries ==
  ASSUME NEW img, IsImage(img), Plain(img), NEW d, d \in Disks,
         Sound(img, Len(img), d), NEW n \in Names, Touched(img, n)
  PROVE  Content(d, n) = Flattened(img, n)
<1>1. /\ DOMAIN img = 1 .. Len(img) /\ Len(img) \in Nat
      /\ \A i \in 1 .. Len(img) : img[i].layer \in Nat
      /\ \A i, j \in DOMAIN img : i < j => img[i].layer <= img[j].layer
  BY ImageEntries, HeaderFacts DEF IsImage
<1>2. /\ Seen(img, n) \in SUBSET Nat
      /\ \A i \in Seen(img, n) : i \in DOMAIN img /\ Packs(img[i], n)
  BY <1>1 DEF Seen
<1>3. CASE \A i \in 1 .. Len(img) : ~Touches(img[i], n)
  BY <1>1, <1>3 DEF Touched
<1>4. ASSUME NEW p \in 1 .. Len(img), LastTouch(img, Len(img), p, n),
             Content(d, n) = Says(img, p, n)
      PROVE  Content(d, n) = Flattened(img, n)
  <2>1. \A q \in DOMAIN img : Touches(img[q], n) => q <= p
    BY <1>1, <1>4 DEF LastTouch
  <2>2. CASE Packs(img[p], n)
    <3>1. \A j \in DOMAIN img :
            Hides(img[j], n) => img[j].layer <= img[p].layer
      <4> SUFFICES ASSUME NEW j \in DOMAIN img, Hides(img[j], n)
                   PROVE  img[j].layer <= img[p].layer
        OBVIOUS
      <4>1. j <= p
        BY <2>1 DEF Touches
      <4>2. j = p \/ j < p
        BY <1>1, <4>1
      <4> QED
        BY <1>1, <4>2
    <3>2. p \in Seen(img, n)
      BY <1>1, <2>2, <3>1 DEF Seen
    <3>3. \A q \in Seen(img, n) : q <= p
      BY <1>2, <2>1 DEF Touches
    <3>4. Max(Seen(img, n)) = p
      BY <1>2, <3>2, <3>3, MaxIs
    <3> QED
      BY <1>4, <2>2, <3>2, <3>4 DEF Flattened, Says
  <2>3. CASE ~Packs(img[p], n)
    <3>1. Hides(img[p], n)
      BY <1>4, <2>3 DEF LastTouch, Touches
    <3>2. ASSUME NEW i \in Seen(img, n) PROVE FALSE
      <4>1. i \in DOMAIN img /\ Packs(img[i], n) /\ i < p
        BY <1>1, <1>2, <2>1, <2>3, <3>2 DEF Touches
      <4>2. img[p].layer <= img[i].layer
        BY <1>1, <3>1, <3>2 DEF Seen
      <4>3. img[i].layer = img[p].layer
        BY <1>1, <4>1, <4>2
      <4>4. img[p].op \in {"white", "opaque"}
        BY <3>1 DEF Hides
      <4>5. img[i].op \in {"dir", "white", "opaque"}
        BY <1>1, <4>1, <4>3, <4>4 DEF Plain, WhiteoutsFirst
      <4> QED
        BY <4>1, <4>5 DEF Packs
    <3> QED
      BY <1>4, <2>3, <3>2 DEF Flattened, Says
  <2> QED
    BY <2>2, <2>3
<1> QED
  BY <1>3, <1>4 DEF Sound, AsPacked

(* Whatever the image, every entry leaves a disk.                          *)
LEMMA FileTyped ==
  ASSUME NEW d \in Disks, NEW n \in Names, NEW x \in Things
  PROVE  WriteFile(d, n, x) \in Disks
<1> DEFINE t == Written(d, n)
           i == IF d.inode[t] = 0 THEN Free(d) ELSE d.inode[t]
           s == Store(d, i, t, x)
<1>1. t \in Names
  <2>1. CASE d.inode[n] = 0
    BY <2>1 DEF Written, Content, NoFile, Thing
  <2>2. CASE d.inode[n] # 0
    <3>1. d.data[d.inode[n]] \in Things
      BY <2>2, NamesCount DEF Disks, Inodes
    <3>2. d.data[d.inode[n]].kind = "symlink" =>
            d.data[d.inode[n]].name \in Names
      <4> DEFINE c == d.data[d.inode[n]]
      <4>1. CASE c \in Files
        BY <4>1 DEF Files
      <4>2. CASE c \in Symlinks
        BY <4>2 DEF Symlinks
      <4>3. CASE c = NoFile
        <5>1. NoFile.kind = "none"
          BY DEF NoFile, Thing
        <5> HIDE DEF c
        <5>2. c.kind # "symlink"
          BY <4>3, <5>1
        <5> QED
          BY <5>2 DEF c
      <4> QED
        BY <3>1, <4>1, <4>2, <4>3 DEF Things
    <3> QED
      BY <2>2, <3>2 DEF Written, Content
  <2> QED
    BY <2>1, <2>2
<1>2. i \in Inodes
  BY <1>1, FreeInode, NamesCount DEF Disks, Inodes
<1>3. s \in Disks
  <2> HIDE DEF i, t
  <2> QED
    BY <1>1, <1>2, StoreIs
<1>4. WriteFile(d, n, x) = [s EXCEPT !.dir = TRUE]
  BY DEF WriteFile
<1> HIDE DEF s
<1> QED
  BY <1>3, <1>4 DEF Disks

LEMMA SymlinkTyped ==
  ASSUME NEW d \in Disks, NEW n \in Names, NEW x \in Things
  PROVE  MakeSymlink(d, n, x) \in Disks
<1> DEFINE r == RemoveName(d, n)
           i == Free(r)
<1>1. r \in Disks /\ r.inode[n] = 0
  <2>1. r \in Disks /\ r.inode = [d.inode EXCEPT ![n] = 0]
    BY RemoveIs
  <2> HIDE DEF r
  <2> QED
    BY <2>1 DEF Disks
<1> HIDE DEF r
<1>2. i \in Inodes
  BY <1>1, FreeInode
<1> HIDE DEF i
<1>3. Store(r, i, n, x) \in Disks
  BY <1>1, <1>2, StoreIs
<1> QED
  BY <1>1, <1>3 DEF MakeSymlink, r, i

LEMMA LinkTyped ==
  ASSUME NEW d \in Disks, NEW n \in Names, NEW t \in Names
  PROVE  MakeLink(d, n, t) \in Disks
<1> DEFINE r == RemoveName(d, n)
<1>1. r \in Disks
  BY RemoveIs
<1> HIDE DEF r
<1>2. [r EXCEPT !.inode[n] = r.inode[t]] \in Disks
  BY <1>1 DEF Disks
<1> QED
  BY <1>1, <1>2 DEF MakeLink, r

LEMMA EntryTyped ==
  ASSUME NEW d \in Disks, NEW h \in Headers
  PROVE  Apply(d, h) \in Disks
<1>1. h.op \in {"dir", "file", "symlink", "link", "white", "opaque"}
  BY HeaderFacts
<1>2. CASE h.op = "dir"
  <2>1. [d EXCEPT !.dir = TRUE] \in Disks
    BY DEF Disks
  <2> QED
    BY <1>2, <2>1 DEF Apply
<1>3. CASE h.op = "file"
  <2>1. h.name \in Names /\ h.arg \in Things
    BY <1>3, HeaderFacts DEF Things
  <2> QED
    BY <1>3, <2>1, FileTyped DEF Apply
<1>4. CASE h.op = "symlink"
  <2>1. h.name \in Names /\ h.arg \in Things
    BY <1>4, HeaderFacts DEF Things
  <2> QED
    BY <1>4, <2>1, SymlinkTyped DEF Apply
<1>5. CASE h.op = "link"
  <2>1. h.name \in Names /\ h.arg.name \in Names
    BY <1>5, HeaderFacts
  <2> QED
    BY <1>5, <2>1, LinkTyped DEF Apply
<1>6. CASE h.op = "white"
  <2>1. h.name \in Names
    BY <1>6, HeaderFacts
  <2> QED
    BY <1>6, <2>1, RemoveIs DEF Apply, Whiteout
<1>7. CASE h.op = "opaque"
  BY <1>7, NoDiskIs DEF Apply, RemoveDir
<1> QED
  BY <1>1, <1>2, <1>3, <1>4, <1>5, <1>6, <1>7

(* The invariant: whatever attempt it is, and whatever image was there,    *)
(* the disk is as the first entries of this image say; after a failure it  *)
(* is good to start from.                                                  *)
Fits == Plain(image) /\ Takes(image, before)

Extracting ==
  /\ image \in Images \cup Others /\ done \in 0 .. Len(image)
  /\ disk \in Disks /\ before \in Disks
  /\ Fits => /\ Sound(image, 0, disk) /\ KeepsOthers(image, before, disk)
             /\ outcome # "error" => Sound(image, done, disk)
  /\ outcome = "ok" => done = Len(image)

LEMMA ImagesAre == \A img \in Images \cup Others : IsImage(img)
BY LayersAssumption DEF IsImage

(* A new attempt starts from what the last one left.                       *)
LEMMA FromTheStart ==
  ASSUME NEW img, NEW k, NEW d, FilesAreFiles(img, d), Shared(img, k, d)
  PROVE  Sound(img, 0, d)
BY DEF Sound, FilesAreFiles, Shared, AsPacked, DirThere

LEMMA FromAnother ==
  ASSUME NEW img, NEW d \in Disks, Takes(img, d)
  PROVE  Sound(img, 0, d) /\ KeepsOthers(img, d, d)
<1>1. FilesAreFiles(img, d)
  BY DEF Takes, FilesAreFiles, IsFile, Content
<1>2. Shared(img, 0, d)
  BY DEF Takes, Shared, IsFile
<1> QED
  BY <1>1, <1>2, FromTheStart DEF KeepsOthers

LEMMA EmptyTakes == \A img : Takes(img, NoDisk)
BY NoDiskIs DEF Takes

LEMMA ExtractStarts == ExtractInit => Extracting
<1> SUFFICES ASSUME ExtractInit PROVE Extracting
  OBVIOUS
<1>1. image \in Images /\ IsImage(image) /\ Len(image) \in Nat
  BY ImagesAre, ImageEntries DEF ExtractInit
<1>2. Sound(image, 0, NoDisk) /\ KeepsOthers(image, NoDisk, NoDisk)
  BY NoDiskIs, EmptyTakes, FromAnother
<1> QED
  BY <1>1, <1>2, NoDiskIs DEF ExtractInit, Extracting

LEMMA ExtractSteps == Extracting /\ [ExtractNext]_xvars => Extracting'
<1> SUFFICES ASSUME Extracting, [ExtractNext]_xvars PROVE Extracting'
  OBVIOUS
<1>1. IsImage(image) /\ Len(image) \in Nat
  BY ImagesAre, ImageEntries DEF Extracting
<1>2. CASE ExtractEntry
  <2>1. /\ image' = image /\ before' = before
        /\ done' = done + 1 /\ outcome' = "running"
    BY <1>2 DEF ExtractEntry
  <2>2. done' \in 0 .. Len(image)
    BY <1>1, <1>2 DEF ExtractEntry, Extracting
  <2>3. disk' \in Disks
    <3>1. image[done + 1] \in Headers
      BY <1>1, <1>2, ImageEntries DEF ExtractEntry, Extracting
    <3> QED
      BY <1>2, <3>1, EntryTyped DEF ExtractEntry, Extracting
  <2>4. ASSUME Fits
        PROVE  /\ Sound(image, done + 1, disk') /\ Sound(image, 0, disk')
               /\ KeepsOthers(image, before, disk')
    <3>1. Before(image, done, disk)
      BY <1>1, <1>2, <2>4 DEF ExtractEntry, Extracting, Before, Fits
    <3>2. /\ Sound(image, done + 1, disk')
          /\ KeepsOthers(image, disk, disk')
      BY <1>2, <3>1, EntryStep DEF ExtractEntry, After
    <3>3. KeepsOthers(image, before, disk')
      BY <2>4, <3>2 DEF Extracting, KeepsOthers
    <3> QED
      BY <3>2, <3>3, FromTheStart DEF Sound
  <2> QED
    BY <2>1, <2>2, <2>3, <2>4 DEF Extracting, Fits
<1>3. CASE ExtractDone
  BY <1>3 DEF ExtractDone, Extracting, Fits
<1>4. CASE ExtractFails
  <2>1. /\ image' = image /\ before' = before
        /\ done' = done /\ outcome' = "error"
    BY <1>4 DEF ExtractFails
  <2>2. CASE disk' = disk
    BY <2>1, <2>2 DEF Extracting, Fits
  <2>3. CASE HalfWritten
    <3> DEFINE n == image[done + 1].name
    <3>1. /\ done + 1 \in DOMAIN image /\ image[done + 1] \in Headers
          /\ image[done + 1].op = "file"
      BY <1>1, <2>3, ImageEntries DEF HalfWritten, Extracting
    <3>2. n \in Names /\ Half(n) \in Files /\ Half(n) \in Things
      BY <3>1, HeaderFacts DEF Half, Thing, Files, Things
    <3>3. disk' = WriteFile(disk, n, Half(n))
      BY <2>3 DEF HalfWritten
    <3>4. disk' \in Disks
      BY <3>2, <3>3, FileTyped DEF Extracting
    <3>5. ASSUME Fits
          PROVE  Sound(image, 0, disk') /\ KeepsOthers(image, before, disk')
      <4>1. Before(image, done, disk)
        BY <1>1, <1>4, <2>3, <3>5
           DEF HalfWritten, ExtractFails, Extracting, Before, Fits
      <4>2. /\ KeepsOthers(image, disk, disk')
            /\ FilesAreFiles(image, disk') /\ Shared(image, done + 1, disk')
        BY <3>1, <3>2, <3>3, <4>1, FileWritten
      <4>3. KeepsOthers(image, before, disk')
        BY <3>5, <4>2 DEF Extracting, KeepsOthers
      <4> QED
        BY <4>2, <4>3, FromTheStart
    <3> QED
      BY <2>1, <3>4, <3>5 DEF Extracting, Fits
  <2> QED
    BY <1>4, <2>2, <2>3 DEF ExtractFails
<1>5. CASE PullAgain
  <2>1. done' = 0 /\ outcome' = "running"
    BY <1>5 DEF PullAgain
  <2>2. CASE image' = image /\ disk' = disk /\ before' = before
    BY <1>1, <2>1, <2>2 DEF Extracting, Fits
  <2>3. CASE image' \in Others /\ disk' = disk /\ before' = disk
    <3>1. Len(image') \in Nat
      BY <2>3, ImagesAre, ImageEntries
    <3>2. Takes(image', disk) =>
            Sound(image', 0, disk) /\ KeepsOthers(image', disk, disk)
      BY FromAnother DEF Extracting
    <3> QED
      BY <2>1, <2>3, <3>1, <3>2 DEF Extracting, Fits
  <2>4. CASE /\ image' \in {image} \cup Others
             /\ disk' = NoDisk /\ before' = NoDisk
    <3>1. image' \in Images \cup Others
      BY <2>4 DEF Extracting
    <3>2. Len(image') \in Nat
      BY <3>1, ImagesAre, ImageEntries
    <3>3. Sound(image', 0, NoDisk) /\ KeepsOthers(image', NoDisk, NoDisk)
      BY NoDiskIs, EmptyTakes, FromAnother
    <3> QED
      BY <2>1, <2>4, <3>1, <3>2, <3>3, NoDiskIs DEF Extracting, Fits
  <2> QED
    BY <1>5, <2>2, <2>3, <2>4 DEF PullAgain, RemoveDir
<1>6. CASE UNCHANGED xvars
  BY <1>6 DEF xvars, Extracting, Fits
<1> QED
  BY <1>2, <1>3, <1>4, <1>5, <1>6 DEF ExtractNext

(* What Extract reports as done is the image's flattened filesystem on top *)
(* of what other images have left, for every plain image that takes it,    *)
(* however often attempts broke off before (extract.go:14-44, 60-128).     *)
THEOREM ExtractPutsOnTop == ExtractSpec => []ExtractedOnTop
<1>1. Extracting => ExtractedOnTop
  BY ImagesAre, AllEntries
     DEF Extracting, Fits, KeepsOthers, ExtractedOnTop
<1> QED
  BY <1>1, ExtractStarts, ExtractSteps, PTL DEF ExtractSpec

(* Where no other image has been, it is that filesystem and nothing else   *)
(* (extract.go:14).                                                        *)
THEOREM ExtractIsImage == ExtractSpec => []ExtractedIsImage
<1>1. ASSUME NEW n \in Names, ~Touched(image, n)
      PROVE  Flattened(image, n) = Content(NoDisk, n)
  <2>1. Seen(image, n) = {}
    BY <1>1 DEF Seen, Touched, Touches
  <2> QED
    BY <2>1, NoDiskIs DEF Flattened
<1>2. ExtractedOnTop => ExtractedIsImage
  BY <1>1, EmptyTakes DEF ExtractedOnTop, ExtractedIsImage
<1> QED
  BY <1>2, ExtractPutsOnTop, PTL
==============================================================================
