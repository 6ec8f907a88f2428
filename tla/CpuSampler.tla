----------------------------- MODULE CpuSampler -----------------------------
(***************************************************************************)
(* internal/sysinfo: the stats of the dashboard, from differences of the   *)
(* kernel's counters in unsigned words.  Time in the kernel is "busy",     *)
(* "still" (idle) and "iowait", of which the last may go back.             *)
(***************************************************************************)
EXTENDS Integers

CONSTANTS
  Word,     \* 2^w for the width of the counters (2^64)
  MaxTicks, \* bound: what a counter of the kernel reaches
  Steps     \* bound: what it advances by between two readings

(* Ticks of 10 ms do not fill a word of 64 bits: only differences wrap.    *)
ASSUME SamplerAssumption ==
  /\ MaxTicks \in Nat /\ Steps \in Nat
  /\ Word \in Nat /\ 3 * MaxTicks < Word

VARIABLES
  cpu,     \* the counters of the kernel
  prev,    \* Sampler.prevTotal and prevIdle
  percent, \* Sampler.current.CPUPercent
  taken,   \* the counters at the last Update, which the code has in prev
  shares   \* the busy shares an exact computation may show

mvars == <<cpu, prev, percent, taken, shares>>

Counters == [busy : 0 .. MaxTicks, still : 0 .. MaxTicks, iowait : 0 .. MaxTicks]
NoReading == [total |-> 0, idle |-> 0]

Idle(c)  == c.still + c.iowait
Total(c) == c.busy + Idle(c)

(* readCPUStats; when it fails Update goes on with the zeros.              *)
Readings(c) == {[total |-> Total(c) % Word, idle |-> Idle(c) % Word], NoReading}

Minus(x, y) == (x - y) % Word

Clamp(x) == IF x > 100 THEN 100 ELSE IF x < 0 THEN 0 ELSE x

\* Mutant: the first good reading after a bad one is measured from zero.
ComparableAlways(last, now) == now.total > last.total

Comparable(last, now) == last.total > 0 /\ now.total > last.total

Percent(last, now) ==
  LET deltaTotal == Minus(now.total, last.total)
      deltaIdle  == Minus(now.idle, last.idle)
  IN Clamp((100 * Minus(deltaTotal, deltaIdle)) \div deltaTotal)

-----------------------------------------------------------------------------
(* The kernel counts; iowait may go back (proc(5)).                        *)
Kernel ==
  /\ \E b, i \in 0 .. Steps, w \in -1 .. Steps :
       cpu' = [busy |-> cpu.busy + b, still |-> cpu.still + i,
               iowait |-> cpu.iowait + w]
  /\ cpu' \in Counters
  /\ UNCHANGED <<prev, percent, taken, shares>>

(* What the busy share between two readings is in unbounded numbers.       *)
ExactShare(last, now) ==
  Clamp((100 * (now.busy - last.busy)) \div (Total(now) - Total(last)))

Update ==
  /\ \E read \in Readings(cpu) :
       /\ percent' = IF Comparable(prev, read) THEN Percent(prev, read)
                                               ELSE percent
       /\ prev' = read
       /\ taken' = IF read = NoReading THEN <<>> ELSE <<cpu>>
       /\ shares' = IF taken = <<>> \/ read = NoReading THEN shares
                    ELSE IF Total(cpu) <= Total(taken[1]) THEN shares
                    ELSE {ExactShare(taken[1], cpu)}
  /\ UNCHANGED cpu

SamplerInit ==
  /\ cpu \in {c \in Counters : Total(c) > 0 /\ c.iowait <= 1}
  /\ prev = NoReading
  /\ percent = 0
  /\ taken = <<>>
  /\ shares = {0}

SamplerNext == Kernel \/ Update

SamplerSpec == SamplerInit /\ [][SamplerNext]_mvars

-----------------------------------------------------------------------------
(* The percentage shown is the busy share between two readings that        *)
(* followed each other, whatever failed before or since and whichever way  *)
(* the unsigned differences wrapped (stats.go:33-46).                      *)
PercentIsExact == percent \in shares
=============================================================================
