--------------------------- MODULE BenchmarkTiming ---------------------------
(***************************************************************************)
(* MeasureBenchmark (benchmarks/common/BenchmarkTiming.h, .cpp): choose a  *)
(* block of kernel calls that takes long enough, warm up, and sample until *)
(* the confidence interval is narrow enough or the samples are used up.    *)
(*                                                                         *)
(* Time is counted in ticks and may stand still.  Times are kept per block *)
(* (the code divides each by block_size, which all samples share), and the *)
(* kernel returns one, so the checksum counts its calls.  Squares are      *)
(* compared where the code takes roots, and quartiles are four times the   *)
(* code's, so that the arithmetic is exact.                                *)
(***************************************************************************)
EXTENDS Loops, SequencesExt, FiniteSetsExt

CONSTANTS
  Settings,   \* the TimingSettings to measure with
  Elapsed,    \* how many ticks a block may take
  SizeValues  \* the number of values of a Size

ASSUME SettingsAssumption == \A s \in Settings :
         {s.warmup, s.min_measurements, s.max_measurements, s.max_block_size} \subseteq Nat
ASSUME ElapsedAssumption == Elapsed \subseteq Nat
ASSUME SizeAssumption == SizeValues \in Nat \ {0}

VARIABLES
  settings,
  at,            \* the step of the procedure
  block_size,
  warmed,        \* the warm-up blocks run so far
  measurements,  \* the samples, in ticks for a block
  checksum,
  result,        \* the TimingResult
  tried          \* history: the blocks run to choose block_size, with their times

vars == <<settings, at, block_size, warmed, measurements, checksum, result, tried>>

Least(a, b) == IF a < b THEN a ELSE b
Squares(s)  == [i \in DOMAIN s |-> s[i] * s[i]]

-----------------------------------------------------------------------------
(* UpdateTimingStatistics *)

\* Element k of the sorted samples: the least sample that k of them do not exceed.
Sorted(samples, k) ==
  Min({v \in ToSet(samples) : Cardinality({i \in DOMAIN samples : samples[i] <= v}) >= k})

\* Four times Percentile(sorted, q / 4): between two samples it interpolates.
Quartile(samples, q) ==
  LET position == q * (Len(samples) - 1)
      lower    == position \div 4
      fraction == position % 4
      upper    == IF fraction = 0 THEN lower ELSE lower + 1
  IN  Sorted(samples, lower + 1) * (4 - fraction) + Sorted(samples, upper + 1) * fraction

\* total is n times the mean, spread n * (n - 1) times the variance.
UpdateTimingStatistics(r, samples) ==
  IF samples = <<>> THEN [r EXCEPT !.n_measurements = 0]
  ELSE LET n == Len(samples)
       IN  [r EXCEPT !.n_measurements = n,
                     !.total  = SumOf(samples),
                     !.spread = n * SumOf(Squares(samples)) - SumOf(samples) * SumOf(samples),
                     !.min    = Min(ToSet(samples)),
                     !.max    = Max(ToSet(samples)),
                     !.median = Quartile(samples, 2),
                     !.iqr    = Quartile(samples, 3) - Quartile(samples, 1)]

\* Ten times the critical value, rounded, for one degree of freedom or more.
StudentTCritical95(degrees_of_freedom) ==
  IF degrees_of_freedom < 10 THEN <<127, 43, 32, 28, 26, 24, 24, 23, 23>>[degrees_of_freedom]
  ELSE IF degrees_of_freedom < 14 THEN 22
  ELSE IF degrees_of_freedom < 28 THEN 21
  ELSE 20

\* ci95_relative <= target_ci95_relative, a fraction.  One sample, or a mean of
\* zero, make it infinite.  Mutant: one sample has no spread and will do.
PreciseAtOnce(r, target) ==
  r.total > 0 /\ r.spread * target.over * target.over <= target.part * target.part * r.total * r.total
Precise(r, target) ==
  /\ r.n_measurements > 1 /\ r.total > 0
  /\ LET t == StudentTCritical95(r.n_measurements - 1)
     IN  t * t * r.spread * target.over * target.over
           <= 100 * target.part * target.part * (r.n_measurements - 1) * r.total * r.total

-----------------------------------------------------------------------------

NotRun == [n_measurements |-> 0, total |-> 0, spread |-> 0, min |-> 0, max |-> 0,
           median |-> 0, iqr |-> 0, checksum |-> 0, status |-> "not_run"]

Init ==
  /\ settings \in Settings
  /\ at = "calibrate"
  /\ block_size = 1
  /\ warmed = 0
  /\ measurements = <<>>
  /\ checksum = 0
  /\ result = NotRun
  /\ tried = <<>>

RunTimingBlock == checksum' = checksum + block_size

\* Mutant: the limit is not looked at.
NextBlockSizeUnlimited == (block_size * 10) % SizeValues
NextBlockSize == Least((block_size * 10) % SizeValues, settings.max_block_size)

LongEnough(elapsed) == elapsed >= settings.target_block
BlockIsChosen(elapsed) == LongEnough(elapsed) \/ block_size >= settings.max_block_size

ChooseTimingBlockSize ==
  /\ at = "calibrate"
  /\ RunTimingBlock
  /\ \E elapsed \in Elapsed :
       /\ tried' = Append(tried, [block_size |-> block_size, elapsed |-> elapsed])
       /\ IF BlockIsChosen(elapsed) THEN at' = "warmup" /\ UNCHANGED block_size
                                    ELSE block_size' = NextBlockSize /\ UNCHANGED at
  /\ UNCHANGED <<settings, warmed, measurements, result>>

WarmUp ==
  /\ at = "warmup" /\ warmed < settings.warmup
  /\ RunTimingBlock
  /\ warmed' = warmed + 1
  /\ UNCHANGED <<settings, at, block_size, measurements, result, tried>>

WarmUpEnds ==
  /\ at = "warmup" /\ warmed >= settings.warmup
  /\ at' = "measure"
  /\ UNCHANGED <<settings, block_size, warmed, measurements, checksum, result, tried>>

Return(r) == at' = "end" /\ result' = [r EXCEPT !.checksum = checksum']

Measure ==
  /\ at = "measure" /\ Len(measurements) < settings.max_measurements
  /\ RunTimingBlock
  /\ \E elapsed \in Elapsed : measurements' = Append(measurements, elapsed)
  /\ IF Len(measurements') < settings.min_measurements THEN UNCHANGED <<at, result>>
     ELSE LET r == UpdateTimingStatistics(result, measurements')
          IN  IF Precise(r, settings.target_ci95_relative)
              THEN Return([r EXCEPT !.status = "converged"])
              ELSE result' = r /\ UNCHANGED at
  /\ UNCHANGED <<settings, block_size, warmed, tried>>

\* Mutant: the statistics are those of the last test.
AsTested(r) == r
AtTheEnd(r) == UpdateTimingStatistics(r, measurements)

MeasurementsUsedUp ==
  /\ at = "measure" /\ Len(measurements) >= settings.max_measurements
  /\ UNCHANGED checksum
  /\ Return([AtTheEnd(result) EXCEPT !.status = "max_measurements"])
  /\ UNCHANGED <<settings, block_size, warmed, measurements, tried>>

\* The kernel throws, or there is no memory: there is no result.
Fail ==
  /\ at # "end"
  /\ at' = "end"
  /\ UNCHANGED <<settings, block_size, warmed, measurements, checksum, result, tried>>

Next == ChooseTimingBlockSize \/ WarmUp \/ WarmUpEnds \/ Measure \/ MeasurementsUsedUp \/ Fail
Spec == Init /\ [][Next]_vars

-----------------------------------------------------------------------------
(* Properties *)

Returned == at = "end" /\ result.status # "not_run"

\* The block is within its limit; it was the last that was tried and, unless it is at
\* the limit, took long enough; those tried before were smaller and did not.
BlockIsJustified ==
  at \in {"warmup", "measure"} \/ Returned =>
    /\ block_size = 1 \/ block_size <= settings.max_block_size
    /\ tried # <<>>
    /\ \A k \in DOMAIN tried :
         IF k = Len(tried)
         THEN /\ tried[k].block_size = block_size
              /\ LongEnough(tried[k].elapsed) \/ block_size >= settings.max_block_size
         ELSE tried[k].block_size < block_size /\ ~LongEnough(tried[k].elapsed)

\* At most half of the samples are on either side of m / 4.
IsMedian(m, samples) ==
  /\ 2 * Cardinality({i \in DOMAIN samples : 4 * samples[i] < m}) <= Len(samples)
  /\ 2 * Cardinality({i \in DOMAIN samples : 4 * samples[i] > m}) <= Len(samples)

\* The squares of the differences between any two samples.
Spread(samples) ==
  LET Gap(i, j) == samples[i] - samples[j]
  IN  SumOf([j \in DOMAIN samples |-> SumOf([i \in 1..(j - 1) |-> Gap(i, j) * Gap(i, j)])])

Describes(r, samples) ==
  /\ r.n_measurements = Len(samples)
  /\ r.spread = Spread(samples)
  /\ samples # <<>> =>
       /\ \A i \in DOMAIN samples : samples[i] \in r.min..r.max
       /\ {r.min, r.max} \subseteq ToSet(samples)
       /\ r.total \in (Len(samples) * r.min)..(Len(samples) * r.max)
       /\ IsMedian(r.median, samples)
       /\ r.iqr \in 0..(4 * (r.max - r.min))

BlockSizes == [k \in DOMAIN tried |-> tried[k].block_size]

\* What is returned describes every sample that was taken, and no other run of the
\* kernel; the checksum is of every run of the kernel, also in calibration and
\* warm-up.
ResultIsOfAllSamples ==
  Returned =>
    /\ Describes(result, measurements)
    /\ result.checksum = (settings.warmup + Len(measurements)) * block_size + SumOf(BlockSizes)

\* The samples have a confidence interval within the target.
PreciseFor(samples) ==
  /\ Len(samples) >= 2
  /\ LET target == settings.target_ci95_relative
         n      == Len(samples)
         total  == SumOf(samples)
         t      == StudentTCritical95(n - 1)
     IN  /\ total > 0
         /\ t * t * Spread(samples) * target.over * target.over
              <= 100 * target.part * target.part * (n - 1) * total * total
PreciseAfter(n) == PreciseFor(SubSeq(measurements, 1, n))

\* Sampling stops at the first sample after the minimum whose confidence interval,
\* which one sample and a clock that stands still do not have, is within the target;
\* "converged" says that there was one, and without one all samples are taken.
ConvergedIsJustified ==
  Returned =>
    LET enough == {n \in 1..Len(measurements) : n >= settings.min_measurements /\ PreciseAfter(n)}
    IN  IF enough = {} THEN result.status = "max_measurements" /\ Len(measurements) = settings.max_measurements
        ELSE result.status = "converged" /\ enough = {Len(measurements)}
=============================================================================
