--------------------------- MODULE UniformTimebase --------------------------
(***************************************************************************)
(* UniformTimebase of the WIT IMU adapter (timebase.py): from the arrival    *)
(* times of readings it infers the index of each in the device's own count   *)
(* of cycles, fits time = origin + index * period over the last readings,    *)
(* and answers with the fitted time.                                         *)
(*                                                                          *)
(* Times are integer ticks.  The fit is exact: a period is a fraction        *)
(* <<numerator, denominator>>, the origin is what the fit makes of the       *)
(* stored samples, and nothing else of the object outlives a call.           *)
(***************************************************************************)
EXTENDS Integers, Sequences, SequencesExt

CONSTANTS
  NominalPeriod,     \* _nominal_period
  Window,            \* _window
  ResyncThreshold,   \* _resync_threshold_s
  LockCount          \* the samples a fit needs to be locked: 20 in the code

ASSUME UniformTimebaseAssumption ==
  /\ NominalPeriod \in Nat \ {0}
  /\ Window \in Nat \ {0, 1}
  /\ ResyncThreshold \in Nat
  /\ LockCount \in Nat

\* The clamp of the fitted period (max_period_drift) and the gap threshold.
LowPeriod     == <<19 * NominalPeriod, 20>>
HighPeriod    == <<21 * NominalPeriod, 20>>
GapThreshold  == <<3, 2>>

Fresh == [samples |-> <<>>, period |-> <<NominalPeriod, 1>>,
          missing |-> 0, resyncs |-> 0]

Locked(tb) == Len(tb.samples) >= (IF Window < LockCount THEN Window ELSE LockCount)

Lower(a, b) == a[1] * b[2] < b[1] * a[2]

\* Python's round: to the nearest integer, halves to the even one.
Rounded(a) ==
  LET up == (2 * a[1] + a[2]) \div (2 * a[2])
  IN IF (2 * a[1] + a[2]) % (2 * a[2]) = 0 /\ up % 2 = 1 THEN up - 1 ELSE up

\* f[1] + ... + f[n].
Sum(f, n) ==
  LET upTo[k \in 0 .. n] == IF k = 0 THEN 0 ELSE upTo[k - 1] + f[k]
  IN upTo[n]

\* The least-squares period of _refit, clamped; a lone sample leaves it alone.
FittedPeriod(samples, period) ==
  LET n     == Len(samples)
      sumI  == Sum([k \in 1 .. n |-> samples[k].index], n)
      sumT  == Sum([k \in 1 .. n |-> samples[k].arrival], n)
      sumIT == Sum([k \in 1 .. n |-> samples[k].index * samples[k].arrival], n)
      sumII == Sum([k \in 1 .. n |-> samples[k].index * samples[k].index], n)
      slope == << n * sumIT - sumI * sumT, n * sumII - sumI * sumI >>
  IN IF n < 2 \/ slope[2] <= 0 THEN period
     ELSE IF Lower(slope, LowPeriod) THEN LowPeriod
     ELSE IF Lower(HighPeriod, slope) THEN HighPeriod
     ELSE slope

\* (Variant) takes every arrival for the next cycle's.
Steps_One(tb, elapsed) == 1

\* How many cycles an arrival is after the one before it.
Steps(tb, elapsed) ==
  LET periods == <<elapsed * tb.period[2], tb.period[1]>>
  IN IF Lower(GapThreshold, periods)
     THEN IF Rounded(periods) > 1 THEN Rounded(periods) ELSE 1
     ELSE 1

\* The time base after one reading's arrival.
Update(tb, arrival) ==
  LET first   == tb.samples = <<>>
      elapsed == arrival - Last(tb.samples).arrival
      resync  == ~first /\ (elapsed > ResyncThreshold \/ elapsed < -ResyncThreshold)
      steps   == Steps(tb, elapsed)
      kept    == IF Len(tb.samples) = Window THEN Tail(tb.samples) ELSE tb.samples
      samples == IF first \/ resync
                 THEN <<[index |-> 0, arrival |-> arrival]>>
                 ELSE Append(kept, [index   |-> Last(tb.samples).index + steps,
                                    arrival |-> arrival])
  IN [samples |-> samples,
      period  |-> FittedPeriod(samples,
                    IF resync THEN <<NominalPeriod, 1>> ELSE tb.period),
      missing |-> tb.missing + (IF first \/ resync THEN 0 ELSE steps - 1),
      resyncs |-> tb.resyncs + (IF resync THEN 1 ELSE 0)]

\* The time it answers with: origin + index * period at the newest sample, as
\* _fill_stamp puts it on the wire, rounded to the resolution of a stamp.
Stamp(tb) ==
  LET n    == Len(tb.samples)
      sumI == Sum([k \in 1 .. n |-> tb.samples[k].index], n)
      sumT == Sum([k \in 1 .. n |-> tb.samples[k].arrival], n)
      p    == tb.period
  IN Rounded(<< sumT * p[2] + (n * Last(tb.samples).index - sumI) * p[1], n * p[2] >>)
=============================================================================
