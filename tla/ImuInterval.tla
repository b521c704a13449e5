----------------------------- MODULE ImuInterval -----------------------------
(***************************************************************************)
(* From the IMU samples of a bag to the edges of the graph: the stationary  *)
(* initializer that gives the anchor its inertial state, and then, between  *)
(* one keyframe boundary and the next, the slice of samples the pipeline    *)
(* cuts for the frontend, the frontend that holds each reading until the    *)
(* next one, and the edge that is registered if nothing was wrong.          *)
(*                                                                          *)
(* Times are integers.  A reading is a rate and a specific force along one  *)
(* axis; what the integrator makes of a reading held over a segment is not  *)
(* computed, the segments are kept.                                         *)
(***************************************************************************)
EXTENDS Integers, Sequences, FiniteSets

CONSTANTS
  Inputs,          \* bags: samples, boundaries and a rig, see MCImuInterval
  ImuSensorId,     \* imu_sensor_id of both frontends
  MaxGap,          \* max_sample_gap_s
  MinDelta,        \* min_delta_time_s
  MaxDelta,        \* max_delta_time_s
  MinSamples,      \* min_samples of the frontend
  StationaryWindow,    \* stationary_window_s
  MinStationary,       \* min_stationary_duration_s
  MinStationarySamples, \* min_samples of the initializer
  MaxRate,         \* max_gyro_mean_norm_radps
  MaxDeviation,    \* max_accel_mean_norm_deviation_mps2
  Gravity          \* gravity_mps2 of the rig

ASSUME ImuIntervalAssumption ==
  /\ {MaxGap, MinDelta, MaxDelta, MinSamples, StationaryWindow, MinStationary,
      MinStationarySamples, MaxRate, MaxDeviation, Gravity} \subseteq Nat
  /\ MinDelta > 0 /\ Gravity > 0
  \* What ReplayInputAccumulator and the pipeline let through.
  /\ \A input \in Inputs :
       /\ input.samples \in Seq([time : Int, sensor : STRING, ok : BOOLEAN, gyro : Int, accel : Int])
       /\ input.boundaries \in Seq(Int) /\ Len(input.boundaries) >= 2
       /\ \A j, k \in DOMAIN input.boundaries : j < k => input.boundaries[j] < input.boundaries[k]

VARIABLES
  pc,          \* "initialize", "interval", "hold", "close", "solve" or "failed"
  input,       \* the bag
  anchor,      \* inertial_initialization
  i,           \* the loop variable: the interval from boundary i - 1 to boundary i
  graph,       \* the boundaries in the graph: Len(graph) = NumKeyframes()
  edges,       \* the IMU factors: the interval, its segments and its sample count
  readings,    \* readings of Process, by their place in the bag
  cursor,      \* held, next and segment_start
  segments,    \* what was integrated: a reading, from when, until when
  frontend     \* consecutive_failures_ and last_rejection_reason_

vars == <<pc, input, anchor, i, graph, edges, readings, cursor, segments, frontend>>

NoAnchor == [mode |-> "none", count |-> 0]
NoCursor == [held |-> 0, next |-> 0, start |-> 0]

Init ==
  /\ pc = "initialize"
  /\ input \in Inputs
  /\ anchor = NoAnchor
  /\ i = 2
  /\ graph = <<>> /\ edges = <<>>
  /\ readings = <<>> /\ cursor = NoCursor /\ segments = <<>>
  /\ frontend = [failures |-> 0, reason |-> ""]

Sample(n) == input.samples[n]
From == input.boundaries[i - 1]
To == input.boundaries[i]

-----------------------------------------------------------------------------
(* The stationary initializer.                                              *)

Sum(f) ==
  LET g[S \in SUBSET DOMAIN f] ==
        IF S = {} THEN 0 ELSE LET x == CHOOSE y \in S : TRUE IN f[x] + g[S \ {x}]
  IN g[DOMAIN f]

Abs(x) == IF x >= 0 THEN x ELSE -x

\* The samples of the sensor up to the first boundary, not too long before it.
PreRoll ==
  LET end == Head(input.boundaries) IN
  {n \in DOMAIN input.samples :
     /\ Sample(n).sensor = ImuSensorId
     /\ Sample(n).time \in (end - StationaryWindow) .. end}

Span(S) ==
  LET times == {Sample(n).time : n \in S}
      top == CHOOSE t \in times : \A u \in times : u <= t
      low == CHOOSE t \in times : \A u \in times : t <= u
  IN top - low

\* The criterion, on the means: sums are compared with count times the bound.
Still(S) ==
  LET n == Cardinality(S)
      gyro == Abs(Sum([k \in S |-> Sample(k).gyro]))
      accel == Abs(Sum([k \in S |-> Sample(k).accel]))
  IN /\ n >= MinStationarySamples /\ Span(S) >= MinStationary
     /\ gyro < MaxRate * n
     /\ Abs(accel - Gravity * n) < MaxDeviation * n
     /\ accel > 0

\* Without densities there is no prior at all, and a malformed reading spoils
\* the window; a window that is too short or not still leaves a wide prior.
InitializeFromStationaryWindow ==
  /\ pc = "initialize"
  /\ IF ~input.rig.densities \/ ~input.rig.priors \/ \E n \in PreRoll : ~Sample(n).ok
     THEN /\ pc' = "failed"
          /\ UNCHANGED <<anchor, graph>>
     ELSE /\ anchor' = [mode |-> IF PreRoll # {} /\ Still(PreRoll) THEN "stationary" ELSE "wide",
                        count |-> Cardinality(PreRoll)]
          /\ graph' = <<Head(input.boundaries)>>
          /\ pc' = "interval"
  /\ UNCHANGED <<input, i, edges, readings, cursor, segments, frontend>>

-----------------------------------------------------------------------------
(* The slice of an interval.                                                *)

Earlier(m, n) == Sample(m).time < Sample(n).time \/ (Sample(m).time = Sample(n).time /\ m < n)

\* stable_sort, of a set of samples: the k-th has k - 1 of them before it.
InOrder(S) ==
  [k \in 1 .. Cardinality(S) |-> CHOOSE n \in S : Cardinality({m \in S : Earlier(m, n)}) = k - 1]

\* (Variant) starts after the interval has started.
ImuWindow_Inside(from, to) == {n \in DOMAIN input.samples : Sample(n).time \in (from + 1) .. to}

\* From the last sample at or before the start, or else the first of all, to
\* the last one at or before the end, whatever their sensor.
ImuWindow(from, to) ==
  {n \in DOMAIN input.samples :
     /\ Sample(n).time <= to
     /\ \A m \in DOMAIN input.samples : Sample(m).time <= from => ~Earlier(n, m)}

-----------------------------------------------------------------------------
(* ImuPreintegrationFrontend::Process.                                      *)

Registered(boundary) == \E k \in DOMAIN graph : graph[k] = boundary

NextInterval == pc' = "interval" /\ i' = i + 1

Reject(reason) ==
  /\ frontend' = [failures |-> frontend.failures + 1, reason |-> reason]
  /\ NextInterval
  /\ UNCHANGED <<input, anchor, graph, edges, readings, cursor, segments>>

\* The interval before was rejected: this one is not processed.
SkipInterval ==
  /\ pc = "interval" /\ i <= Len(input.boundaries)
  /\ ~Registered(From)
  /\ NextInterval
  /\ UNCHANGED <<input, anchor, graph, edges, readings, cursor, segments, frontend>>

\* The samples of the sensor in the slice, in order.
Readings == InOrder({n \in ImuWindow(From, To) : Sample(n).sensor = ImuSensorId})

Refusal ==
  CASE To - From < MinDelta \/ To - From > MaxDelta -> "interval_out_of_range"
    [] To - From \in MinDelta .. MaxDelta /\ ~input.rig.densities -> "rig_imu_noise_invalid"
    [] OTHER ->
         IF \E k \in DOMAIN Readings : ~Sample(Readings[k]).ok THEN "imu_sample_malformed"
         ELSE IF Readings = <<>> THEN "no_imu_samples" ELSE "none"

\* (Variant) holds the last one at or before the start, if there is one or not.
HeldAtStart_Last(before) == before

\* The reading held at the start of the interval: the last of those at or before
\* it, or the first one after it, held backwards.
HeldAtStart(before) == IF before = 0 THEN 1 ELSE before

Process ==
  /\ pc = "interval" /\ i <= Len(input.boundaries)
  /\ Registered(From)
  /\ IF Refusal # "none" THEN Reject(Refusal)
     ELSE LET before == Cardinality({k \in DOMAIN Readings : Sample(Readings[k]).time <= From}) IN
          /\ readings' = Readings
          /\ cursor' = [held |-> HeldAtStart(before), next |-> before + 1, start |-> From]
          /\ segments' = <<>>
          /\ pc' = "hold"
          /\ UNCHANGED <<input, anchor, i, graph, edges, frontend>>

Held == Sample(readings[cursor.held])
HasNext == cursor.next <= Len(readings) /\ Sample(readings[cursor.next]).time < To
SegmentEnd == IF HasNext THEN Sample(readings[cursor.next]).time ELSE To

\* (Variant) measures the hold from where the segment starts.
HoldSpan_OfSegment == SegmentEnd - cursor.start

\* How stale the held reading is at the far end of the segment.
HoldSpan ==
  LET late == IF SegmentEnd >= Held.time THEN SegmentEnd ELSE Held.time
      early == IF cursor.start <= Held.time THEN cursor.start ELSE Held.time
  IN late - early

GapTooLarge ==
  /\ pc = "hold" /\ HoldSpan > MaxGap
  /\ Reject("imu_gap_too_large")

\* The held reading is integrated until the next one takes over.
Integrate ==
  /\ pc = "hold" /\ HoldSpan <= MaxGap
  /\ segments' = IF SegmentEnd > cursor.start
                 THEN Append(segments, [reading |-> readings[cursor.held],
                                        from |-> cursor.start, to |-> SegmentEnd])
                 ELSE segments
  /\ IF HasNext
     THEN /\ cursor' = [held |-> cursor.next, next |-> cursor.next + 1, start |-> SegmentEnd]
          /\ UNCHANGED pc
     ELSE pc' = "close" /\ UNCHANGED cursor
  /\ UNCHANGED <<input, anchor, i, graph, edges, readings, frontend>>

\* (Variant) leaves a sample at the end to the next interval.
SamplesInside_Open ==
  Cardinality({k \in DOMAIN readings : Sample(readings[k]).time \in (From + 1) .. (To - 1)})

\* The samples inside, and one at the end.
SamplesInside ==
  Cardinality({k \in DOMAIN readings : Sample(readings[k]).time \in (From + 1) .. (To - 1)})
    + (IF \E k \in DOMAIN readings : Sample(readings[k]).time = To THEN 1 ELSE 0)

TooFewSamples ==
  /\ pc = "close" /\ SamplesInside < MinSamples
  /\ Reject("too_few_imu_samples")

\* (Variant) registers the keyframe before it knows of the edge.
Register_KeyframeFirst(accepted) ==
  /\ graph' = Append(graph, To)
  /\ edges' = IF accepted
              THEN Append(edges, [from |-> From, to |-> To, count |-> SamplesInside,
                                  segments |-> segments])
              ELSE edges

\* The keyframe, its inertial state and the edge, together or not at all.
Register(accepted) ==
  IF accepted
  THEN /\ graph' = Append(graph, To)
       /\ edges' = Append(edges, [from |-> From, to |-> To, count |-> SamplesInside,
                                  segments |-> segments])
  ELSE UNCHANGED <<graph, edges>>

\* The frontend has its evidence; the delta read back from it, or the factor
\* builder, may still refuse.
Evidence ==
  /\ pc = "close" /\ SamplesInside >= MinSamples
  /\ \E accepted \in BOOLEAN : Register(accepted)
  /\ frontend' = [failures |-> 0, reason |-> ""]
  /\ NextInterval
  /\ UNCHANGED <<input, anchor, readings, cursor, segments>>

\* A boundary that is not in the graph ends the run.
Finish ==
  /\ pc = "interval" /\ i > Len(input.boundaries)
  /\ pc' = IF Len(graph) # Len(input.boundaries) THEN "failed" ELSE "solve"
  /\ UNCHANGED <<input, anchor, i, graph, edges, readings, cursor, segments, frontend>>

Next ==
  \/ InitializeFromStationaryWindow
  \/ SkipInterval \/ Process \/ GapTooLarge \/ Integrate \/ TooFewSamples \/ Evidence
  \/ Finish

Spec == Init /\ [][Next]_vars

-----------------------------------------------------------------------------
(* Properties.                                                              *)

Own == {n \in DOMAIN input.samples : Sample(n).sensor = ImuSensorId}

\* The cursor of the hold loop stays inside the readings, and the interval
\* inside the boundaries.
TypeOK ==
  /\ pc \in {"initialize", "interval", "hold", "close", "solve", "failed"}
  /\ i \in 2 .. Len(input.boundaries) + 1
  /\ \A k \in DOMAIN readings : readings[k] \in Own
  /\ pc \in {"hold", "close"} =>
       /\ cursor.held \in DOMAIN readings /\ cursor.next \in 1 .. Len(readings) + 1
       /\ cursor.start \in From .. To
  /\ frontend.failures \in 0 .. Len(input.boundaries)

\* The sample in effect at a time: the last one of the sensor at or before it,
\* or if there is none the first one of the sensor.
InEffect(time) ==
  LET past == {n \in Own : Sample(n).time <= time} IN
  IF past # {} THEN CHOOSE n \in past : \A m \in past : m = n \/ Earlier(m, n)
  ELSE CHOOSE n \in Own : \A m \in Own : m = n \/ Earlier(n, m)

\* Every edge covers its interval end to end with the readings in effect, as
\* imu_preintegration_frontend.hpp says of the whole stream of the sensor.
HeldAsDocumented ==
  \A k \in DOMAIN edges :
    LET s == edges[k].segments IN
    /\ s # <<>> /\ s[1].from = edges[k].from /\ s[Len(s)].to = edges[k].to
    /\ \A n \in DOMAIN s :
         /\ n > 1 => s[n].from = s[n - 1].to
         /\ \A t \in s[n].from .. s[n].to - 1 : s[n].reading = InEffect(t)

\* Cutting the bag into slices first makes no difference to that, as long as
\* the bag has one IMU.
SliceIsEnough == (\A n \in DOMAIN input.samples : n \in Own) => HeldAsDocumented

\* No edge holds a reading over an instant further than the gap from when the
\* reading was captured: not between samples, not from before the interval and
\* not backwards from after its start (Process fails closed).
NoStaleReading ==
  \A k \in DOMAIN edges : \A n \in DOMAIN edges[k].segments :
    LET s == edges[k].segments[n]
        time == Sample(s.reading).time
    IN s.to - time <= MaxGap /\ time - s.from <= MaxGap

EdgeCounts ==
  LET total[n \in 0 .. Len(edges)] == IF n = 0 THEN 0 ELSE total[n - 1] + edges[n].count
  IN total[Len(edges)]

\* Neighbouring intervals share no sample and lose none: the counts of the
\* edges add up to the samples after the first boundary of the graph up to the
\* last, if no two samples of the sensor carry one time.
SamplesCountedOnce ==
  /\ \A m, n \in Own : m # n => Sample(m).time # Sample(n).time
  /\ graph # <<>>
  => EdgeCounts
       = Cardinality({n \in Own : Sample(n).time \in (graph[1] + 1) .. graph[Len(graph)]})

\* A boundary is in the graph only with an edge from the boundary before it,
\* and a run goes on to the solver only with all of them: nothing bridges an
\* interval that was rejected.
NothingBridged ==
  /\ graph # <<>> => graph = SubSeq(input.boundaries, 1, Len(edges) + 1)
  /\ \A k \in DOMAIN edges : edges[k].from = graph[k] /\ edges[k].to = graph[k + 1]
  /\ pc = "solve" => graph = input.boundaries
=============================================================================
