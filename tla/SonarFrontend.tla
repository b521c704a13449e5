---------------------------- MODULE SonarFrontend ----------------------------
(***************************************************************************)
(* SonarCfarFrontend: one sonar frame after the other becomes a set of      *)
(* hypotheses.  The CFAR detector marks the cells that stand out of their   *)
(* beam, the first contact of every beam is kept, DBSCAN gathers contacts   *)
(* into clusters, and the clusters are ranked by size.  Health() speaks of  *)
(* the frame before and of the frames so far.                               *)
(*                                                                          *)
(* Intensities, ranges and bearings are integers; for the small bearings of *)
(* the instances the sine is the bearing and the cosine is 1.  A threshold  *)
(* factor is an integer.  A mean is kept as its sum and its count.          *)
(***************************************************************************)
EXTENDS Integers, Sequences, FiniteSets

CONSTANTS
  Frames,      \* the sonar frames: [azimuth, ranges, intensity], intensity by row and beam
  Configs,     \* SonarCfarFrontendParams, with the threshold factor that goes with them
  Durations,   \* what the steady clock may say one frame took
  Window,      \* kProcessingLatencyWindowSize
  MaxFrames,   \* (bound) frames of a run
  NaN          \* a bearing that is not finite

ASSUME SonarFrontendAssumption ==
  /\ Durations \subseteq Int
  /\ Window \in Nat \ {0} /\ MaxFrames \in Nat
  /\ NaN \notin Int
  /\ \A f \in Frames :
       /\ f.azimuth \in Seq(Int \cup {NaN})
       /\ f.intensity \in Seq(Seq(Int)) /\ f.ranges \in Seq(Int)
       /\ Len(f.ranges) = Len(f.intensity)
       /\ \A r \in DOMAIN f.intensity : DOMAIN f.intensity[r] = DOMAIN f.azimuth
  /\ \A c \in Configs : {c.epsSquared, c.minSamples, c.minValid} \subseteq Nat \ {0}

VARIABLES
  config,      \* params_
  pc,          \* "idle" between frames, "cluster" inside Dbscan
  detections,  \* the first contacts of the frame: range, bearing, intensity
  labels,      \* labels of Dbscan
  queue,       \* to_visit
  grown,       \* cluster_id: the cluster being grown
  health,      \* the counters behind Health()
  nextId,      \* next_evidence_id_
  answer,      \* the hypothesis set of the last frame
  given        \* (history variable) how many answers were refusals, without a
               \* candidate, or with one

vars == <<config, pc, detections, labels, queue, grown, health, nextId, answer, given>>

Unvisited == -2
Noise == -1

EmptyAnswer(ood) ==
  [ood |-> ood, candidates |-> <<>>, noise |-> {}, contacts |-> <<>>, ambiguous |-> FALSE]

Init ==
  /\ config \in Configs
  /\ pc = "idle"
  /\ detections = <<>> /\ labels = <<>> /\ queue = <<>> /\ grown = Noise
  /\ health = [processed |-> 0, rejected |-> 0, empty |-> 0, background |-> <<0, 0>>,
               alarms |-> <<0, 0>>, valid |-> 0, latencies |-> <<>>]
  /\ nextId = 1
  /\ answer = EmptyAnswer(FALSE)
  /\ given = [refusal |-> 0, nothing |-> 0, candidates |-> 0]

\* The members of a set of indices, in ascending order: the k-th has k - 1 below it.
InOrder(S) ==
  [k \in 1 .. Cardinality(S) |-> CHOOSE i \in S : Cardinality({j \in S : j < i}) = k - 1]

-----------------------------------------------------------------------------
(* The detector.                                                            *)

Sum(f, S) ==
  LET g[T \in SUBSET S] ==
        IF T = {} THEN 0 ELSE LET x == CHOOSE y \in T : TRUE IN f[x] + g[T \ {x}]
  IN g[S]

Reach == config.train + config.guard

\* The training cells before and behind a cell of a beam.
Leading(row) == (row - Reach) .. (row - config.guard - 1)
Lagging(row) == (row + config.guard + 1) .. (row + Reach)

\* The rank-th smallest (from 0) of the training cells.
RankedCell(beam, cells) ==
  CHOOSE v \in {beam[c] : c \in cells} :
    /\ Cardinality({c \in cells : beam[c] < v}) <= config.rank
    /\ Cardinality({c \in cells : beam[c] <= v}) > config.rank

\* A cell stands out if it exceeds the factor times what its training cells
\* say; both sides are multiplied by the number of cells of the mean.
StandsOut(beam, row) ==
  LET lead == Sum(beam, Leading(row))
      lag == Sum(beam, Lagging(row))
      least == IF lead <= lag THEN lead ELSE lag
  IN CASE config.variant = "CA" -> beam[row] * 2 * config.train > config.factor * (lead + lag)
       [] config.variant = "SOCA" -> beam[row] * config.train > config.factor * least
       [] config.variant = "GOCA" -> beam[row] * config.train > config.factor * (lead + lag - least)
       [] config.variant = "OS" ->
            beam[row] > config.factor * RankedCell(beam, Leading(row) \cup Lagging(row))

Beam(frame, col) == [row \in DOMAIN frame.intensity |-> frame.intensity[row][col]]

\* The mask: a row without a full window at both ends is never marked.
Detect(frame) ==
  {c \in (Reach + 1 .. Len(frame.intensity) - Reach) \X (DOMAIN frame.azimuth) :
     StandsOut(Beam(frame, c[2]), c[1])}

Background(frame, mask) ==
  LET cells == ((DOMAIN frame.intensity) \X (DOMAIN frame.azimuth)) \ mask IN
  <<Sum([c \in cells |-> frame.intensity[c[1]][c[2]]], cells), Cardinality(cells)>>

Contacts(frame, mask, col) ==
  {row \in DOMAIN frame.intensity :
     <<row, col>> \in mask /\ frame.intensity[row][col] > config.floor}

\* The nearest contact of every beam that has one, in the order of the beams.
FirstContacts(frame, mask) ==
  LET cols == InOrder({c \in DOMAIN frame.azimuth : Contacts(frame, mask, c) # {}})
      first(c) == InOrder(Contacts(frame, mask, c))[1]
  IN [i \in DOMAIN cols |-> [range |-> frame.ranges[first(cols[i])],
                             bearing |-> frame.azimuth[cols[i]],
                             intensity |-> frame.intensity[first(cols[i])][cols[i]]]]

IsAzimuthAscending(frame) ==
  \A i \in DOMAIN frame.azimuth :
    frame.azimuth[i] # NaN /\ (i > 1 => frame.azimuth[i] > frame.azimuth[i - 1])

-----------------------------------------------------------------------------
(* A frame.                                                                 *)

\* (Variant) lets one latency too many stay.
FinishProcessing_KeepsOne(latencies, elapsed) ==
  LET all == Append(latencies, IF elapsed > 0 THEN elapsed ELSE 0) IN
  IF Len(all) > Window + 1 THEN Tail(all) ELSE all

\* The window of the processing latencies; a clock that goes back counts as 0.
FinishProcessing(latencies, elapsed) ==
  LET all == Append(latencies, IF elapsed > 0 THEN elapsed ELSE 0) IN
  IF Len(all) > Window THEN Tail(all) ELSE all

\* (Variant) forgets the counters of the frame before only when there are new ones.
Arrived_KeepsLast(rejected) ==
  [health EXCEPT !.processed = @ + 1, !.rejected = @ + rejected]

\* What every frame does first: the counters of the frame before are gone.
Arrived(rejected) ==
  [health EXCEPT !.processed = @ + 1, !.rejected = @ + rejected,
                 !.background = <<0, 0>>, !.alarms = <<0, 0>>, !.valid = 0]

Answer(a) ==
  /\ answer' = a
  /\ given' = LET kind == IF a.ood THEN "refusal" ELSE IF a.candidates = <<>> THEN "nothing"
                          ELSE "candidates"
              IN [given EXCEPT ![kind] = @ + 1]

\* Beams out of order: the frame is refused.
RejectFrame(frame, elapsed) ==
  /\ ~IsAzimuthAscending(frame)
  /\ health' = [Arrived(1) EXCEPT !.latencies = FinishProcessing(@, elapsed)]
  /\ Answer(EmptyAnswer(TRUE))
  /\ UNCHANGED <<config, pc, detections, labels, queue, grown, nextId>>

\* Nothing stands out.
QuietFrame(frame, mask, elapsed) ==
  /\ health' = [Arrived(0) EXCEPT !.background = Background(frame, mask), !.empty = @ + 1,
                                  !.latencies = FinishProcessing(@, elapsed)]
  /\ Answer(EmptyAnswer(FALSE))
  /\ UNCHANGED <<config, pc, detections, labels, queue, grown, nextId>>

\* The first contacts go to Dbscan.
ContactFrame(frame, mask, contacts) ==
  /\ detections' = contacts
  /\ labels' = [i \in DOMAIN contacts |-> Unvisited]
  /\ health' = [Arrived(0) EXCEPT !.background = Background(frame, mask)]
  /\ pc' = "cluster"
  /\ UNCHANGED <<config, queue, grown, nextId, answer, given>>

ProcessSonarFrame ==
  /\ pc = "idle" /\ health.processed < MaxFrames
  /\ \E frame \in Frames :
       \/ \E elapsed \in Durations : RejectFrame(frame, elapsed)
       \/ /\ IsAzimuthAscending(frame)
          /\ LET mask == Detect(frame)
                 contacts == FirstContacts(frame, mask)
             IN \/ contacts = <<>> /\ \E elapsed \in Durations : QuietFrame(frame, mask, elapsed)
                \/ contacts # <<>> /\ ContactFrame(frame, mask, contacts)

-----------------------------------------------------------------------------
(* Dbscan.                                                                  *)

Place(d) == <<d.range, d.range * d.bearing>>

SquaredNorm(p, q) == (p[1] - q[1]) * (p[1] - q[1]) + (p[2] - q[2]) * (p[2] - q[2])

RegionQuery(i) ==
  {j \in DOMAIN detections :
     SquaredNorm(Place(detections[i]), Place(detections[j])) <= config.epsSquared}

Dense(i) == Cardinality(RegionQuery(i)) >= config.minSamples

Remaining == {i \in DOMAIN labels : labels[i] = Unvisited}
Finished == pc = "cluster" /\ queue = <<>> /\ Remaining = {}

\* The outer loop: the next point nobody has visited is noise for now, or the
\* seed of a new cluster, numbered after the one before (the first is Noise + 1).
Visit ==
  /\ pc = "cluster" /\ queue = <<>> /\ Remaining # {}
  /\ LET i == InOrder(Remaining)[1]
         next == grown + 1
     IN IF Dense(i)
        THEN /\ labels' = [labels EXCEPT ![i] = next]
             /\ grown' = next
             /\ queue' = InOrder(RegionQuery(i))
        ELSE /\ labels' = [labels EXCEPT ![i] = Noise]
             /\ UNCHANGED <<queue, grown>>
  /\ UNCHANGED <<config, pc, detections, health, nextId, answer, given>>

\* (Variant) leaves a point that has a label at the head of the queue.
Grow_KeepsHead ==
  /\ pc = "cluster" /\ queue # <<>>
  /\ LET i == Head(queue) IN
       /\ labels' = IF labels[i] < 0 THEN [labels EXCEPT ![i] = grown] ELSE labels
       /\ queue' = (IF labels[i] < 0 THEN Tail(queue) ELSE queue) \o
                      (IF labels[i] = Unvisited /\ Dense(i)
                       THEN InOrder({j \in RegionQuery(i) : labels'[j] < 0})
                       ELSE <<>>)
  /\ UNCHANGED <<config, pc, detections, grown, health, nextId, answer, given>>

\* (Variant) leaves what was called noise before out of the cluster.
Grow_KeepsNoise ==
  /\ pc = "cluster" /\ queue # <<>>
  /\ LET i == Head(queue)
         joins == labels[i] = Unvisited
     IN /\ labels' = IF joins THEN [labels EXCEPT ![i] = grown] ELSE labels
        /\ queue' = Tail(queue) \o
             (IF joins /\ Dense(i) THEN InOrder({j \in RegionQuery(i) : labels'[j] < 0}) ELSE <<>>)
  /\ UNCHANGED <<config, pc, detections, grown, health, nextId, answer, given>>

\* The inner loop.  What was noise becomes border and grows no further; a
\* point nobody has visited joins, and if it is dense so may its neighbours.
Grow ==
  /\ pc = "cluster" /\ queue # <<>>
  /\ LET i == Head(queue) IN
       /\ labels' = IF labels[i] < 0 THEN [labels EXCEPT ![i] = grown] ELSE labels
       /\ queue' = Tail(queue) \o
            (IF labels[i] = Unvisited /\ Dense(i)
             THEN InOrder({j \in RegionQuery(i) : labels'[j] < 0})
             ELSE <<>>)
  /\ UNCHANGED <<config, pc, detections, grown, health, nextId, answer, given>>

-----------------------------------------------------------------------------
(* The hypotheses.                                                          *)

Clusters == {labels[i] : i \in DOMAIN labels} \ {Noise}
Members(c) == {i \in DOMAIN labels : labels[i] = c}

Extent(values) ==
  LET top == CHOOSE v \in values : \A w \in values : w <= v
      low == CHOOSE v \in values : \A w \in values : v <= w
  IN top - low

\* Means are sums over the size; the sigmas grow with the extents.
Candidate(c, id) ==
  LET m == Members(c) IN
  [id |-> id, members |-> m, size |-> Cardinality(m),
   range |-> Sum([i \in m |-> detections[i].range], m),
   bearing |-> Sum([i \in m |-> detections[i].bearing], m),
   rangeExtent |-> Extent({detections[i].range : i \in m}),
   bearingExtent |-> Extent({detections[i].bearing : i \in m})]

\* The orders std::sort may leave: by size, equal sizes in any order.
Rankings(candidates) ==
  LET n == Cardinality(candidates) IN
  {s \in [1 .. n -> candidates] :
     /\ \A i, j \in 1 .. n : i # j => s[i] # s[j]
     /\ \A i, j \in 1 .. n : i < j => s[i].size >= s[j].size}

\* Ids go to the clusters in the order they were found, then to the noise.
Publish(ranking, elapsed) ==
  LET alarms == Members(Noise) IN
  /\ Answer([ood |-> FALSE, candidates |-> ranking, noise |-> alarms, contacts |-> detections,
             ambiguous |-> Len(ranking) > 1])
  /\ health' = [health EXCEPT !.alarms = <<Cardinality(alarms), Len(detections)>>,
                              !.valid = Cardinality(Clusters),
                              !.empty = IF Clusters = {} THEN @ + 1 ELSE @,
                              !.latencies = FinishProcessing(@, elapsed)]
  /\ nextId' = nextId + Cardinality(Clusters) + Cardinality(alarms)

AnswerFrame ==
  /\ Finished
  /\ \E ranking \in Rankings({Candidate(c, nextId + c) : c \in Clusters}), elapsed \in Durations :
       Publish(ranking, elapsed)
  /\ pc' = "idle"
  /\ detections' = <<>> /\ labels' = <<>> /\ grown' = Noise
  /\ UNCHANGED <<config, queue>>

Next == ProcessSonarFrame \/ Visit \/ Grow \/ AnswerFrame

Spec == Init /\ [][Next]_vars /\ WF_vars(Visit \/ Grow \/ AnswerFrame)

-----------------------------------------------------------------------------
(* Health().                                                                *)

\* Percentile of the window, the quantile in percent: the smallest latency
\* that the quantile of them does not exceed.
Percentile(quantile) ==
  LET n == Len(health.latencies) IN
  IF n = 0 THEN 0
  ELSE CHOOSE v \in {health.latencies[i] : i \in 1 .. n} :
         /\ 100 * Cardinality({i \in 1 .. n : health.latencies[i] <= v}) >= quantile * n
         /\ 100 * Cardinality({i \in 1 .. n : health.latencies[i] < v}) < quantile * n

\* sum / count > bound, and false when nothing was counted.
MeanExceeds(mean, bound) == mean[2] > 0 /\ mean[1] > bound * mean[2]

Reason ==
  CASE ~config.hashConsistent -> "sonar_config_hash_mismatch"
    [] config.hashConsistent /\ MeanExceeds(health.background, config.maxBackground) ->
         "sonar_background_noise_high"
    [] OTHER ->
         IF 100 * health.alarms[1] > config.maxDensity * health.alarms[2]
         THEN "sonar_false_alarm_density_high"
         ELSE IF health.valid < config.minValid THEN "sonar_no_valid_measurements"
         ELSE IF Percentile(95) > config.maxLatency THEN "sonar_processing_latency_high"
         ELSE "none"

Status ==
  IF health.processed = 0 THEN "unspecified" ELSE IF Reason = "none" THEN "healthy" ELSE "suspect"

\* The shares Health() publishes, as counts of all frames processed.
InputValid == health.processed - health.rejected
ValidDomain == health.processed - health.empty

-----------------------------------------------------------------------------
(* Properties.                                                              *)

\* The labels of Dbscan are parallel to the contacts, and what a frame leaves
\* behind is in range.
TypeOK ==
  /\ config \in Configs /\ pc \in {"idle", "cluster"}
  /\ labels \in [DOMAIN detections -> Unvisited .. grown]
  /\ \A i \in DOMAIN queue : queue[i] \in DOMAIN detections
  /\ Len(health.latencies) <= Window
  /\ health.rejected + health.empty <= health.processed
  /\ health.alarms[1] <= health.alarms[2]
  /\ nextId \in Nat /\ health.processed <= MaxFrames

Near(a, b) == SquaredNorm(Place(a), Place(b)) <= config.epsSquared

Cores(contacts) ==
  {i \in DOMAIN contacts :
     Cardinality({j \in DOMAIN contacts : Near(contacts[i], contacts[j])}) >= config.minSamples}

Split(contacts, S, T) == \A i \in S, j \in T : ~Near(contacts[i], contacts[j])

\* Whatever order the beams were visited in, an answer's candidates are the clusters
\* of DBSCAN's definition: the core points of each are one connected component of
\* all core points, the rest of it lies next to one of them, and the rejected
\* candidates are the contacts next to no core point (Dbscan).
ClustersAreDbscan ==
  LET contacts == answer.contacts
      cores == Cores(contacts)
      nearCore == {i \in DOMAIN contacts : ~Split(contacts, {i}, cores)}
      members(c) == answer.candidates[c].members
      own(c) == members(c) \cap cores
  IN pc = "idle" =>
     /\ answer.noise = DOMAIN contacts \ nearCore
     /\ UNION {members(c) : c \in DOMAIN answer.candidates} = nearCore
     /\ \A c \in DOMAIN answer.candidates :
          /\ own(c) # {}
          /\ Split(contacts, own(c), cores \ own(c))
          /\ \A S \in (SUBSET own(c)) \ {{}, own(c)} : ~Split(contacts, S, own(c) \ S)
          /\ \A i \in members(c) : ~Split(contacts, {i}, own(c))
          /\ \A d \in DOMAIN answer.candidates \ {c} : members(c) \cap members(d) = {}

\* Between frames Health() speaks of the answers that were given: it calls the
\* frontend healthy only if the last frame had a candidate, and its shares are
\* those of the frames not refused and of the frames that were not without a
\* candidate (ProcessSonarFrame, Health).
HealthTellsAnswers ==
  pc = "idle" =>
    /\ Status = "healthy" => answer.candidates # <<>>
    /\ InputValid = given.nothing + given.candidates
    /\ ValidDomain = given.refusal + given.candidates

\* Every frame that is taken is answered: neither loop of Dbscan runs for ever.
FrameAnswered == pc = "cluster" ~> pc = "idle"
=============================================================================
