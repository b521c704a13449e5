---------------------------- MODULE AcousticOptic ----------------------------
(***************************************************************************)
(* The two passes of RunReplayPipeline that turn sonar and stereo images    *)
(* into a map.  Before the solve, every sonar detection becomes a range     *)
(* factor to a landmark, known or new.  After it, every keyframe with a     *)
(* stereo pair contributes its depth: the synchronizer decides whether its  *)
(* sonar frame may be used, the associator looks for the pixel the sonar    *)
(* saw, the fusion corrects the depth of that pixel or leaves it alone, and *)
(* the bridge lifts all of it into the map.  Before them the configuration  *)
(* is loaded and the rig rectified; after them the gates give the exit code.*)
(*                                                                          *)
(* Images are not modelled: what the matcher, the projection of the sonar   *)
(* arc and the optimizer compute is an open choice within its contract.     *)
(***************************************************************************)
EXTENDS Submap, Rectification, RunConfig

CONSTANTS
  Inputs,          \* configurations, rigs, and what the run makes of a bag
  Pixels,          \* the pixels of a rectified image
  Depths,          \* depths in a prior or a posterior; 0 is no depth
  VarianceOf,      \* the variance of a stereo depth, by depth
  Stamps,          \* capture times
  ImagePairs,      \* raw stereo pairs: whether each is MONO8, and its size
  Arcs,            \* sets of samples of a sonar arc: a pixel and a residual
  SyncMaxDelta,    \* SynchronizerParams::max_time_delta_s
  AssocMaxDelta,   \* AcousticOpticAssociatorParams::max_time_delta_s
  ResidualGate,    \* range_gate_m and bearing_gate_rad
  AmbiguityMargin, \* ambiguity_margin
  AgreementSigma,  \* depth_agreement_sigma
  SearchRadius,    \* search_radius_sigma
  MinImprovement,  \* min_variance_improvement_fraction, in percent
  InnovationGate,  \* innovation_gate_sigma
  LandmarkGate,    \* kLandmarkGateM
  AteMaxDelta,     \* how far apart in time ComputeAte matches two poses
  Missing,         \* no image, no time, no offset
  Malformed        \* a header without a usable capture time

ASSUME AcousticOpticAssumption ==
  /\ Pixels \subseteq Nat /\ IsFiniteSet(Pixels)
  /\ Depths \subseteq Nat /\ 0 \in Depths
  /\ VarianceOf \in [Depths \ {0} -> Nat \ {0}]
  /\ Stamps \subseteq Int
  /\ Missing \notin Int \cup {Malformed} /\ Malformed \notin Int
  /\ SyncMaxDelta \in Nat /\ AssocMaxDelta \in Nat /\ AssocMaxDelta <= SyncMaxDelta
  /\ \A a \in Arcs : a \subseteq [pixel : Nat, residual : Nat]
  /\ {ResidualGate, AmbiguityMargin, AgreementSigma, SearchRadius,
      MinImprovement, InnovationGate, LandmarkGate,
      AteMaxDelta} \subseteq Nat

\* Keyframe ids are the bag's; the map keeps its landmarks under a name of its
\* own.  Poses and sonar returns are places along the line, times are integers.
\* The cameras of a rig are among the sensors it lists.
ASSUME InputsAssumption ==
  \A in \in Inputs :
    /\ in.order \in Seq(STRING)
    /\ \A i, j \in DOMAIN in.order : i # j => in.order[i] # in.order[j]
    /\ \A i \in DOMAIN in.order :
         /\ in.order[i] # "landmarks"
         /\ {in.dead[in.order[i]], in.solved[in.order[i]], in.time[in.order[i]]} \subseteq Int
    /\ DOMAIN in.sonar = 1 .. Len(in.sonar) /\ Len(in.sonar) \in Nat
    /\ \A i \in DOMAIN in.sonar :
         /\ in.sonar[i].detection \in (Int \X Int) \cup {Missing}
         /\ in.sonar[i].stamp \in Stamps \cup {Malformed}
    /\ DOMAIN in.rig.cameras \subseteq Ids(in.rig.listed)
    /\ in.truth \in Seq([time : Int, place : Int])
    /\ GatesTyped(in.config.gates) /\ GatesTyped(SectionOf(in.config.defaults, "gates"))

VARIABLES
  pc,        \* the stage of the run; "done", "refused" and "gated" are exit codes 0, 1, 2
  input,     \* the files, the sonar frames, the poses before and after the solve, the truth
  cursor,    \* the loop variable of the pass
  map,       \* submap_manager
  factors,   \* the sonar range factors: keyframe, predicted point, landmark
  pair,      \* the stereo pair of the current keyframe, and how it is timed
  tally,     \* the counters of the pass
  fusions    \* (history variable) what was fused for each keyframe

vars == <<pc, input, cursor, map, factors, pair, tally, fusions>>

Sensors == {"left", "right", "sonar"}

Order == input.order           \* KeyframeOrder() of the graph
NoTally == [withCamera |-> 0, accepted |-> 0, ambiguous |-> 0, conflict |-> 0,
            rejected |-> 0, invalidStamp |-> 0, points |-> 0,
            opticalOnly |-> 0, acousticOptic |-> 0]
NoPair == [status |-> "none"]

Init ==
  /\ input \in Inputs
  /\ pc = "load"
  /\ cursor = 1
  /\ map = [id \in {"landmarks"} |-> NewKeyframe]
  /\ factors = <<>>
  /\ pair = NoPair
  /\ tally = NoTally
  /\ fusions = <<>>

\* The configuration, then the rectification context; without either the run
\* ends before any pass.
Load ==
  /\ pc = "load"
  /\ pc' = IF Configured(input.config, input.rig) /\ Rectifiable(input.rig) THEN "sonar" ELSE "refused"
  /\ UNCHANGED <<input, cursor, map, factors, pair, tally, fusions>>

-----------------------------------------------------------------------------
(* The sonar pass.                                                          *)

LandmarkEvidence(point) ==
  [keyframe |-> "landmarks", policy |-> "transform_only", version |-> 0,
   points |-> [p \in {0} |-> point]]

\* A detection within the gate of a known landmark reuses that landmark; one
\* that is not becomes a landmark itself.  Either way it yields a factor.
SonarFactor(frame, predicted) ==
  LET near == QueryNearestPoint(map, predicted, LandmarkGate) IN
  \/ /\ near = {}
     /\ map' = AddMapEvidence(map, LandmarkEvidence(predicted))
     /\ factors' = Append(factors, [keyframe |-> frame.keyframe, predicted |-> predicted,
                                    landmark |-> predicted])
  \/ \E known \in near :
       /\ factors' = Append(factors, [keyframe |-> frame.keyframe, predicted |-> predicted,
                                      landmark |-> known])
       /\ UNCHANGED map

OfGraph(frame) == \E i \in DOMAIN Order : Order[i] = frame.keyframe

SonarFrame ==
  /\ pc = "sonar" /\ cursor <= Len(input.sonar)
  /\ LET frame == input.sonar[cursor] IN
       IF OfGraph(frame) /\ frame.keyframe \notin input.warmup /\ frame.detection # Missing
       THEN SonarFactor(frame, Apply(input.dead[frame.keyframe], frame.detection))
       ELSE UNCHANGED <<map, factors>>
  /\ cursor' = cursor + 1
  /\ UNCHANGED <<pc, input, pair, tally, fusions>>

\* After the solve every keyframe of the graph is given its pose.
Publish ==
  /\ pc = "sonar" /\ cursor > Len(input.sonar)
  /\ map' = [id \in DOMAIN map \cup {Order[i] : i \in DOMAIN Order} |->
               IF id = "landmarks" THEN map[id]
               ELSE UpdateKeyframePose(map, id, input.solved[id])[id]]
  /\ pc' = "pair" /\ cursor' = 1
  /\ UNCHANGED <<input, factors, pair, tally, fusions>>

-----------------------------------------------------------------------------
(* The acoustic-optic pass: the timing of a keyframe.                       *)

CorrectedTime(stamp, sensor) ==
  IF stamp \in Stamps /\ sensor \in DOMAIN input.rig.offsets /\ input.rig.offsets[sensor] \in Int
  THEN stamp + input.rig.offsets[sensor] ELSE Malformed

Spread(times) ==
  LET top == CHOOSE t \in times : \A u \in times : u <= t
      low == CHOOSE t \in times : \A u \in times : t <= u
  IN top - low

\* (Variant) looks at the sonar and the primary camera only.
Synchronize_PrimaryOnly(left, right, sonar) ==
  LET sonarTime == CorrectedTime(sonar, "sonar")
      cameras == {CorrectedTime(left, "left"), CorrectedTime(right, "right")}
  IN CASE Malformed \in cameras -> [status |-> "invalid_timestamp", delta |-> 0]
       [] sonar = Missing -> [status |-> "no_sonar", delta |-> 0]
       [] sonar # Missing /\ sonarTime = Malformed -> [status |-> "invalid_timestamp", delta |-> 0]
       [] OTHER ->
            LET delta == Spread({CorrectedTime(left, "left"), sonarTime}) IN
            [status |-> IF delta > SyncMaxDelta THEN "delta_exceeded" ELSE "synchronized",
             delta |-> delta]

\* A malformed header of a camera, then no sonar, then a malformed header of
\* the sonar, then a pair whose corrected times lie too far apart.
Synchronize(left, right, sonar) ==
  LET sonarTime == CorrectedTime(sonar, "sonar")
      cameras == {CorrectedTime(left, "left"), CorrectedTime(right, "right")}
  IN CASE Malformed \in cameras -> [status |-> "invalid_timestamp", delta |-> 0]
       [] Malformed \notin cameras /\ sonar = Missing -> [status |-> "no_sonar", delta |-> 0]
       [] Malformed \notin cameras /\ sonar # Missing /\ sonarTime = Malformed ->
            [status |-> "invalid_timestamp", delta |-> 0]
       [] OTHER ->
            LET delta == Spread(cameras \cup {sonarTime}) IN
            [status |-> IF delta > SyncMaxDelta THEN "delta_exceeded" ELSE "synchronized",
             delta |-> delta]

\* sonar_by_kf: the first sonar frame of the keyframe.
SonarOf(kf) ==
  LET mine == {i \in DOMAIN input.sonar : input.sonar[i].keyframe = kf} IN
  IF mine = {} THEN [stamp |-> Missing, detection |-> Missing]
  ELSE input.sonar[CHOOSE i \in mine : \A j \in mine : i <= j]

\* StereoOpticalDepthFrontend yields a depth: the geometry of the rig it is
\* given resolves, and the images are a rectified pair of that geometry.
StereoAccepts(images) ==
  LET rig == DerivedRig(input.rig) IN
  /\ Resolves(rig, RectifiedFrame("left"), RectifiedFrame("right"))
  /\ \A s \in Sides : /\ s \in DOMAIN images
                      /\ images[s].frame = RectifiedFrame(s)
                      /\ images[s].size = rig.cameras["left"].size

NextKeyframe == cursor' = cursor + 1 /\ pair' = NoPair

\* A keyframe of which an image is missing.
SkipKeyframe ==
  /\ pc = "pair" /\ pair = NoPair /\ cursor <= Len(Order)
  /\ NextKeyframe
  /\ UNCHANGED <<pc, input, map, factors, tally, fusions>>

\* A keyframe with both images: it is counted and timed on the raw headers;
\* without a rectified pair or a depth from it, that is all.
TimePair(left, right, images, prior) ==
  /\ pc = "pair" /\ pair = NoPair /\ cursor <= Len(Order)
  /\ tally' = [tally EXCEPT !.withCamera = @ + 1]
  /\ IF StereoAccepts(Rectify(input.rig, images))
     THEN /\ pair' = [status |-> Synchronize(left, right, SonarOf(Order[cursor]).stamp).status,
                      delta |-> Synchronize(left, right, SonarOf(Order[cursor]).stamp).delta,
                      prior |-> prior, times |-> <<left, right>>]
          /\ UNCHANGED cursor
     ELSE NextKeyframe
  /\ UNCHANGED <<pc, input, map, factors, fusions>>

-----------------------------------------------------------------------------
(* The acoustic-optic pass: association, fusion and the map.                *)

Candidates(prior, arc) ==
  {s \in arc : s.pixel \in Pixels /\ prior[s.pixel] > 0 /\ s.residual <= ResidualGate}

Square(n) == n * n

\* One score per pixel: samples of the arc that fall on the same pixel must not
\* compete with each other.
BestResidual(candidates, pixel) ==
  CHOOSE r \in {s.residual : s \in {c \in candidates : c.pixel = pixel}} :
    \A s \in candidates : s.pixel = pixel => r <= s.residual

Scored(prior, arc) ==
  LET candidates == Candidates(prior, arc) IN
  {[pixel |-> p, score |-> Square(BestResidual(candidates, p))] : p \in {s.pixel : s \in candidates}}

\* Two candidates for the same thing: their depths agree within their variances.
DepthsAgree(d1, d2) ==
  Square(d1 - d2) <= (VarianceOf[d1] + VarianceOf[d2]) * Square(AgreementSigma)

Record(status, reason) == [status |-> status, reason |-> reason, pixel |-> Missing]

\* The records Associate may produce for a detection: several when candidates
\* tie for the first place.
GeometricRecords(prior, arc) ==
  LET scored == Scored(prior, arc)
      best == {s \in scored : \A t \in scored : s.score <= t.score}
      Second(s) == {t \in scored \ {s} : \A u \in scored \ {s} : t.score <= u.score}
      Rival(s, t) == t.score - s.score < AmbiguityMargin /\ ~DepthsAgree(prior[s.pixel], prior[t.pixel])
      Ruling(s, t) == IF Rival(s, t) THEN Record("ambiguous", "ambiguous_margin")
                      ELSE [status |-> "accepted", reason |-> "none", pixel |-> s.pixel]
  IN IF scored = {} THEN {Record("rejected", "no_candidate")}
     ELSE UNION {IF scored = {s} THEN {Ruling(s, [s EXCEPT !.score = s.score + AmbiguityMargin])}
                 ELSE {Ruling(s, t) : t \in Second(s)} : s \in best}

\* No detection, no record; a stale pair is refused before any geometry.
Associate(detection, delta, prior, arc) ==
  IF detection = Missing THEN {}
  ELSE IF delta > AssocMaxDelta THEN {Record("rejected", "time_delta")}
  ELSE IF "sonar_link" \notin DOMAIN input.rig.frames THEN {Record("rejected", "calibration")}
  ELSE GeometricRecords(prior, arc)

\* What the bounded search may return: nothing valid, or a depth in its window.
Posteriors(d) ==
  {[valid |-> FALSE]} \cup
  [valid : {TRUE}, variance : 1 .. VarianceOf[d] + 1, innovation : {InnovationGate, InnovationGate + 1},
   depth : {x \in Depths \ {0} : Square(x - d) <= Square(SearchRadius) * VarianceOf[d]}]

\* An accepted record is settled by the posterior at its pixel.
Verdict(record, posterior, d) ==
  IF record.status # "accepted" THEN record
  ELSE IF ~posterior.valid THEN [record EXCEPT !.status = "rejected", !.reason = "posterior_invalid"]
  ELSE IF posterior.variance * 100 > VarianceOf[d] * (100 - MinImprovement)
    THEN [record EXCEPT !.status = "rejected", !.reason = "variance_not_improved"]
  ELSE IF posterior.innovation > InnovationGate
    THEN [record EXCEPT !.status = "conflict", !.reason = "cross_modal_conflict"]
  ELSE record

OpticalDepth(prior) ==
  [p \in Pixels |-> [depth |-> prior[p], variance |-> IF prior[p] > 0 THEN VarianceOf[prior[p]] ELSE 0,
                     contribution |-> IF prior[p] > 0 THEN "optical" ELSE "invalid"]]

\* (Variant) writes the posterior of a refused candidate too.
FusedDepth_Unconditional(prior, record, posterior) ==
  IF record.pixel # Missing /\ posterior.valid
  THEN [OpticalDepth(prior) EXCEPT ![record.pixel] =
          [depth |-> posterior.depth, variance |-> posterior.variance, contribution |-> "acoustic_optic"]]
  ELSE OpticalDepth(prior)

FusedDepth(prior, record, posterior) ==
  IF record.status = "accepted"
  THEN [OpticalDepth(prior) EXCEPT ![record.pixel] =
          [depth |-> posterior.depth, variance |-> posterior.variance, contribution |-> "acoustic_optic"]]
  ELSE OpticalDepth(prior)

Bridged(fused) == {p \in Pixels : fused[p].contribution # "invalid" /\ fused[p].depth > 0}

BridgeFrame == "left_link"     \* AcousticOpticMapBridgeParams::camera_frame

Lift(frame, pixel, depth) ==
  LET edge == DerivedRig(input.rig).frames[frame] IN <<edge.x + depth, edge.yaw + pixel>>

\* BuildMapEvidenceFromFusedDepth: the valid depths as points of base_link.
DepthEvidence(kf, version, fused) ==
  [keyframe |-> kf, policy |-> "transform_only", version |-> version,
   points |-> [p \in Bridged(fused) |-> Lift(BridgeFrame, p, fused[p].depth)]]

Count(fused, contribution) == Cardinality({p \in Pixels : fused[p].contribution = contribution})

\* (Variant) counts the record as the associator left it.
Counted_BeforeFusion(associated, record, fused) ==
  [k \in DOMAIN tally |-> tally[k] +
     CASE k = associated.status -> 1
       [] k = "invalidStamp" -> IF pair.status = "invalid_timestamp" THEN 1 ELSE 0
       [] k = "points" -> Cardinality(Bridged(fused))
       [] k = "opticalOnly" -> Count(fused, "optical")
       [] k = "acousticOptic" -> Count(fused, "acoustic_optic")
       [] OTHER -> 0]

Counted(associated, record, fused) ==
  [k \in DOMAIN tally |-> tally[k] +
     CASE k = record.status -> 1
       [] k = "invalidStamp" -> IF pair.status = "invalid_timestamp" THEN 1 ELSE 0
       [] k = "points" -> Cardinality(Bridged(fused))
       [] k = "opticalOnly" -> Count(fused, "optical")
       [] k = "acousticOptic" -> Count(fused, "acoustic_optic")
       [] OTHER -> 0]

NoRecord == Record("none", "none")

\* The sonar hypotheses of the keyframe: none unless the timing allows them.
Hypothesis ==
  IF pair.status \in {"synchronized", "delta_exceeded"} THEN SonarOf(Order[cursor]).detection
  ELSE Missing

\* Fuse, count and bridge.  Without a record the fusion is the optical depth.
FusePair(arc) ==
  /\ pc = "pair" /\ pair # NoPair
  /\ LET records == Associate(Hypothesis, pair.delta, pair.prior, arc) IN
     \E associated \in IF records = {} THEN {NoRecord} ELSE records :
     \E posterior \in IF associated.status = "accepted"
                      THEN Posteriors(pair.prior[associated.pixel]) ELSE {[valid |-> FALSE]} :
       LET d == IF associated.status = "accepted" THEN pair.prior[associated.pixel] ELSE 0
           record == Verdict(associated, posterior, d)
           fused == FusedDepth(pair.prior, record, posterior)
       IN /\ tally' = Counted(associated, record, fused)
          /\ map' = AddMapEvidence(map, DepthEvidence(Order[cursor], cursor, fused))
          /\ fusions' = Append(fusions, [keyframe |-> Order[cursor], timing |-> pair,
                                         record |-> record, depth |-> fused])
  /\ NextKeyframe
  /\ UNCHANGED <<pc, input, factors>>

\* estimated_trajectory: every keyframe of the graph where the solve put it.
Estimated ==
  [i \in DOMAIN Order |-> [time |-> input.time[Order[i]], place |-> input.solved[Order[i]]]]

Failures(converged) ==
  GateFailures(Gates(input.config), converged, ComputeAte(Estimated, input.truth, AteMaxDelta),
               Len(map["landmarks"].evidence), tally)

\* The exit code.  Whether the solve converged is the solver's to say.
Finished ==
  /\ pc = "pair" /\ pair = NoPair /\ cursor > Len(Order)
  /\ \E converged \in BOOLEAN : pc' = IF Failures(converged) = {} THEN "done" ELSE "gated"
  /\ UNCHANGED <<input, cursor, map, factors, pair, tally, fusions>>

Priors == [Pixels -> Depths]

Next ==
  \/ Load \/ SonarFrame \/ Publish \/ SkipKeyframe \/ Finished
  \/ \E left, right \in Stamps \cup {Malformed}, images \in ImagePairs, prior \in Priors :
       TimePair(left, right, images, prior)
  \/ \E arc \in Arcs : FusePair(arc)

Spec == Init /\ [][Next]_vars

-----------------------------------------------------------------------------
Statuses == {"accepted", "ambiguous", "conflict", "rejected"}
Pairs == {NoPair} \cup
         [status : {"invalid_timestamp", "no_sonar", "delta_exceeded", "synchronized"},
          delta : Nat, prior : Priors, times : (Stamps \cup {Malformed}) \X (Stamps \cup {Malformed})]
FusedDepths == [Pixels -> [depth : Depths, variance : Nat,
                           contribution : {"invalid", "optical", "acoustic_optic"}]]

TypeOK ==
  /\ pc \in {"load", "refused", "sonar", "pair", "done", "gated"}
  /\ cursor \in Nat \ {0}
  /\ pair \in Pairs
  /\ tally \in [DOMAIN NoTally -> Nat]
  /\ StaleKeyframes(map) = {}
  /\ \A i \in DOMAIN factors : factors[i].keyframe \in {Order[k] : k \in DOMAIN Order}
  /\ \A i \in DOMAIN fusions :
       fusions[i].timing \in Pairs \ {NoPair} /\ fusions[i].depth \in FusedDepths

Landmarks == WorldPointsForKeyframe(map, "landmarks")

\* "A hit reuses that landmark's stored position ...; a miss means this is a
\* never-before-seen landmark": no landmark is entered twice, each factor is
\* built to a landmark within the gate of what it predicted, and no pose the
\* solve publishes moves a landmark a factor was built to.
LandmarksApart ==
  /\ Cardinality(Landmarks) = Len(map["landmarks"].evidence)
  /\ \A p, q \in Landmarks : p # q => Distance(p, q) > LandmarkGate
  /\ \A i \in DOMAIN factors :
       /\ factors[i].landmark \in Landmarks
       /\ Distance(factors[i].landmark, factors[i].predicted) <= LandmarkGate

AcousticPixels(fusion) == {p \in Pixels : fusion.depth[p].contribution = "acoustic_optic"}

\* A sonar frame corrects a depth only if both images and the sonar frame lie,
\* by their corrected capture times, within the synchronizer's bound.
DesyncedStaysOptical ==
  \A i \in DOMAIN fusions :
    LET f == fusions[i]
        times == {CorrectedTime(f.timing.times[1], "left"), CorrectedTime(f.timing.times[2], "right"),
                  CorrectedTime(SonarOf(f.keyframe).stamp, "sonar")}
    IN AcousticPixels(f) # {} =>
         Malformed \notin times /\ \A s, t \in times : s - t <= SyncMaxDelta

\* "Fails closed at every stage": wherever the sonar is not accepted the depth
\* is the optical prior, it is accepted at one pixel at most, and there the
\* variance has improved by the required share and the depth lies in the
\* search window; the sonar never makes a pixel valid or invalid.
SonarOnlyImproves ==
  \A i \in DOMAIN fusions :
    LET f == fusions[i]  prior == f.timing.prior  optical == OpticalDepth(prior) IN
    /\ Cardinality(AcousticPixels(f)) = IF f.record.status = "accepted" THEN 1 ELSE 0
    /\ \A p \in Pixels \ AcousticPixels(f) : f.depth[p] = optical[p]
    /\ \A p \in AcousticPixels(f) :
         /\ optical[p].contribution = "optical" /\ f.depth[p].depth > 0
         /\ f.depth[p].variance * 100 <= optical[p].variance * (100 - MinImprovement)
         /\ Square(f.depth[p].depth - prior[p]) <= Square(SearchRadius) * optical[p].variance

\* The counters of the run summary agree with the map: each keyframe that was
\* fused is counted under one status at most, an accepted association is one
\* corrected point, and the points counted are the points in the map.
PointsInMap ==
  {at \in {Order[k] : k \in DOMAIN Order} \X Pixels :
     \E i \in DOMAIN Entry(map, at[1]).evidence : at[2] \in DOMAIN Entry(map, at[1]).evidence[i].points}

TallyMatchesMap ==
  /\ tally.accepted = tally.acousticOptic
  /\ tally.points = tally.opticalOnly + tally.acousticOptic
  /\ tally.points = Cardinality(PointsInMap)
  /\ tally.accepted + tally.ambiguous + tally.conflict + tally.rejected + tally.invalidStamp <= Len(fusions)
  /\ Len(fusions) <= tally.withCamera

\* "Online sensor requires a bounded finite time offset": once a rig has been
\* loaded, a capture of one of its online sensors is left out for its time only
\* if its header is malformed; the configuration is never the reason.
OnlySensorsOfTheRig ==
  \A i \in DOMAIN fusions :
    LET f == fusions[i]  sonar == SonarOf(f.keyframe).stamp IN
    f.timing.status = "invalid_timestamp" =>
      \/ Malformed \in {f.timing.times[1], f.timing.times[2], sonar}
      \/ sonar # Missing /\ "sonar" \notin OnlineSensors(input.rig)

\* The gate in force: the experiment's word, else that of the defaults, else
\* the one built in.
Declared(gate) ==
  IF gate \in DOMAIN input.config.gates THEN input.config.gates[gate]
  ELSE IF gate \in DOMAIN SectionOf(input.config.defaults, "gates")
    THEN input.config.defaults["gates"][gate] ELSE BuiltInGates[gate]

\* Keyframes with a pose of truth close in time.
ScoredKeyframes ==
  {k \in DOMAIN Order : \E i \in DOMAIN input.truth :
     Magnitude(input.truth[i].time - input.time[Order[k]]) <= AteMaxDelta}

\* "Checks these after solving and exits non-zero when violated": a run that
\* exits 0 earned it by what it left behind.  There are points in the map if
\* they are asked for, corrected points if those are; enough keyframes can be
\* compared with the truth, and none is further from it than an error of the
\* whole trajectory within the gate allows, the trajectories not being aligned
\* first (align_ate is off).
GreenRunEarned ==
  pc = "done" =>
    /\ Declared("require_nonempty_map") =>
         \E id \in DOMAIN map : WorldPointsForKeyframe(map, id) # {}
    /\ LET corrected == {at \in (DOMAIN fusions) \X Pixels : at[2] \in AcousticPixels(fusions[at[1]])} IN
         /\ Cardinality(corrected) >= Declared("min_acoustic_optic_accepted")
         /\ Cardinality(corrected) >= Declared("min_acoustic_optic_map_points")
    /\ Cardinality(ScoredKeyframes) >= Declared("min_matched_ate_poses")
    /\ LET max == Declared("max_ate_rmse_m") IN
         max >= 0 => \A k \in ScoredKeyframes : \E i \in DOMAIN input.truth :
           Square(input.solved[Order[k]] - input.truth[i].place)
             <= Cardinality(ScoredKeyframes) * Square(max)

\* "Every valid pixel ... is unprojected and expressed in BASE_LINK frame": the
\* depth is measured along the axis of the rectified camera, which the fused
\* evidence names as its reference frame, so a point is lifted through it.
PointsInDepthFrame ==
  \A i \in DOMAIN fusions :
    \A e \in {Entry(map, fusions[i].keyframe).evidence[k] :
                k \in DOMAIN Entry(map, fusions[i].keyframe).evidence} :
      \A p \in DOMAIN e.points :
        e.points[p] = Lift(RectifiedFrame("left"), p, fusions[i].depth[p].depth)
=============================================================================
