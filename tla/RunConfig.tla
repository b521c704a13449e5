------------------------------ MODULE RunConfig ------------------------------
(***************************************************************************)
(* What a replay is told to do and how it is judged: the layers that        *)
(* LoadExperimentConfig reads (platform defaults, rig, scenario, experiment)*)
(* with everything their loaders refuse, the trajectory error, and the gates*)
(* that decide the exit code.                                               *)
(*                                                                          *)
(* A file is a function from sections to functions from keys to values; a   *)
(* key that is not named is not in the domain.  Numbers are integers (ratios*)
(* in percent) or one of NaN and Infinity.  A value that is not of the type *)
(* of its key is refused by the YAML library as one out of range is here.   *)
(***************************************************************************)
EXTENDS Integers, Sequences, FiniteSets

CONSTANTS
  NaN, Infinity,   \* the floating-point numbers that are not finite
  MaxOffset        \* kMaxAbsoluteSensorTimeOffsetSeconds

ASSUME RunConfigAssumption == MaxOffset \in Nat /\ NaN \notin Int /\ Infinity \notin Int

Positive == Nat \ {0}

-----------------------------------------------------------------------------
(* The platform defaults: what each key of a checked section may hold.      *)

StereoRectification ==
  [alpha |-> -100 .. 100,
   crop_policy |-> {"full_canvas", "common_valid_roi"},
   frame_suffix |-> STRING \ {""}]

SonarCfar ==
  [training_cells |-> {n \in Positive : n % 2 = 0},
   guard_cells |-> {n \in Nat : n % 2 = 0},
   probability_false_alarm |-> 1 .. 99,
   detector_threshold |-> 0 .. 255,
   dbscan_eps_m |-> Positive,
   dbscan_min_samples |-> Positive,
   default_range_sigma_m |-> Positive,
   default_bearing_sigma_rad |-> Positive]

RelativePose == [translation |-> Positive, rotation |-> Positive]

VisualOdometry ==
  [max_consecutive_failures |-> 1 .. 1000,
   max_condition_number |-> Positive,
   residual_variance_floor_m2 |-> Positive,
   max_inlier_rmse_m |-> Int \cup {Infinity}]   \* <= 0 is read as Infinity

LoopClosure ==
  [enabled |-> BOOLEAN,
   candidate_search_radius_m |-> Positive,
   min_keyframe_index_gap |-> Positive,
   max_accepted_translation_m |-> Positive,
   max_accepted_rotation_rad |-> Positive,
   min_landmarks_for_pose |-> Nat \ 0 .. 2,
   max_loop_edges_per_keyframe |-> Positive,
   huber_delta |-> Positive]

StereoMatching ==
  [min_texture_variance |-> Nat, min_uniqueness_margin |-> Nat, left_right_max_diff_px |-> Nat]

Checked ==
  [stereo_rectification |-> StereoRectification, sonar_cfar |-> SonarCfar,
   relative_pose |-> RelativePose, visual_odometry |-> VisualOdometry,
   loop_closure |-> LoopClosure, stereo_matching |-> StereoMatching]

\* LoadPlatformDefaultsConfig returns: a checked section has no key but its own
\* and no value out of range.  Any other section (gates, estimation, the rest
\* of reliability) is read as it comes.
LoadsDefaults(file) ==
  \A section \in DOMAIN file \cap DOMAIN Checked :
    \A key \in DOMAIN file[section] :
      key \in DOMAIN Checked[section] /\ file[section][key] \in Checked[section][key]

\* LoadScenarioConfig returns: every sonar target has three coordinates.
LoadsScenario(targets) == \A components \in targets : components = 3

-----------------------------------------------------------------------------
(* The rig file: cameras, sonars and stateSensors are the sensors it lists, *)
(* offsets and provenance are functions of sensors.                         *)

Ids(list) == {list[i] : i \in DOMAIN list}
Unique(list) == Cardinality(Ids(list)) = Len(list) /\ "" \notin Ids(list)

EnabledSonars(rig) ==
  LET enabled == SelectSeq(rig.sonars, LAMBDA s : s.enabled) IN
  [i \in DOMAIN enabled |-> enabled[i].id]

\* The sensors whose captures a run may have to place on one clock.
OnlineSensors(rig) == Ids(rig.listed) \cup Ids(EnabledSonars(rig)) \cup Ids(rig.stateSensors)

TimedOffset(rig, sensor) ==
  /\ sensor \in DOMAIN rig.offsets /\ rig.offsets[sensor] \in -MaxOffset .. MaxOffset
  /\ sensor \in DOMAIN rig.provenance /\ rig.provenance[sensor] # ""

\* (Variant) asks for the offsets of the cameras alone.
LoadsRig_CamerasOnly(rig) ==
  /\ \A side \in DOMAIN rig.cameras : rig.cameras[side].size > 0
  /\ Unique(rig.listed \o EnabledSonars(rig) \o rig.stateSensors)
  /\ EnabledSonars(rig) # <<>> => Len(EnabledSonars(rig)) = 1 /\ Len(rig.stateSensors) = 1
  /\ \A sensor \in Ids(rig.listed) : TimedOffset(rig, sensor)

\* LoadRigConfig returns: no image is empty; no two online sensors share an
\* id; a rig that listens has one sonar and one sensor of the vehicle's state;
\* every online sensor has a bounded offset that says where it comes from, and
\* so has every offset; nothing says where an offset that is not there comes from.
LoadsRig(rig) ==
  /\ \A side \in DOMAIN rig.cameras : rig.cameras[side].size > 0
  /\ Unique(rig.listed \o EnabledSonars(rig) \o rig.stateSensors)
  /\ EnabledSonars(rig) # <<>> => Len(EnabledSonars(rig)) = 1 /\ Len(rig.stateSensors) = 1
  /\ \A sensor \in OnlineSensors(rig) \cup DOMAIN rig.offsets \cup DOMAIN rig.provenance :
       TimedOffset(rig, sensor)

-----------------------------------------------------------------------------
(* The experiment file: its layers, its selections and its own gates.       *)

Implemented ==
  [sonar |-> {"sonar_cfar_frontend_v1"}, optical |-> {"stereo_depth_frontend_v1"},
   map_backend |-> {"submap_point_cloud_v1"},
   estimator_mode |-> {"black_box_vio", "stereo_landmark_vo", "imu_preintegration"},
   landmark_detector |-> {"bright_blob", "harris_corner"}, solver |-> {"gauss_newton_v1"}]

\* The values of the upper layer, and those of the lower where it says nothing.
Layered(upper, lower) ==
  [key \in DOMAIN upper \cup DOMAIN lower |->
     IF key \in DOMAIN upper THEN upper[key] ELSE lower[key]]

SectionOf(file, section) == IF section \in DOMAIN file THEN file[section] ELSE <<>>

\* ValidateExperimentConfigSelections: what is selected is there.  The solver
\* is selected by the experiment, or else by the defaults.
SelectionsImplemented(config) ==
  LET selected == Layered(config.select, SectionOf(config.defaults, "estimation")) IN
  \A key \in DOMAIN selected \cap DOMAIN Implemented : selected[key] \in Implemented[key]

\* The run gets past its configuration.
Configured(config, rig) ==
  /\ LoadsDefaults(config.defaults) /\ LoadsRig(rig) /\ LoadsScenario(config.targets)
  /\ SelectionsImplemented(config)

BuiltInGates ==
  [require_converged |-> TRUE, max_ate_rmse_m |-> -1, min_matched_ate_poses |-> 0,
   require_nonempty_map |-> FALSE, min_acoustic_optic_accepted |-> 0,
   min_acoustic_optic_map_points |-> 0]

\* A gate is a switch or a number, finite here; what is neither, the YAML library
\* refuses.
GatesTyped(gates) ==
  \A g \in DOMAIN gates :
    gates[g] \in IF g \in {"require_converged", "require_nonempty_map"} THEN BOOLEAN ELSE Int

\* (Variant) reads the defaults after the experiment's own gates.
Gates_DefaultsLast(config) ==
  Layered(Layered(SectionOf(config.defaults, "gates"), config.gates), BuiltInGates)

\* The experiment is the most specific layer, the values in the code the least.
Gates(config) ==
  Layered(Layered(config.gates, SectionOf(config.defaults, "gates")), BuiltInGates)

-----------------------------------------------------------------------------
(* ComputeAte on places along a line, and the gates.                        *)

Magnitude(n) == IF n >= 0 THEN n ELSE -n

\* The first of the poses of truth that are nearest in time.
NearestInTime(truth, time) ==
  CHOOSE i \in DOMAIN truth :
    \A k \in DOMAIN truth :
      LET di == Magnitude(truth[i].time - time)  dk == Magnitude(truth[k].time - time) IN
      di < dk \/ (di = dk /\ i <= k)

\* MatchByTimestamp: the estimated poses with a pose of truth close enough.
Matches(estimated, truth, maxDiff) ==
  {k \in DOMAIN estimated :
     /\ truth # <<>>
     /\ LET time == estimated[k].time IN
          Magnitude(truth[NearestInTime(truth, time)].time - time) <= maxDiff}

SquaredError(estimate, truth) ==
  LET error == estimate.place - truth[NearestInTime(truth, estimate.time)].place IN error * error

Total(numbers) ==
  LET sum[n \in 0 .. Len(numbers)] == IF n = 0 THEN 0 ELSE sum[n - 1] + numbers[n]
  IN sum[Len(numbers)]

\* The root of squares / matched is rmse_m; without a match both are 0.
ComputeAte(estimated, truth, maxDiff) ==
  LET matches == Matches(estimated, truth, maxDiff) IN
  [matched |-> Cardinality(matches),
   squares |-> Total([k \in DOMAIN estimated |->
                        IF k \in matches THEN SquaredError(estimated[k], truth) ELSE 0])]

\* The rmse is above max, both sides squared.
RmseAbove(ate, max) == ate.squares > ate.matched * max * max

\* EvaluateReplayGates: the gates a run does not pass.
GateFailures(gates, converged, ate, landmarks, tally) ==
  {g \in DOMAIN gates :
     \/ g = "require_converged" /\ gates[g] /\ ~converged
     \/ g = "min_matched_ate_poses" /\ gates[g] > 0 /\ ate.matched < gates[g]
     \/ g = "max_ate_rmse_m" /\ gates[g] >= 0 /\ RmseAbove(ate, gates[g])
     \/ g = "require_nonempty_map" /\ gates[g]
          /\ landmarks + tally.opticalOnly + tally.acousticOptic = 0
     \/ g = "min_acoustic_optic_accepted" /\ gates[g] > 0 /\ tally.accepted < gates[g]
     \/ g = "min_acoustic_optic_map_points" /\ gates[g] > 0 /\ tally.acousticOptic < gates[g]}
=============================================================================
