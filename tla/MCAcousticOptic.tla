--------------------------- MODULE MCAcousticOptic ---------------------------
(* Model-checking instance of AcousticOptic: rigs that rectify in different   *)
(* ways or not at all, bags of two keyframes and up to three sonar frames,     *)
(* configurations that are refused and gates at their limits.                 *)
EXTENDS AcousticOptic

Camera(k, distortion) == [k |-> k, size |-> 2, distortion |-> distortion]
Edge(x, off, yaw) == [x |-> x, off |-> off, yaw |-> yaw, rigid |-> TRUE]

MCRig(right, kRight, mounted, listens, offset) ==
  [crop |-> TRUE, roi |-> 1,
   cameras |-> [left |-> Camera(1, "none"), right |-> Camera(kRight, "none")],
   frames |-> IF mounted
              THEN [left_link |-> Edge(0, 0, 0), right_link |-> right, sonar_link |-> Edge(1, 0, 0)]
              ELSE [left_link |-> Edge(0, 0, 0), right_link |-> right],
   listed |-> <<"left", "right">>, stateSensors |-> <<"state">>,
   sonars |-> <<[id |-> "sonar", enabled |-> listens]>>,
   offsets |-> IF offset = Missing THEN [left |-> 0, right |-> 0, state |-> 0]
               ELSE [left |-> 0, right |-> 0, state |-> 0, sonar |-> offset],
   provenance |-> IF offset = Missing
                  THEN [left |-> "measured", right |-> "measured", state |-> "measured"]
                  ELSE [left |-> "measured", right |-> "measured", state |-> "measured",
                        sonar |-> "measured"]]

\* Parallel cameras; a right camera that looks aside, and has a K of its own; a
\* sonar without an edge; a sonar that is switched off and has no offset; a
\* sonar whose clock is ahead; a right camera without a usable K; cameras swapped.
Parallel == MCRig(Edge(2, 0, 0), 1, TRUE, TRUE, 0)
Toed == MCRig(Edge(2, 1, 0), 2, TRUE, TRUE, 0)
Silent == MCRig(Edge(2, 0, 0), 1, TRUE, FALSE, Missing)
Swapped == MCRig(Edge(-2, 0, 0), 1, TRUE, TRUE, 0)
Rigs == {Parallel, Toed, MCRig(Edge(2, 0, 0), 1, FALSE, TRUE, 0), Silent,
         MCRig(Edge(2, 0, 0), 1, TRUE, TRUE, 1), MCRig(Edge(2, 0, 0), 0, TRUE, TRUE, 0),
         Swapped}

\* A sonar that is switched on without an offset, with one out of bounds or of
\* no known origin; two sonars; an id used twice; no sensor of the state.
RefusedRigs ==
  {MCRig(Edge(2, 0, 0), 1, TRUE, TRUE, Missing), MCRig(Edge(2, 0, 0), 1, TRUE, TRUE, MaxOffset + 1),
   MCRig(Edge(2, 0, 0), 1, TRUE, TRUE, NaN), [Parallel EXCEPT !.provenance["sonar"] = ""],
   [Parallel EXCEPT !.sonars = @ \o @], [Parallel EXCEPT !.listed = Append(@, "left")],
   [Parallel EXCEPT !.stateSensors = <<>>], [Silent EXCEPT !.offsets = [left |-> 0, right |-> 0]]}

Images(l, r) == [left |-> l, right |-> r]
Image(mono, size) == [mono |-> mono, size |-> size]
MCImagePairs == {Images(Image(TRUE, 2), Image(TRUE, 2)), Images(Image(TRUE, 2), Image(FALSE, 2)),
   Images(Image(TRUE, 3), Image(TRUE, 3))}

Frame(kf, stamp, detection) == [keyframe |-> kf, stamp |-> stamp, detection |-> detection]

NoSections == [section \in {} |-> <<>>]
NoKeys == [key \in {} |-> 0]
Plain == [defaults |-> NoSections, gates |-> NoKeys, select |-> NoKeys, targets |-> {3}]

Truth(time, place) == [time |-> time, place |-> place]

Bag(rig, order, sonar) ==
  [config |-> Plain, rig |-> rig, order |-> order, sonar |-> sonar, warmup |-> {"kf1"},
   dead |-> [kf0 |-> 0, kf1 |-> 1], solved |-> [kf0 |-> 2, kf1 |-> 3],
   time |-> [kf0 |-> 0, kf1 |-> 3], truth |-> <<Truth(0, 2)>>]

SonarFrames ==
  {Frame(kf, stamp, d) : kf \in {"kf0", "other"}, stamp \in {0, 2, Malformed}, d \in {Missing, <<2, 0>>}}

\* One key of one section at the edge of what is accepted, and past it.
Setting(section, key, value) == [s \in {section} |-> [k \in {key} |-> value]]
Settings ==
  {Setting("sonar_cfar", "training_cells", n) : n \in {0, 2, 3}}
    \cup {Setting("sonar_cfar", "detector_threshold", n) : n \in {-1, 255, 256}}
    \cup {Setting("sonar_cfar", "probability_false_alarm", n) : n \in {0, 99, NaN}}
    \cup {Setting("loop_closure", "min_landmarks_for_pose", n) : n \in {2, 3}}
    \cup {Setting("visual_odometry", "max_inlier_rmse_m", n) : n \in {-1, Infinity, NaN}}
    \cup {Setting("stereo_matching", key, 0) : key \in {"min_texture_variance", "min_texture"}}
    \cup {Setting("stereo_rectification", "frame_suffix", ""), Setting("estimation", "solver", "ceres")}

\* Each gate, as the defaults and the experiment may set it or leave it.
GateSettings(gate, values) ==
  {[Plain EXCEPT !.defaults = d, !.gates = e] :
     d \in {NoSections} \cup {Setting("gates", gate, v) : v \in values},
     e \in {NoKeys} \cup {[k \in {gate} |-> v] : v \in values}}

FileConfigs ==
  {[Plain EXCEPT !.defaults = d] : d \in Settings}
    \cup {[Plain EXCEPT !.targets = {2, 3}], [Plain EXCEPT !.select = [map_backend |-> "octomap"]],
          [Plain EXCEPT !.select = [solver |-> "gauss_newton_v1"],
                        !.defaults = Setting("estimation", "solver", "ceres")]}

MapGates ==
  GateSettings("require_nonempty_map", BOOLEAN)
    \cup GateSettings("min_acoustic_optic_accepted", {0, 1})
    \cup GateSettings("min_acoustic_optic_map_points", {0, 1})

TrajectoryGates ==
  GateSettings("require_converged", BOOLEAN)
    \cup GateSettings("min_matched_ate_poses", {1, 2})
    \cup GateSettings("max_ate_rmse_m", {-1, 1})

\* No truth; truth near both keyframes, near one, and off by one or two places;
\* two poses of truth as near in time as each other.
Truths == {<<>>, <<Truth(0, 3), Truth(3, 3)>>, <<Truth(1, 3), Truth(-1, 9)>>, <<Truth(0, 0)>>,
           <<Truth(9, 2)>>}

\* Every rig with every kind of sonar frame; streams of three detections; two
\* frames for one keyframe and a second keyframe, in warmup; the gates on the
\* map with a sonar frame; the other configurations with cameras that are
\* swapped, so that the images add nothing, and trajectories of two keyframes.
MCInputs ==
  {Bag(rig, <<"kf0">>, <<f>>) : rig \in Rigs \cup RefusedRigs, f \in SonarFrames}
    \cup {Bag(Parallel, <<"kf0">>, <<Frame("kf0", 0, <<a, 0>>), Frame("kf0", 2, <<b, 0>>),
                                     Frame("kf0", 2, <<c, 2>>)>>) : a, b, c \in 1 .. 4}
    \cup {Bag(Toed, <<"kf0", "kf1">>, <<Frame("kf1", 2, <<1, 0>>), Frame("kf1", 0, <<2, 0>>)>>)}
    \cup {[Bag(Parallel, <<"kf0">>, <<Frame("kf0", 0, <<2, 0>>)>>) EXCEPT !.config = c] : c \in MapGates}
    \cup {[Bag(Swapped, <<"kf0", "kf1">>, <<>>) EXCEPT !.config = c, !.truth = t] :
            t \in Truths, c \in FileConfigs \cup MapGates \cup TrajectoryGates}

MCVariance == [d \in {1, 4} |-> IF d = 1 THEN 1 ELSE 2]

\* Nothing on the arc, a sample out of the gate, outside the image, on either
\* pixel; a pixel hit twice; two pixels that tie, differ by the margin or more.
Sample(p, r) == [pixel |-> p, residual |-> r]
MCArcs ==
  {{}, {Sample(0, 3)}, {Sample(2, 0)}, {Sample(0, 1)}, {Sample(1, 2), Sample(1, 1)},
   {Sample(0, 1), Sample(1, 1)}, {Sample(0, 1), Sample(1, 2)}, {Sample(0, 2), Sample(1, 0)},
   {Sample(0, 0), Sample(1, 1), Sample(2, 0)}}
=============================================================================
