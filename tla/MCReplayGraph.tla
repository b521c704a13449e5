--------------------------- MODULE MCReplayGraph ---------------------------
(* Model-checking instance of ReplayGraph, one family of inputs per source   *)
(* of relative motion.                                                        *)
EXTENDS ReplayGraph

MCKeyframes == 0 .. 3

Quiet ==
  [mode |-> "black_box_vio", cameras |-> FALSE, images |-> <<>>, spoiled |-> {},
   boundaries |-> <<>>, references |-> <<>>, evidence |-> <<>>, sonar |-> <<>>,
   warmup |-> 0, loops |-> FALSE, requireConverged |-> TRUE]

Depth(k) == [kind |-> "depth", source |-> k]
Edge(a, b) == [kind |-> "relative_pose", from |-> a, to |-> b]

\* IMU: no boundary, one, a few, and a first boundary that is not kf0; ground
\* truth that names the boundaries; depth and sonar inside and after warmup.
MCImuInputs ==
  {[Quiet EXCEPT !.mode = "imu_preintegration", !.boundaries = b, !.references = r,
                 !.evidence = e, !.sonar = s, !.warmup = w, !.requireConverged = q] :
     b \in {<<>>, <<2>>, <<0, 1>>, <<2, 0, 1, 3>>}, r \in {<<>>, <<0, 1, NoKeyframe, 2>>},
     e \in {<<>>, <<Depth(1), Edge(0, 3), Depth(NoKeyframe)>>}, s \in {<<>>, <<1, 1, 2>>},
     w \in {0, 2}, q \in BOOLEAN}

Pair(k) == <<[keyframe |-> k, camera |-> "left"], [keyframe |-> k, camera |-> "right"]>>
OnlyLeft(k) == <<[keyframe |-> k, camera |-> "left"]>>
OnlyOther(k) == <<[keyframe |-> k, camera |-> "other"]>>

\* Stereo: complete bags in and out of order, a missing right image, a camera
\* the pipeline does not know, a pair that cannot be rectified.
MCStereoInputs ==
  {[Quiet EXCEPT !.mode = "stereo_landmark_vo", !.cameras = TRUE, !.images = i,
                 !.spoiled = x, !.loops = l, !.requireConverged = q] :
     i \in {Pair(0) \o Pair(1) \o Pair(2) \o Pair(3),
            Pair(1) \o Pair(0) \o Pair(2) \o Pair(3),
            OnlyLeft(0) \o OnlyOther(3) \o Pair(1) \o Pair(2)},
     x \in {{}, {1}}, l \in BOOLEAN, q \in BOOLEAN}

\* Bag edges: chains, an edge before its source, a branch, a self edge, a
\* second edge into a keyframe; depth before and after the edge it needs.
MCEvidence ==
  {<<Edge(0, 1), Edge(1, 2), Depth(2), Depth(0)>>,
   <<Depth(2), Edge(1, 2), Edge(0, 1), Edge(1, 3), Depth(2)>>,
   <<Edge(0, 2), Depth(1), Edge(2, 2), Edge(0, 1), Edge(1, 2), Depth(1)>>,
   <<Edge(3, 1), Depth(NoKeyframe)>>, <<>>}

MCBagInputs ==
  {[Quiet EXCEPT !.mode = m, !.cameras = c, !.images = i, !.references = r,
                 !.evidence = e, !.sonar = s, !.warmup = w] :
     m \in {"black_box_vio"}, c \in BOOLEAN, i \in {<<>>, OnlyLeft(1)},
     r \in {<<>>, <<2, NoKeyframe, 1>>}, e \in MCEvidence, s \in {<<>>, <<2, 1, 2>>}, w \in {0, 2}}
  \cup {[Quiet EXCEPT !.mode = "stereo_landmark_vo", !.evidence = e] : e \in MCEvidence}

MCInputs == MCImuInputs \cup MCStereoInputs \cup MCBagInputs
=============================================================================
