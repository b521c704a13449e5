---------------------------- MODULE ReplayGraph ----------------------------
(***************************************************************************)
(* RunReplayPipeline after the input gate: it chooses the anchor, collects  *)
(* capture times, dead-reckons keyframes into the pose graph from one of    *)
(* three sources of relative motion (IMU intervals, stereo VO, edges in the *)
(* bag), adds loop, sonar and depth residuals, checks observability, solves *)
(* and publishes one snapshot per pose.  The stages are the loops of the    *)
(* function, in their order; cursor is the loop variable of the current one.*)
(*                                                                          *)
(* Keyframe n stands for the id "kf<n>".  Poses, images and landmarks carry *)
(* no numbers: what they decide is an open choice.                          *)
(***************************************************************************)
EXTENDS PoseGraph

CONSTANTS
  Keyframes,       \* the numbers of the keyframe ids
  NoKeyframe,      \* an absent keyframe id
  Inputs,          \* what bags and experiment configurations may hold
  MaxLandmarks, MinLandmarks, MaxFailures, MaxFrames,   \* see StereoVo
  MinGap,          \* min_keyframe_index_gap
  MaxLoopEdges,    \* max_loop_edges_per_keyframe
  HistoryCapacity  \* history_capacity_ of the StateStore

Modes == {"black_box_vio", "stereo_landmark_vo", "imu_preintegration"}
Cameras == {"left", "right", "other"}
DepthEvidence == [kind : {"depth"}, source : Keyframes \cup {NoKeyframe}]
EdgeEvidence  == [kind : {"relative_pose"}, from : Keyframes, to : Keyframes]

InputRecords ==
  [mode : Modes, cameras : BOOLEAN,                  \* estimator_mode; a rig with cameras?
   images : Seq([keyframe : Keyframes, camera : Cameras]),
   spoiled : SUBSET Keyframes,                       \* pairs that cannot be rectified
   boundaries : Seq(Keyframes),
   references : Seq(Keyframes \cup {NoKeyframe}),    \* state ids of /gt/state
   evidence : Seq(DepthEvidence \cup EdgeEvidence),
   sonar : Seq(Keyframes),
   warmup : Nat,                                     \* warmup_keyframes
   loops : BOOLEAN, requireConverged : BOOLEAN]

Distinct(s) == \A i, j \in DOMAIN s : s[i] = s[j] => i = j

\* The accumulator has rejected repeated images and repeated boundaries.
ASSUME ReplayGraphAssumption ==
  /\ Keyframes \subseteq Nat /\ 0 \in Keyframes
  /\ NoKeyframe \notin Keyframes
  /\ Inputs \subseteq InputRecords
  /\ \A in \in Inputs : Distinct(in.images) /\ Distinct(in.boundaries)
  /\ MinGap \in Nat \ {0} /\ MaxLoopEdges \in Nat /\ HistoryCapacity \in Nat \ {0}
  /\ MaxLandmarks \in Nat /\ MaxFrames \in Nat
  /\ MinLandmarks \in Nat \ {0} /\ MaxFailures \in Nat \ {0}

VARIABLES
  pc,          \* the stage
  input,       \* ReplayInputData and the configuration
  cursor,      \* the loop variable of the stage
  graph,       \* problem, with evidence_by_keyframe as the owners of its blocks
  timeOf,      \* capture_time_by_keyframe: which source gave the time
  archive,     \* archive_ of the loop-closure frontend
  landmarks,   \* num_landmarks_discovered
  converged,   \* summary.converged
  trajectory,  \* the snapshots, in the order they are published
  store,       \* state_store
  exitCode,    \* what RunReplayPipeline returns, or -1
  reference, refLandmarks, failures, edges, health, outcomes  \* see StereoVo

Vo == INSTANCE StereoVo WITH NoReference <- NoKeyframe

voVars == <<reference, refLandmarks, failures, edges, health, outcomes>>
runVars == <<timeOf, archive, landmarks, converged, trajectory, store>>
vars == <<pc, input, cursor, graph, runVars, exitCode, voVars>>

-----------------------------------------------------------------------------
Imu    == input.mode = "imu_preintegration"
Stereo == input.mode = "stereo_landmark_vo" /\ input.cameras

Anchor == IF Imu THEN Head(input.boundaries) ELSE 0

Init ==
  /\ pc = "rectify"
  /\ input \in Inputs
  /\ cursor = 1
  /\ graph = EmptyGraph
  /\ timeOf = [k \in Keyframes |-> "none"]
  /\ archive = <<>>
  /\ landmarks = 0
  /\ converged = FALSE
  /\ trajectory = <<>>
  /\ store = [next |-> 1, history |-> <<>>]
  /\ exitCode = -1
  /\ Vo!Init

Fail == pc' = "exit" /\ exitCode' = 1

\* StereoRectificationContext::Create, for a rig with cameras, may fail.
Rectify ==
  /\ pc = "rectify"
  /\ \/ pc' = "anchor" /\ UNCHANGED exitCode
     \/ input.cameras /\ Fail
  /\ UNCHANGED <<input, cursor, graph, runVars, voVars>>

\* The IMU mode needs two boundaries and an initial prior; any other mode
\* anchors the id "kf0", whatever the bag holds.
ChooseAnchor ==
  /\ pc = "anchor"
  /\ \/ /\ Imu
        /\ Fail
        /\ UNCHANGED graph
     \/ /\ Imu => Len(input.boundaries) >= 2
        /\ graph' = AddKeyframe(graph, Anchor, TRUE)
        /\ pc' = "times"
        /\ UNCHANGED exitCode
  /\ UNCHANGED <<input, cursor, runVars, voVars>>

(***************************************************************************)
(* The camera partition and the capture times.                             *)
(***************************************************************************)
Seen(camera) == {f.keyframe : f \in {g \in ToSet(input.images) : g.camera = camera}}

\* ordered_camera_keyframe_ids: first-appearance order of the bag.
CameraOrder ==
  LET order[n \in 0 .. Len(input.images)] ==
        IF n = 0 THEN <<>>
        ELSE LET before == order[n - 1]  f == input.images[n] IN
             IF f.camera = "other" \/ Contains(before, f.keyframe) THEN before
             ELSE Append(before, f.keyframe)
  IN IF input.cameras THEN order[Len(input.images)] ELSE <<>>

GetRectified(k) == k \in (Seen("left") \cap Seen("right")) \ input.spoiled

\* unordered_map::emplace for the keyframes ks: the first writer wins.
Emplace(f, ks, source) ==
  [k \in Keyframes |-> IF f[k] = "none" /\ k \in ks THEN source ELSE f[k]]

Of(kind) == {e \in ToSet(input.evidence) : e.kind = kind}

CaptureTimes ==
  LET camera  == Emplace(timeOf, IF input.cameras THEN Seen("left") ELSE {}, "camera")
      truth   == Emplace(camera, ToSet(input.references), "reference")
      depth   == Emplace(truth, {e.source : e \in Of("depth")}, "depth_log")
      targets == {e.to : e \in Of("relative_pose")}
  IN IF Imu
     THEN [k \in Keyframes |-> IF Contains(input.boundaries, k) THEN "boundary" ELSE camera[k]]
     ELSE Emplace(depth, targets, "edge_log")

CollectTimes ==
  /\ pc = "times"
  /\ timeOf' = CaptureTimes
  /\ pc' = IF Imu THEN "prior" ELSE "edges"
  /\ UNCHANGED <<input, cursor, graph, archive, landmarks, converged, trajectory, store,
                 exitCode, voVars>>

(***************************************************************************)
(* The relative motion: one of three loops.                                *)
(***************************************************************************)
\* What the loop of a stage runs over.
Work(stage) ==
  CASE stage = "edges"   -> IF Imu THEN Tail(input.boundaries)
                            ELSE IF Stereo THEN CameraOrder ELSE input.evidence
    [] stage = "loops"   -> IF Stereo /\ input.loops THEN CameraOrder ELSE <<>>
    [] stage = "sonar"   -> input.sonar
    [] stage = "depth"   -> input.evidence
    [] stage = "publish" -> graph.poses

At(stage) == pc = stage /\ cursor \in DOMAIN Work(stage)
Item == Work(pc)[cursor]
Advance == cursor' = cursor + 1 /\ UNCHANGED <<pc, input, exitCode>>

\* (Variant) leaves the anchor's inertial state to the IMU edges alone.
AnchorInertial_NoPrior ==
  /\ pc = "prior"
  /\ \/ Fail /\ UNCHANGED graph
     \/ /\ graph' = AddInertialState(graph, Anchor)
        /\ pc' = "edges"
        /\ UNCHANGED exitCode
  /\ UNCHANGED <<input, cursor, runVars, voVars>>

\* The anchor's inertial state and its prior, unless the prior is unusable.
AnchorInertial ==
  /\ pc = "prior"
  /\ \/ Fail /\ UNCHANGED graph
     \/ /\ graph' = AddResidualBlock(AddInertialState(graph, Anchor), "inertial_prior",
                                     {InertialRef(Anchor)}, NoKeyframe)
        /\ pc' = "edges"
        /\ UNCHANGED exitCode
  /\ UNCHANGED <<input, cursor, runVars, voVars>>

IntervalRefs(from, to) == {PoseRef(from), InertialRef(from), PoseRef(to), InertialRef(to)}

\* A preintegrated interval: keyframe, inertial state and edge, together.
AddInterval(g, from, to) ==
  AddResidualBlock(AddInertialState(AddKeyframe(g, to, FALSE), to),
                   "imu_preintegration", IntervalRefs(from, to), to)

\* One interval between boundaries.  It is rejected when the one before it
\* was, or when its samples, its delta or its covariance are unusable.
ImuInterval ==
  /\ At("edges") /\ Imu
  /\ LET from == input.boundaries[cursor]
         to   == Item
     IN \/ UNCHANGED graph
        \/ /\ HasKeyframe(graph, from)
           /\ graph' = IF HasInertialState(graph, from)
                       THEN AddInterval(graph, from, to)
                       ELSE [graph EXCEPT !.thrown = TRUE]
  /\ Advance
  /\ UNCHANGED <<runVars, voVars>>

\* (Variant) guesses that an edge from an unknown keyframe starts at the anchor.
AddRelativePoseEdge_Guesses(g, from, to) ==
  AddResidualBlock(AddKeyframe(AddKeyframe(g, from, FALSE), to, FALSE),
                   "relative_pose", {PoseRef(from), PoseRef(to)}, to)

\* add_relative_pose_edge with dead_reckon_to: "out-of-order/unexpected input:
\* skip, don't guess".
AddRelativePoseEdge(g, from, to) ==
  IF ~HasKeyframe(g, from) THEN g
  ELSE AddResidualBlock(AddKeyframe(g, to, FALSE), "relative_pose",
                        {PoseRef(from), PoseRef(to)}, to)

\* One keyframe of the VO pass.
VoFrame ==
  /\ At("edges") /\ Stereo
  /\ \/ /\ ~GetRectified(Item)
        /\ UNCHANGED <<graph, voVars>>
     \/ /\ GetRectified(Item)
        /\ Vo!VisitKeyframe(Item)
        /\ graph' = IF edges' = edges THEN graph
                    ELSE AddRelativePoseEdge(graph, Last(edges').from, Last(edges').to)
  /\ Advance
  /\ UNCHANGED runVars

\* One evidence record of the bag pass.
BagEdge ==
  /\ At("edges") /\ ~Imu /\ ~Stereo
  /\ graph' = IF Item.kind = "relative_pose"
              THEN AddRelativePoseEdge(graph, Item.from, Item.to) ELSE graph
  /\ Advance
  /\ UNCHANGED <<runVars, voVars>>

(***************************************************************************)
(* Loop closure, sonar and depth.                                          *)
(***************************************************************************)
\* Archived keyframes far enough back to be a revisit.
Candidates == {archive[i] : i \in {j \in DOMAIN archive : Len(archive) - (j - 1) >= MinGap}}

\* add_relative_pose_edge without dead_reckon_to, for each loop that verified.
AddLoopEdges(g, loops, to) ==
  [g EXCEPT !.blocks = @ \o [i \in DOMAIN loops |->
                               [model |-> "loop_closure", refs |-> {PoseRef(loops[i]), PoseRef(to)},
                                owner |-> to]]]

\* One keyframe of the loop pass; some candidates, nearest first, verify.  One
\* that is not in the graph would add nothing.
LoopFrame ==
  /\ At("loops")
  /\ \/ /\ ~HasKeyframe(graph, Item) \/ ~GetRectified(Item)
        /\ UNCHANGED <<graph, archive>>
     \/ /\ HasKeyframe(graph, Item) /\ GetRectified(Item)
        /\ \E n \in 0 .. MaxLoopEdges :
           \E loops \in [1 .. n -> {k \in Candidates : HasKeyframe(graph, k)}] :
             /\ Distinct(loops)
             /\ graph' = AddLoopEdges(graph, loops, Item)
        /\ archive' = Append(archive, Item)
  /\ Advance
  /\ UNCHANGED <<timeOf, landmarks, converged, trajectory, store, voVars>>

InWarmup(k) == k < input.warmup

Absolute(g, model, k) == AddResidualBlock(g, model, {PoseRef(k)}, k)

\* One sonar frame: the best detection, if any, is matched to a landmark in
\* the submap or becomes a new one.
SonarFrame ==
  /\ At("sonar")
  /\ \/ UNCHANGED <<graph, landmarks>>                     \* skipped, or no detection
     \/ /\ HasKeyframe(graph, Item) /\ ~InWarmup(Item)
        /\ graph' = Absolute(graph, "sonar_range", Item)
        /\ landmarks' \in {landmarks + 1} \cup (IF landmarks > 0 THEN {landmarks} ELSE {})
  /\ Advance
  /\ UNCHANGED <<timeOf, archive, converged, trajectory, store, voVars>>

DepthRecord ==
  /\ At("depth")
  /\ graph' = IF Item.kind = "depth" /\ HasKeyframe(graph, Item.source) /\ ~InWarmup(Item.source)
              THEN Absolute(graph, "depth", Item.source) ELSE graph
  /\ Advance
  /\ UNCHANGED <<runVars, voVars>>

(***************************************************************************)
(* Solve and publish.                                                      *)
(***************************************************************************)
\* "x of y keyframe boundaries made it into the graph".
Truncated == Imu /\ pc = "edges" /\ Len(graph.poses) # Len(input.boundaries)

Following == [edges |-> "loops", loops |-> "sonar", sonar |-> "depth", depth |-> "check",
              publish |-> "gate"]

EndOfLoop ==
  /\ pc \in DOMAIN Following /\ cursor > Len(Work(pc))
  /\ \/ Truncated /\ Fail
     \/ ~Truncated /\ pc' = Following[pc] /\ UNCHANGED exitCode
  /\ cursor' = 1
  /\ UNCHANGED <<input, graph, runVars, voVars>>

CheckObservability ==
  /\ pc = "check"
  /\ \/ ~Observable(graph) /\ Fail
     \/ Observable(graph) /\ pc' = "solve" /\ UNCHANGED exitCode
  /\ UNCHANGED <<input, cursor, graph, runVars, voVars>>

\* See GaussNewton; without a free block it reports convergence.
Solve ==
  /\ pc = "solve"
  /\ converged' \in IF FreeBlocks(graph) = {} THEN {TRUE} ELSE BOOLEAN
  /\ pc' = "publish"
  /\ UNCHANGED <<input, cursor, graph, timeOf, archive, landmarks, trajectory, store,
                 exitCode, voVars>>

\* (Variant) asks the frontend for its health after the whole pass.
VoHealth_Final(k) == Vo!StatusFor(failures)

VoHealth(k) ==
  LET recorded == {i \in DOMAIN health : health[i].keyframe = k} IN
  IF recorded = {} THEN "unspecified" ELSE health[CHOOSE i \in recorded : TRUE].status

\* (Variant) passes an unspecified health on.
DecideTrackingStatus_Unspecified(voHealth) ==
  IF voHealth = "unavailable" THEN "lost"
  ELSE IF voHealth = "unspecified" THEN "unspecified"
  ELSE IF ~converged \/ voHealth = "suspect" THEN "degraded"
  ELSE "tracking"

DecideTrackingStatus(voHealth) ==
  IF Stereo /\ voHealth = "unavailable" THEN "lost"
  ELSE IF ~converged \/ (Stereo /\ voHealth = "suspect") THEN "degraded"
  ELSE "tracking"

Owned(k) == {i \in DOMAIN graph.blocks : graph.blocks[i].owner = k}

BuildStateSnapshot(k) ==
  [keyframe |-> k, time |-> timeOf[k], status |-> DecideTrackingStatus(VoHealth(k)),
   contributing |-> Owned(k)]

\* StateStore::Commit overwrites the version with its own count.
Commit(s, k) ==
  LET grown == Append(s.history, [keyframe |-> k, version |-> s.next]) IN
  [next |-> s.next + 1,
   history |-> IF Len(grown) > HistoryCapacity THEN Tail(grown) ELSE grown]

Publish ==
  /\ At("publish")
  /\ trajectory' = Append(trajectory, BuildStateSnapshot(Item))
  /\ store' = Commit(store, Item)
  /\ Advance
  /\ UNCHANGED <<graph, timeOf, archive, landmarks, converged, voVars>>

\* The outputs are written; then a failed gate turns the exit code into 2.
Gate ==
  /\ pc = "gate"
  /\ pc' = "exit"
  /\ exitCode' \in IF input.requireConverged /\ ~converged THEN {2} ELSE {0, 2}
  /\ UNCHANGED <<input, cursor, graph, runVars, voVars>>

Step ==
  \/ Rectify \/ ChooseAnchor \/ CollectTimes \/ AnchorInertial
  \/ ImuInterval \/ VoFrame \/ BagEdge \/ LoopFrame \/ SonarFrame \/ DepthRecord
  \/ EndOfLoop \/ CheckObservability \/ Solve \/ Publish \/ Gate

Done == pc = "exit" /\ UNCHANGED vars

Next == Step \/ Done

Spec == Init /\ [][Next]_vars

-----------------------------------------------------------------------------
TypeOK ==
  /\ pc \in {"rectify", "anchor", "times", "prior", "edges", "loops", "sonar", "depth",
             "check", "solve", "publish", "gate", "exit"}
  /\ input \in Inputs
  /\ cursor \in Nat
  /\ graph.poses \in Seq(Keyframes) /\ graph.inertial \in Seq(Keyframes)
  /\ graph.fixed \subseteq Keyframes
  /\ timeOf \in [Keyframes -> {"none", "camera", "boundary", "reference", "depth_log", "edge_log"}]
  /\ archive \in Seq(Keyframes)
  /\ landmarks \in Nat
  /\ converged \in BOOLEAN
  /\ exitCode \in {-1, 0, 1, 2}
  /\ reference \in Keyframes \cup {NoKeyframe}
  /\ \A s \in ToSet(trajectory) : s.status \in {"tracking", "degraded", "lost"}

Published == exitCode \in {0, 2}
PublishedIds == [i \in DOMAIN trajectory |-> trajectory[i].keyframe]

\* "Registered only now that the edge is certain to exist": no residual is
\* ever added before the states it refers to and no inertial state is read
\* before it exists, so no std::out_of_range ends the run.
NoUnknownParameter == ~graph.thrown

\* Whatever the bag and the frontends do, the graph the pipeline builds is
\* structurally observable: every free block is reached by a residual and
\* there are rows enough.  The check before Solve is a safety net that the
\* pipeline's own construction never falls into.
GraphObservable == pc = "check" => Observable(graph)

\* A trajectory published in the IMU mode is the one that was asked for: all
\* boundaries, in order, each with its inertial state and its own boundary
\* time; ground truth contributes no time.  A rejected interval fails the run
\* instead of shortening the trajectory.
ImuTrajectoryComplete ==
  Published /\ Imu =>
     /\ PublishedIds = input.boundaries
     /\ graph.inertial = input.boundaries
     /\ \A s \in ToSet(trajectory) : s.time = "boundary"

\* Each published pose but the first lists, among its contributing evidence,
\* a residual that relates it to a pose published before it: the trajectory
\* hangs together from the anchor, in publication order.
PosesExplained ==
  \A i \in 2 .. Len(trajectory) :
     \E b \in trajectory[i].contributing, j \in 1 .. i - 1 :
        Relates(graph.blocks[b], trajectory[i].keyframe, trajectory[j].keyframe)

\* The frames VO tracked, the first reference among them, from that of kf0 on.
TailFrames ==
  {j \in DOMAIN outcomes :
     /\ outcomes[j].tracked
     /\ \E i \in 1 .. j : outcomes[i].tracked /\ outcomes[i].keyframe = 0}

\* In the stereo mode the graph is kf0 followed by the keyframes VO tracked
\* after it, in that order, loops included: a keyframe VO failed on, or one
\* tracked before kf0, is left out, and when kf0 itself was never tracked,
\* everything is.
StereoGraphIsTail ==
  Stereo /\ graph.poses # <<>> =>
    /\ ToSet(graph.poses) = {0} \cup {outcomes[j].keyframe : j \in TailFrames}
    /\ \A m, n \in DOMAIN graph.poses : m < n =>
         \E i, j \in TailFrames : /\ i < j
                                 /\ graph.poses[m] = outcomes[i].keyframe
                                 /\ graph.poses[n] = outcomes[j].keyframe

IsLoop(b) == b.model = "loop_closure"

\* A loop edge relates two keyframes the archive holds at least MinGap
\* insertions apart, never a keyframe and itself or a close neighbour, and no
\* keyframe receives more than the configured number.
LoopEdgesSpan ==
  /\ \A b \in ToSet(graph.blocks) : IsLoop(b) =>
       \E i, j \in DOMAIN archive :
          /\ j - i >= MinGap
          /\ b.refs = {PoseRef(archive[i]), PoseRef(archive[j])}
          /\ b.owner = archive[j]
  /\ \A k \in Keyframes :
       Cardinality({i \in Owned(k) : IsLoop(graph.blocks[i])}) <= MaxLoopEdges

\* How many frames in a row had failed when frame j was processed.
FailuresUpTo(j) ==
  CHOOSE n \in 0 .. j :
     /\ \A i \in j - n + 1 .. j : ~outcomes[i].tracked
     /\ n = j \/ outcomes[j - n].tracked

ExpectedStatus(k) ==
  LET frames == {j \in DOMAIN outcomes : outcomes[j].keyframe = k}
      failed == IF frames = {} THEN 0 ELSE FailuresUpTo(CHOOSE j \in frames : TRUE)
  IN IF failed >= MaxFailures THEN "lost"
     ELSE IF failed > 0 \/ ~converged THEN "degraded"
     ELSE "tracking"

\* "Non-retroactive": the status published for a keyframe depends on the
\* frames up to it and on the solver, not on what VO did afterwards.
StatusOfItsOwnFrame ==
  \A s \in ToSet(trajectory) : s.status = ExpectedStatus(s.keyframe)

\* Edges, by their places in the bag, that lead from kf0 to k one after the
\* other.
Chain(places, k) ==
  LET edge(i) == input.evidence[i]
      Adjacent(i, j) == i < j /\ \A m \in places : m <= i \/ j <= m
  IN IF places = {} THEN k = 0
     ELSE /\ \A i \in places : (\A j \in places : i <= j) => edge(i).from = 0
          /\ \A i \in places : (\A j \in places : j <= i) => edge(i).to = k
          /\ \A i, j \in places : Adjacent(i, j) => edge(i).to = edge(j).from

\* In the bag mode a keyframe is in the graph exactly when edges that come
\* one after the other in the bag lead to it from kf0.
ChainTo(k) ==
  \E places \in SUBSET {i \in DOMAIN input.evidence : input.evidence[i].kind = "relative_pose"} :
    Chain(places, k)

BagPosesChained ==
  Published /\ ~Imu /\ ~Stereo =>
     \A k \in Keyframes : HasKeyframe(graph, k) <=> ChainTo(k)

\* Each published time comes from the best source the bag has for its
\* keyframe: camera, then ground truth, then the log time of a depth record,
\* then that of an edge; the epoch only when there is none.
TimesFromBestSource ==
  ~Imu => \A s \in ToSet(trajectory) :
    LET k == s.keyframe
        byCamera == input.cameras /\ k \in Seen("left")
        byTruth  == Contains(input.references, k)
        byDepth  == \E e \in Of("depth") : e.source = k
        byEdge   == \E e \in Of("relative_pose") : e.to = k
    IN s.time = CASE byCamera -> "camera"
                  [] ~byCamera /\ byTruth -> "reference"
                  [] ~byCamera /\ ~byTruth /\ byDepth -> "depth_log"
                  [] ~byCamera /\ ~byTruth /\ ~byDepth /\ byEdge -> "edge_log"
                  [] OTHER -> "none"

Count(model, k) == Cardinality({i \in Owned(k) : graph.blocks[i].model = model})

\* Depth evidence is neither lost nor doubled, wherever it stands in the bag
\* relative to the edge that brings its keyframe in; warmup keyframes get
\* none, and no more sonar factors than sonar frames.
AbsoluteFactorsExact ==
  Published => \A k \in Keyframes :
    LET fused == HasKeyframe(graph, k) /\ ~InWarmup(k)
        named == {i \in DOMAIN input.evidence :
                    input.evidence[i].kind = "depth" /\ input.evidence[i].source = k}
        heard == {i \in DOMAIN input.sonar : input.sonar[i] = k}
    IN /\ Count("depth", k) = IF fused THEN Cardinality(named) ELSE 0
       /\ Count("sonar_range", k) <= IF fused THEN Cardinality(heard) ELSE 0

\* The store holds the newest snapshots, up to its capacity, and a version is
\* the position of its snapshot in the trajectory.
StoreHoldsTail ==
  LET kept == Len(store.history) IN
  /\ kept = IF Len(trajectory) > HistoryCapacity THEN HistoryCapacity ELSE Len(trajectory)
  /\ \A i \in 1 .. kept :
       LET version == Len(trajectory) - kept + i IN
       store.history[i] = [keyframe |-> trajectory[version].keyframe, version |-> version]

\* The problem handed to Solve is well formed, however the frontends failed:
\* no residual names an unregistered state, every free block is constrained,
\* the IMU chain is whole or the run fails, and loops join distant keyframes.
GraphSound ==
  NoUnknownParameter /\ GraphObservable /\ ImuTrajectoryComplete /\ LoopEdgesSpan

\* A published pose was earned: each mode puts in the graph exactly the
\* keyframes its own chain of evidence reaches from kf0.
PosesEarned == StereoGraphIsTail /\ BagPosesChained /\ PosesExplained

\* What is published about a keyframe is that keyframe's: its status, its
\* time, its absolute factors, its place in the store.
PublishedTruly ==
  StatusOfItsOwnFrame /\ TimesFromBestSource /\ AbsoluteFactorsExact /\ StoreHoldsTail
=============================================================================
