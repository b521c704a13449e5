# uw_slam: a TLA+ model of the replay, its bags and the IMU adapter

`uw_slam` is an offline underwater acoustic-optic SLAM platform. `replay_demo` reads a recorded bag (MCAP), checks its
identities, builds a pose graph out of inertial, stereo, recorded, sonar and depth evidence, solves it once, publishes
a trajectory of state snapshots, fuses sonar and stereo into a map, and judges the run by its gates. Bags come from a
simulator adapter or a synthetic generator, and an audit program looks at them first; a Python adapter on the vehicle forwards
the readings of a serial IMU. The replay is a single-threaded batch run. What is hard in it is not interleaving but
order and partial failure: messages that come before the ones they name, a record that fails its third check, a frame on
which tracking fails, an interval that is rejected in the middle of a chain, a trial step that must be undone, a status
that must describe the frame it was computed for.

Paths below are relative to the repository root; `replay_pipeline.cpp` is `src/application/replay_pipeline.cpp`.

## 1. Inventory

| Part | State it keeps | Operations | What makes it correct | Module |
|---|---|---|---|---|
| Event source, pump, accumulator (`mcap_event_source.cpp`, `event_pump.cpp`, `replay_input_accumulator.cpp`) | accepted records, identity sets, log times, fault counters | `Run`, `PumpEvents`, one handler per payload, `Flush` | the gate accepts exactly the usable bags; each record counted once; boundaries ordered; sources resolvable | `ReplayInput` |
| Replay pipeline (`replay_pipeline.cpp`) | the graph under construction, capture times, health per keyframe, the trajectory | the stages of `RunReplayPipeline` | nothing refers to what is not there; published poses hang together; status and time belong to their keyframe | `ReplayGraph` |
| Pose graph (`pose_graph_problem.cpp`) | pose blocks, inertial blocks, residual blocks | `AddKeyframe`, `AddInertialState`, `AddResidualBlock...` | every residual refers to existing blocks | `PoseGraph` |
| Gauss-Newton solver (`gauss_newton_solver.cpp`) | parameters in the problem, damping, costs | `Solve` | what it reports is true of the parameters it leaves | `GaussNewton` |
| Stereo VO (`stereo_landmark_vo_frontend.cpp`) | reference keyframe and landmarks, failure count | `Process`, `Health` | one failure costs one edge; the chain stays one path | `StereoVo` |
| State store (`state_store.cpp`) | bounded history, next version, a mutex | `Commit`, `Latest`, `AtVersion` | the newest snapshots, versions without gaps | part of `ReplayGraph` |
| Loop closure (`loop_closure_frontend.cpp`) | archive of keyframes | `Process` | loops span the gap, their number is bounded | part of `ReplayGraph` |
| IMU preintegration and stationary initializer (`imu_preintegration_frontend.cpp`, `imu_stationary_initializer.cpp`) | failure count, last rejection; the pipeline's slice of samples | the slice, `Process`, `InitializeFromStationaryWindow` | every instant is held by the reading in effect, none is stale; no sample twice; a rejected interval is not bridged | `ImuInterval` |
| Submap manager (`submap_manager.cpp`) | map evidence, pose and staleness per keyframe | add, move, query | the nearest point is one that is there, where the pose of now puts it | `Submap` |
| Acoustic-optic synchronizer, associator, fusion, bridge (`acoustic_optic_*.cpp`, the pass in `replay_pipeline.cpp`) | the landmarks, the counters of the summary | `SynchronizeAcousticOptic`, `Associate`, fuse, bridge | a sonar return corrects one depth or none; out of time it touches nothing; the summary agrees with the map | `AcousticOptic` |
| Stereo rectification (`stereo_rectifier.cpp`) and stereo geometry | the derived rig, once per run | `Create`, `Process`, `Resolve` | a rig is rectified on one of two paths or refused | `Rectification` |
| Configuration (`config.cpp`), ATE, gates | layered files | the loaders, `ComputeAte`, `EvaluateReplayGates` | what is refused never runs; exit code 0 is earned | `RunConfig` |
| Sonar CFAR frontend (`sonar_cfar_frontend.cpp`, `cfar.cpp`, `dbscan.cpp`) | health counters, latency window, next id | `ProcessSonarFrame`, `Health` | the clusters of DBSCAN's definition; the health speaks of the last frame | `SonarFrontend` |
| Matchers, detectors and rigid fit | random generator | detection and matching | one-to-one matches | planned in part |
| HoloOcean recorder, synthetic generator, bag audit (`record_session.py`, `synth_bag_gen.cpp`, `bag_audit.cpp`) | the bag, keyframe index, random streams, statistics per topic | record a tick, generate a keyframe, audit | one identity per stereo pair; no noise depends on another stream; audit and ingress read one contract alike | `Recording` |
| WIT packet stream (Python, `adapters/wit_imu`, `protocol.py`) | byte buffer, counters | `feed`, `_drain`, `decode` | decoding does not depend on how reads cut the bytes; damage costs the damaged packets only; no byte lost track of | `PacketStream` |
| WIT time base (`timebase.py`) | samples of the fit, period, counters | `update`, `_refit` | the inferred index follows the device; stamps stay within the jitter | `UniformTimebase` |
| WIT forwarder and service loop (`forwarder.py`, `service.py`) | group under assembly, sequence, health interval | `feed`, `_make_reading`, `maybe_build_health_report`, `run` | a reading is one cycle, used once; a healthy report is true | `ImuForwarder` |
| Factor builders, sensor models, MCAP I/O | none | numeric, I/O | - | not modelled |
| Scenario matrix, tools | none | test data and scripts | - | not modelled |

**How the parts interact.** `RunReplayPipeline` calls `PumpEvents`, which lets the event source push each message into the
accumulator through a callback; the callback's answer may stop the source. After the gate everything is a plain call: the
pipeline walks the accumulated vectors, hands stereo pairs to the VO and the loop-closure frontend, turns evidence into
residual blocks of the pose graph, lets the solver write the parameter blocks in place, commits snapshots to the
store, and makes its second pass over the keyframes, which turns sonar and stereo into map evidence in the submap manager. The
configuration decides before all of it whether the run starts, and its gates, over the solver's summary, the trajectory error
and the counters of the map, give the exit code. Recorder and generator meet the replay only through the bag, which the audit
reads in file order and the ingress in log-time order. On the vehicle, the loop of `service.py` reads the port, the
forwarder pushes the bytes through the packet stream, the assembler and the time base, and the datagrams go out in the same
round. The state shared between parts of the replay is the pose graph (pipeline and solver), the capture-time and health maps
(written in one stage and read in a later one) and the frontends' own memory of earlier frames.

**Hard behaviours.** The list in `PROJECT.json` ("hazards") names each at its line: checks deferred to the end of the bag,
multi-step validation that must not leave traces, a stamp comparison over two fields, restore-on-reject in the solver,
costs that are not numbers, a reference that must survive failed frames, status that must not be retroactive, add-order in
the graph, intervals that fail in mid-chain, edges before their sources, capacity and off-by-one limits, readings held across a hole in the stream, a sonar frame out of
step with its images, clusters that depend on the order of visits, sessions that an exception or a clock cuts across; in the adapter,
reads that end anywhere, packets without a cycle number, jitter that looks like loss.

## 2. The modules

`MC*` modules hold the finite instances for TLC, `*Proofs` modules the theorems. An operator marked "(Variant)" is a
plausible wrong version of the definition after it; it is not part of the model. Substituting it must break the property it
is listed with in `PROJECT.json` ("mutants"), which shows that the property depends on that piece of code.

**`ReplayInput`.** A bag is any sequence of messages over a vocabulary `Messages`; `pc` is the position in
`PumpEvents`/`RunReplayPipeline`. `Open`, `Skip`, `Emit`, `EndOfBag` are the steps of `McapEventSource::Run`; `Emit` contains
the whole handler (`OnRaw` stands for the five raw handlers, which differ in the vector they append to and in
`allow_duplicate_identity`). `Pump` is the tail of `PumpEvents` with `Flush`; `Gate` is the early return of
`RunReplayPipeline`. `history` is a history variable: the properties compare what the accumulator decided incrementally with
what a reader of the whole bag would decide. A message keeps only what the code looks at. `Emit` is handed the log time of
the event beside it, which `OnMeasurementEvidence` stores: times may repeat. What the accumulator decides does not depend on
them, so `replay_input` gives every message the same one; `Recording` hands over those of the bag, in the reader's order.

**`GaussNewton`.** `params` is a point; `cost` and `evaluated` are a landscape chosen once: what `EvaluateAll` sums to at each
point, `NaN` and `Inf` included, and which residual blocks evaluate there. A trial step goes to any point, since where the
linear solve leads depends on numbers outside the model: whatever holds here holds for every linear solver. Costs are
integers in units of `1/CostOne`; the comparisons follow IEEE rules.

**`StereoVo`.** The frontend's members; `Process` with every early return (all are tracking failures); `VisitKeyframe` is the
body of the pipeline's loop, which records the health after each frame. Landmarks are counted, since the code only compares
their numbers; whether RANSAC finds a fit is an open choice.

**`PoseGraph`.** The graph as a value and the class's methods as operators. `thrown` records an `std::out_of_range`.
`Observable` is `CheckGraphObservability`, its loop over the residuals a recursive function (`ResidualRows`).

**`ReplayGraph`.** Composes `PoseGraph` and `StereoVo` (INSTANCE; the frontend's variables are the pipeline's). `pc` is the
stage, `cursor` the loop variable; each iteration is a step. `ChooseAnchor`, `CollectTimes`, `AnchorInertial`, `ImuInterval`,
`VoFrame`, `BagEdge`, `LoopFrame`, `SonarFrame`, `DepthRecord`, `CheckObservability`, `Solve`, `Publish`, `Gate` are the
stages in the order of the source; `EndOfLoop` leaves a loop and holds the truncation check of the IMU mode. The solver is one
step here and `GaussNewton` in detail. A graph block remembers the keyframe whose contributing evidence lists it.

**`ImuInterval`.** The IMU stages of the pipeline in full, which `ReplayGraph` keeps to their outcome: the stationary
initializer, then for every interval the slice of the sorted samples (`ImuWindow`, a set; `InOrder` sorts it), the frontend's refusals, the loop that
holds each reading until the next (`Integrate`, `GapTooLarge`), the count of samples inside and the registration of the
keyframe together with its edge. A segment of an edge names the reading that was integrated over it; the integral is left out.

**`Submap`.** Operators on a map from keyframes to evidence and pose. Poses lie on a line, which keeps what matters: points
are stored in the frame of the keyframe and placed by its pose of now.

**`Rectification`.** What `Create` asks of a rig, the identity and the general path, the rig the rectified images obey, and
`StereoGeometry::Resolve`. Angles are kept to first order.

**`RunConfig`.** What each loader accepts, the layers of gates (`Gates`), the trajectory error (`ComputeAte`, matched by time)
and `EvaluateReplayGates`.

**`AcousticOptic`.** Extends the three. `Load` is everything that can refuse a run; `SonarFrame` the pass over the
sonar frames before the solve, with landmarks in the submap manager; `Publish` moves the keyframes to their solved poses;
`TimePair` rectifies a pair, computes its depth and synchronizes it, `FusePair` associates, fuses, counts and bridges; `Finished`
is the exit code. What the matcher finds, where the projected arc runs and what the bounded search returns are open choices
within their contracts.

**`SonarFrontend`.** Frames of intensities by row and beam. `ProcessSonarFrame` is a call up to `Dbscan`: refusal, nothing, or
contacts (`Detect` is the four CFAR variants, `FirstContacts` the nearest of each beam); `Visit` and `Grow` are the outer and
inner loop of `Dbscan`, `AnswerFrame` the rest of the call, ranking included. `Status` and the shares are `Health()`.

**`Recording`.** Extends `ReplayInput` and shows where its bags come from. `RecordTick` is a round of `record_frames`, which an
exception may cut; `WritePrelude` and `GenerateKeyframe` are `synth_bag_gen`; `ScheduleBoundary` stands for a scheduler that
is not in the repository: it may repeat or leave out the keyframe id and the observation id, leave out the source, and go back
in time. `AuditMessage` is one message of a pass of `bag_audit` over the finished bag: the program makes a pass
for each topic, a pass touches the statistics of its topic only, so the model lets them run side by side in one; what a pass
needs of the end of another (the first boundary, for the pre-roll) is taken in `AuditBag`, which is the checks of `main`. After it
the ingress reads the same bag (`OpenBag`, `ReadMessage`, `FinishReplay`), message by message with the actions of `ReplayInput`.

**`PacketStream`.** The line is fixed in the initial state, as bytes: a payload may hold a header byte, and framing is about
nothing else. `Feed` is a call of `feed` up to the loop of `_drain`; `Wait`, `Reject` and `Accept` are the ways an iteration of
the loop goes. `GreedyReading` is the reference: it says, of a set of positions, that a position is in it exactly when a packet
stands there and no packet before it in the set reaches into it. What a payload means is left out.

**`UniformTimebase`.** Operators on one record. The fit is exact arithmetic on integer ticks: the period is a fraction, the
clamp and the gap threshold are the code's, and a stamp is rounded to a tick as the code rounds it to a nanosecond. The sums of
the fit are a recursive function and not an operator, so that theorems can speak of it.

**`ImuForwarder`.** The device and its line (`DeviceBurst`, not in the repository) deliver a burst of packets per cycle, late by
some jitter, some lost or damaged; `ReadFull` and `ReadTimesOut` are the two ways a read of the port returns, each with
the whole round of the loop: packets into groups, groups into stamped readings, the health check. Packets stand for bytes that
`PacketStream` has framed. A packet carries the cycle it came from so that the properties can speak of it; the code cannot see
it. `setup` fixes the line, the port and the read size for a run. A report carries, for the properties, which readings and which
device cycles it covers.

Two things of the properties need saying. The index of a reading can follow the device only over gaps that can be told from
their neighbours: the fitted period may be anywhere within 5% of the nominal one, so a gap of `k` periods `N` with jitter `J` is
counted as `k` for certain only while `2k < 19 - 40 J/N` (`Tellable`), that is up to five cycles at 1 ms of jitter and 200 Hz, and
a single cycle needs a jitter below 0.425 of a period. Longer gaps are taken on trust in the fit until the stall threshold, which
the code puts at 100 periods. `IndexFollowsDevice` is about runs of tellable gaps. And a healthy report bounds the loss among the
cycles since the report before (`HealthyMeansWhole`): at most one in a hundred, up to the cycle that the reads cut at either end
and the jitter of the two arrivals; the first report is left out, since it counts readings from before its interval.

## 3. What the runs check

| Run | Question | Size |
|---|---|---|
| `replay_input` | Does the gate accept exactly the clean bags, is every record accounted for, when does `Flush` run if the port may stop the source? | 912k states |
| `gauss_newton` | Is the summary true of the parameters left behind, and does `Solve` return? | 38k |
| `stereo_vo` | What does a failed frame cost, what does the health say? | 12k |
| `replay_graph` | Is the graph built in an order that never throws, observable, hanging together; which keyframes are published, with which status, time and factors; what does the store hold? All three sources of motion | 19k |
| `imu_interval` | Is each instant of an interval integrated with the reading in effect, each sample counted once, and nothing put in place of a rejected interval? | 52k |
| `acoustic_optic` | Which sonar return may correct which depth, does the summary agree with the map, what does a run that exits 0 guarantee, whatever the configuration? | 104k |
| `sonar_frontend` | Are the clusters those of DBSCAN's definition, does `Health()` speak of the last frame, does every frame get an answer? | 170k |
| `recording` | Do recorder, generator, audit and ingress agree on identities, boundaries and times? | 817k |
| `packet_stream` | Does the framer decode the same packets however the reads cut the line, lose no byte and no intact packet, and return? | 70k |
| `imu_forwarder` | Which packets make a reading, what does a loss cost, do index, stamp and health tell the truth? | 335k |
| `imu_mixed` | Is a reading one cycle after a lost packet? (No: finding) | violated |
| `ao_frames` | Are depths lifted through the frame they were measured in? (No: finding) | violated |

Some properties are conjunctions of named parts, which stand next to them in the modules:

| Property | Parts |
|---|---|
| `DiagnosticsExact` | `RecordsAccounted`, `FlushAfterCompletePass`, `DanglingExact` |
| `SummaryHonest` | `ReportedCostIsAtParams`, `NeverWorse`, `ConvergedIsEarned`, `StallIsHonest` |
| `ChainSurvivesFailure` | `EdgesFormPath`, `OneFailureOneEdge`, `ReferenceUsable` |
| `GraphSound` | `NoUnknownParameter`, `GraphObservable`, `ImuTrajectoryComplete`, `LoopEdgesSpan` |
| `PosesEarned` | `StereoGraphIsTail`, `BagPosesChained`, `PosesExplained` |
| `PublishedTruly` | `StatusOfItsOwnFrame`, `TimesFromBestSource`, `AbsoluteFactorsExact`, `StoreHoldsTail` |
| `NothingLost` | `BytesAccounted`, `IntactPacketsSurvive`, `FailuresCounted` |
| `CyclesWhole` | `OneCycleWhenClean`, `PacketsUsedOnce` |
| `LossesTold` | `IndexFollowsDevice`, `HealthyMeansWhole` |

**Bounds and why they suffice.**
`ReplayInput`: bags of four messages, two sensors, observations and keyframes, two stamps with
the nanosecond field running against the seconds. Every hazard needs at most three messages (two that collide and one that
depends on the outcome); the fourth puts something in between.
`GaussNewton`: three points make a start, a better and a worse one; costs 0, 2, 5, 9 lie on both sides of the tolerance and of
the scale's floor; three iterations with two retries reach a stall after progress, exhaustion and convergence.
`StereoVo`: five frames with a threshold of two allow two failed runs with a recovery between them.
`ReplayGraph`: four keyframes give loops with a gap of two and a chain with a hole in it; the store keeps two snapshots of up to
four; the input families are enumerated in `MCReplayGraph` and hold the bags the code treats specially (missing right
image, unknown camera, a pair that cannot be rectified, edges before their source, self edges, depth before and after its edge,
a first boundary that is not `kf0`).
`ImuInterval`: every stream of up to four samples over seven times, in and out of order and with times that repeat, around
two or three boundaries: a sample before, on, between and after the boundaries, and a hole longer than the gap allowed. The
streams with a second IMU put its sample at each place between those of the first. One input each for the malformed reading, the
interval that is too long, the rig without densities or priors, and the pre-rolls that turn or are not level.
`AcousticOptic`: seven rigs that are rectified in different ways or not at all and eight that must be refused; two keyframes, one
of them in warmup, and up to three sonar frames, which fill a cell of the map, miss it, and fill it again; two pixels, so that the
arc has a best and a second candidate; three depths, of which one is invalid; each configuration value at its limit and past it;
each gate set by the defaults, by the experiment, by both and by neither, with trajectories and maps on both sides of it.
`SonarFrontend`: two frames per run, so that the second may inherit something of the first, of two to seven beams and six rows;
windows that do not fit at the ends; seven contacts of which one lies beside two clusters; a latency window of one.
`Recording`: three ticks over eight sets of sensors, with the wall clock set back once and an exception at any place of a
tick; two generated keyframes behind a pre-roll; up to three boundaries at any of three times, of either keyframe
id or none, of which one may carry an observation id that is empty or not its own, or no source (`MaxSlips`).
`PacketStream`: packets of four bytes over four byte values make accidental checksums common; three packets hold a damaged
one, one it reaches into and one after them; every cut of the line into reads is taken.
`ImuForwarder`: a period of 20 ticks, a fit over four readings and a stall of six periods stand for 400 and 100; eight cycles
leave room for a lost cycle, a stall and a recovered fit, and for two health reports. `CutReads` takes seven packets of cycles
of five (one of a type nobody expects) with a time-out shorter than two cycles, so that reads end in the middle of a cycle and
at its end; up to three bursts are damaged. `CycleReads` has a tenth of a period of jitter either way: at a fifth, a fit of two
or three samples already misjudges a gap. `OneLost`, for `imu_mixed`, loses one packet on a line without jitter.
`CHECK_DEADLOCK FALSE` is used for `StereoVo`, `PacketStream`, `AcousticOptic`, `SonarFrontend` and `ImuInterval`: each stops
when its input is used up.

**Fairness.** `gauss_newton` assumes `WF_vars(Step)`, `packet_stream` `WF_vars(Drain)` and `sonar_frontend`
`WF_vars(Visit \/ Grow \/ AnswerFrame)`. `Solve`, `feed` and `Process` are each one call on one thread with no wait inside, so
they keep taking steps; whether the port delivers more, or another frame comes, is not assumed. Termination rests on a count of
every pass in the first, on a buffer that shrinks in the second, and in the third on a queue that a point enters at most once
for each point that is expanded; a variant of each, which forgets just that, refutes it.

**Findings.**
1. `imu_mixed`. The assembler of the IMU adapter discards a group only when a type repeats (`forwarder.py:127`). When the first
   packet of a cycle is lost, the other three are completed by the acceleration of the next cycle, and so on: no type ever
   repeats, every later reading is put together from two cycles, and `cycles_incomplete` stays 0. Only the
   loss of the packet a group begins with moves where groups begin, by one type each time, so further losses hardly repair it.
2. `ao_frames`. Stereo depth is measured in the rectified camera, and `StereoDepthFrontend` is told so
   (`replay_pipeline.cpp:1342`), but the parameters of the association and of the bridge keep the name of the raw camera
   (`replay_pipeline.cpp:1350`). On the general rectification path the two frames are turned against each other, so the arc is
   looked for in the wrong place and points enter the map through the wrong rotation.

**Disagreements with no run of their own**, met while modelling:

- `EvaluateAll` skips a residual block whose `Evaluate` refuses (`gauss_newton_solver.cpp:66`), although the header promises
  the total cost over every block: the cost can drop because a residual left the sum, and the step is accepted.
- A keyframe VO fails on never enters the graph, so a run of failures shows in no published snapshot
  (`replay_pipeline.cpp:1276`), although the design asks for an explicit LOST state.
- The VO pass follows the order in which images first appear in the bag (`:1019`); the comment above it says `kf0..kfN`.
- The slice of samples an interval gets starts one sample early (`:859`); with a second IMU in the bag that sample may be the
  other's, and what is held at the start of the interval is then not what the whole stream would give. `SliceIsEnough` is stated for bags of one IMU.
- A trajectory error that is not a number passes the `>` of the ATE gate (`:325`).
- `warmup_seconds` is cast to `int` unchecked (`:494`); `config.hpp:125` says warmup keyframes stay out of the graph, while
  the code keeps them and skips only their map evidence.
- A rig with its cameras swapped has a negative baseline; every pair then yields no evidence, and nothing says so (`:450`).
- A sonar frame refused at the boundary counts as one within the valid domain: only frames without detections are subtracted
  (`sonar_cfar_frontend.cpp:345`).
- `bag_audit` says of the cameras that the pair "is checked whenever either side is present" (`bag_audit.cpp:65`) and that "a
  stereo bag with one side missing is a broken recording" (`:323`; also `:15`), but tests both checks for both sides present (`:334`,
  `:352`): a bag with one camera side passes. `AuditJudgesSession` speaks of the pair only where both sides were recorded.
- `bag_audit_checks.hpp:94` says of the id checks "this is how a bag is checked for the same defect before replay". `bag_audit`
  never reads the observation id of a boundary, for which the ingress refuses the bag when it is empty or repeated
  (`replay_input_accumulator.cpp:104`); the other way round, an empty `source` is a fault to the audit only (`bag_audit_checks.cpp:80`,
  `bag_audit.cpp:398`). `AuditAgreesOnBoundaries` says where the two agree and names what only the ingress reads
  (`ObservationsApart`).
- The HoloOcean driver takes receive times from the wall clock (`holoocean_driver.py:230`), by design; when that clock is set back
  during a session the audit finds a time fault in a bag whose capture times are in order.
- Every packet of a read has the time the read returned (`forwarder.py:202`), and the service reads 256 bytes at a time, almost
  six cycles: on a clean line at 200 Hz the time base takes what follows for lost cycles.
- `receive_time_s` is the arrival of the read that completed a cycle, not of its first packet (`forwarder.py:221` against
  `:82-84`); `checksum_failures` counts since the start, so one bad packet makes every later report suspect (`:297`); a partly
  lost cycle is counted as incomplete and again as missing (`:285`); the first health report counts readings from before its
  interval (`:265`); jitter of 0.24 of a period can invent a missing cycle while the fit is young (`timebase.py:149`).

## 4. What is proved

TLAPS proves the following for every value of the constants, from the assumptions named in the modules.

`RecordingProofs` proves of the ingress and of the bags it is given. Of the ingress alone (from `ReplayInputAssumption`):
`TypeCorrect`, `BoundariesOrdered`, `FlushedOnce`,
`DanglingCorrect`, `AcceptedCorrect`, `DiagnosticsCorrect`, `GateCorrect`. The invariant `IInv` is a conjunction. `SetsMatchData` says the
identity sets are exactly what the stored records carry: without it `Flush`, which looks at sets only, could not be related to
the data. The order part strengthens `BoundaryOrder` with the fact that the seen keyframe ids are those of the stored boundaries.
`StageInv` ties the stage to the status, the number of flushes and the
verdict. The counts (`Filed`, `HandledAccounted`) say that records stored and faults counted add up to the messages handled,
through a case for each handler. The step from the comparison of two stamp fields to an order of times is a lemma about
integers: it needs nanos below a second, which is the assumption on stamps. `GateCorrect` adds that, as long as no record was
faulty, sets and stored records mirror the whole history (`GateInv`); a fault makes the history unclean and both stay so. What
is left is `Flush` after a clean pass, which sees exactly the sources of the history.
Every step is proved for messages of any kind (`IngressStep`), not for those of the constant `Messages` only, so that the same
lemmas serve the next paragraph.

Of recorded bags (from `RecordingAssumption`, which says the targets are finitely many, `NoId` is no written identity and the
pre-roll takes some time, as the constant of the generator does, and
`VocabularyAssumption`, which says the names the producers write are among those the ingress is checked with): `KeyframesPaired`,
`NoisePositional`, `OrphansRefused`, `RecordedBagsJudged`, `TimesAligned`. What a tick or a keyframe writes is a *listing*: one message of each
topic of a set, and any number of pings (`Part`, `TickShape`, `KeyframeShape`); an exception leaves a prefix of one.
- `PairsInv`: each keyframe so far stands in the bag as one pair with its companions; a new listing has ids no older message has.
- `NoiseInv`: each stream has given exactly what the messages in the bag took from it; the noise of the k-th ping is then counted
  by the pings before it, also across a concatenation (`SonarJoined`).
- `OrphansRefused` takes four. `WordInv`: every name is in the vocabulary, so that an event is a record the ingress is specified
  for (`EventShape`). `RunInv`: the ids written so far are those of earlier rounds, and the boundaries lie before the next
  keyframe. `ProducedInv`: identities are distinct per sensor, pings apart, boundaries are apart in keyframe and time, and a depth
  reading's source is in the bag exactly when its round wrote for a sensor. `ReadInv`: the order is a permutation sorted by log
  time (`OrderReadsAll`, from a bijection of a finite set), and the history is what was read of the bag, no more and no less;
  with distinct identities each record read next is clean (`NextIsClean`). `GateCorrect`'s invariant does the rest.
- `TimesAligned`: the log times stored beside the evidence are those of the evidence messages, in the reader's order, none left
  out. `TimesInv` carries a function from evidence to messages (`Dated`); times do not go back because the reader's order is by
  log time, and several records may share one.
- A step of `RecordingSpec` is a step of the ingress or leaves it alone (`RecordingIsIngress`), so what was proved of the ingress
  holds of the whole way, a bag of the external scheduler included.

Of the audit: `SessionsJudged` and `BoundariesAgreed`.
- `StatsInv`: the statistics of a topic say of the messages read so far, as a set of positions, what a reader of all of them would
  say (`Summed`, `Listed`): how many, whether one is stamped, whether any two of them stand in the wrong order, although the code
  only ever looks at the one before. It is inductive because the statistics also keep the last message read; the report is then
  about the whole bag.
- `RoundsInv`: a recorded bag can be cut into the rounds that wrote it. There is a function from positions to rounds that never
  goes back, gives each round one message of each of its topics (pings apart), and whose messages carry the times of their round
  (`Traced`). It is kept by concatenation (`TracedRound`), also with a prefix of a tick.
- `ClockInv`: rounds are later and later; only the first may be at time zero, and only a round at time zero may be received at
  zero (the model starts the wall clock high enough for every step back).
- `SessionsJudged` is what the three say together. Two messages of a topic are of two rounds, so their capture times grow
  (`TimesRise`) and only the wall clock can break the order (`TimeJudged`); equally many messages are equally many rounds
  (`TopicCounted`, a bijection); a required topic is missing
  when no round wrote it (`TopicRounds`); a pose or depth reading with a keyframe's id has a left image of its round (`KeyedBesideLeft`); the
  first boundary is the first round's, at the end of the pre-roll (`PreRollAtRest`, for more than one keyframe, since a vehicle with
  one never moves; it is where `PreRoll` must be positive: a boundary at time zero is what the audit calls unpopulated).
- `BoundariesAgreed`: with every message a boundary the history is the bag in the reader's order (`SchedulerInv`), and both the audit
  (`AuditInTurn`, from `StatsInv`) and the gate (`GateInTurn`, from `GateCorrect`'s invariant) come down to the same `InTurn`: no
  keyframe id empty, no two equal, all times increasing. The gate comes down to `ObservationsApart` besides.

`GaussNewtonProofs` (from `GaussNewtonAssumption`): `TypeCorrect`, `ReportedCostCorrect`, `NeverWorseCorrect`,
`ConvergedCorrect`, `StallCorrect`, and `SummaryCorrect` which joins them. The invariant relates, at every `pc`, `current` to the
cost at the parameters or at the backup, `costLin` to the linearization point, and the linearization point to the start: while a
trial is applied, the properties are false of `params` and true of `backup`.

`StereoVoProofs` (from `StereoVoAssumption`): `TypeCorrect`, `ChainUnbroken`, `ReferenceAlwaysUsable`, `HealthIsHonest`,
`ChainSurvives`. The health needs the strengthening that `failures` is the length of the failed run that ends at the last frame;
the last theorem adds that the edges are those from each tracked frame to the next one tracked, and none else.

`WitImuProofs` proves of both halves of the adapter, framer and forwarder; it extends their two modules, which is why the framer's
are called `StreamInit`, `StreamNext`, `StreamSpec` and `StreamTypeOK`.

Of the framer (from `PacketStreamAssumption`, and for the last theorem `LinesAssumption`: an undamaged packet arrived as it
was sent, and packets do not overlap): `FramerTypeCorrect`, `BytesNeverLost`, `OneGreedyReading`, `GreedyCorrect`, `NothingLostCorrect`,
for lines and packets of any length, any damage and any cuts. `StreamInv` says position by position that the buffer is the end of what
was fed (`EndOfFed`) and that the counts add up (`CountsAddUp`). The three ways an iteration ends drop a beginning of the buffer,
which one lemma (`DropInvariant`) treats for all of them; that the first header of a buffer exists is well-foundedness of the
naturals (`LeastElement`). `GreedyInv` adds `Judged`: every position before the buffer has been judged as a greedy reader judges
it, no header among them waits for bytes, and the candidates rejected so far are as many as the counter says. It has to speak of
positions judged and not of positions fed, because in the middle of a drain the two differ. `OneGreedyReading` is the point of the
reference: two greedy readings of the same bytes are equal (at the first position where they differ the packets before are the
same), so `GreedyCorrect` says that what is decoded does not depend on how the reads cut the line.

Of the forwarder (from `ImuForwarderAssumption`: acceleration and gyro are expected, there are finitely many types, a burst has
each type once and every expected one, and its delays are a finite set that is not empty, so that the jitter is a number; and from
`UniformTimebaseAssumption`): `ForwarderTypeCorrect`, `CyclesWholeCorrect`, `LossCostsOneReadingCorrect`, `LossesToldCorrect`, for any
burst order, delays, read size, time-out, window, thresholds and pattern of loss. The code sees no cycle numbers, so what has to be invariant speaks of the
order in which the device sends (`Before`). `Grouped` relates the readings, the group under assembly and the packets still on
the wire: all of the group is sent before all of the wire, and the readings before both, type by type (`GroupTrue`,
`ReadingsTrue`); every packet sent is damaged, on the wire, in the group or *over*, that is, sent before everything still held
(`SlotsKnown`); and each cycle is paid for by a reading, the group, a packet on the wire or a damaged one (`CostsCovered`). The bill
is kept per packet type, because after a loss the types of a group are of different cycles: a damaged packet of the type at hand is
charged at once, one of another type only when it is over. When a type repeats and the group is dropped, some other type was damaged in
between (`RepeatMeansLoss`) and becomes chargeable with this very packet, which pays for the readings lost. `PacketKeeps` goes
through the four ways a packet is taken (skipped, joins, restarts, completes), `ChunkKeeps` through a read, packet by packet,
and `BurstKeeps` through what the device adds.

`LossesToldCorrect` joins `HealthyMeansWholeCorrect` and `IndexFollowsDeviceCorrect`; each has an invariant on top of the one above.
- `HealthInv`: the Pi's clock keeps step with the device (`OnTime`: no earlier than the last cycle's least delay, no later than the
  next one's greatest), a read in progress has not passed its deadline, `sinceHealth` is the number of readings since the newest
  report, and that report was made before the next cycle could be late. The elapsed time of an interval is then at least that of
  the cycles it covers, all but one and the jitter, and the threshold of 99% bounds the readings (`HealthyArithmetic`). A
  time-out moves the clock to the deadline by itself; that it only happens when the next burst may come later keeps `OnTime`.
- `CycleInv`: when reads are cycles, the group is empty between reads, the port holds nothing or one whole burst that arrived just
  now, and the time base has counted all the readings so far (`Counted`): its newest sample is the newest reading's, and neighbours in
  one epoch are apart by the gap between them if it is tellable. Of the least-squares fit only one thing is used, that the clamp
  keeps the period within 5% of the nominal one whatever the sums are (`FitIsClamped`); with it and Python's `round`
  (`RoundedIs`) a tellable gap is counted right (`GapCounted`). That a burst read whole is one reading of one cycle goes
  through the packets one by one (`CycleRead`), and that the cycles of readings grow is what `ReadingsTrue` proves above.

`ImuIntervalProofs` (from `ImuIntervalAssumption`, which types the samples and says that boundaries increase): `NoIntervalBridged`,
`TypeCorrect`, `NoStaleReadingCorrect`, `SliceIsEnoughCorrect`, `SamplesCountedOnceCorrect`: every property of the run, for any
samples in any order. That boundaries increase strictly is an assumption on the input here, and what `BoundariesOrdered` proves of the ingress.

- `IInv`: the graph is a beginning of the boundaries (`Prefix`), its edges are those between neighbours (`Chained`), and at each
  stage it ends where the interval at hand starts (`Abreast`), which is what an interval that is rejected destroys for all the later ones.
- `JInv` looks into the interval at hand. While a reading is held, the readings are the sensor's samples of the slice in order of
  time (`Lists`), the cursor splits them at the start of the segment (`CursorAt`), and the segments so far run end to end from the
  start of the interval to there, each of them fresh and with the reading in effect (`Pieces`). A sort is a listing by rank, so
  `InOrderLists` shows ranks to be a bijection. `HeldInEffect` is where the slice matters: what is held is compared with the whole
  stream, and behind the start of the interval the slice has only one sample, which of a bag with one IMU is the right one
  (`SliceFacts`). `CountIsWithin` says that the frontend counts the samples after the start and up to the end, `WithinAdds` that
  neighbouring intervals share none, and the sum over the edges is shown to exist and followed edge by edge (`EdgeCountsSum`).

`AcousticOpticProofs` (from `RunConfigAssumption`, `AcousticOpticAssumption` and `InputsAssumption`: keyframe ids are distinct and
none is the map's own name, places and times are integers, a rig's cameras are among the sensors it lists, gates carry values of
their kind): `SonarImprovesOnly`, `DesyncedIsOptical`, `LandmarksStayApart`, `TallyIsMap`, `TypeCorrect`, `RigTimesItsSensors`,
`GreenIsEarned`. Each rests on an invariant of its own, and each later one on those before it.

- `IInv` says of every fusion so far that it was in step and improved at most one pixel, and of the pair that waits to be fused that
  its status tells the truth about its three times (`PairTimed`). The spread of the times picks its extremes with `CHOOSE`; a lemma
  on sets of three integers (`SpreadBounds`) shows that they bound every difference. `FusionImproves` goes through the gates of
  the fusion one by one.
- `MapInv`: a detection becomes a landmark only when the nearest-point query finds nothing within the gate; that the query answers
  with the least distance, and that a finite set has one, is where the work is. Every landmark appended is then further off than
  the gate from those before it, and neither `Publish` nor `FusePair` touches the landmarks' entry.
- `TallyInv`: the pairs fused so far are distinct keyframes, so no entry of the submap is counted twice.
- `RunTyped` remembers what `Load` established: an online sensor of a rig that was loaded turns every stamp into a time
  (`OnlineIsTimed`), so an untimed pair has a malformed header, or sonar that the rig does not have.
- `CorrectedInv` counts the pixels that sonar corrected, over all fusions, and `GreenInv` puts it against the gates of a finished
  run. The trajectory error is the root of a sum of squares over the poses that match in time; that each square is at most the sum
  is an induction over the poses, done by a least counterexample.

`SonarFrontendProofs` (from `SonarFrontendAssumption`: rows and beams of equal lengths, positive radius, counts and gate):
`DbscanCorrect`, `HealthCorrect`, `SonarTypes`. The first part is about any finite graph of contacts. `Grown` says of labels and
work list that a cluster's core points are connected, that each neighbour of a core point with a label has one too or, in the
cluster being grown, waits in the list (and a core point among those neighbours has the same label), that whoever has a label or
waits lies next to a core point of that cluster, and that noise is never a core point. Every pass of either loop keeps it, and
with an empty list and nobody left unvisited it is the definition of DBSCAN (`GrownIsDbscan`).
The second part shows that the contacts are such a graph and that `InOrder` lists each neighbour (`InOrderLists`, through
ranks); `RankingFacts` that the ranking has each cluster once. The health needs the frame that is being clustered in its sum.

`ReplayGraphProofs` (from `ReplayGraphAssumption`, which types the bags and says that an accepted bag repeats no image and no
boundary): `TypeCorrect`, `GraphSoundCorrect`, `PosesEarnedCorrect`, `PublishedTrulyCorrect`: every property of the run, for bags of
any length, any number of keyframes and any choices of the frontends; and `PipelineRunsFrontend`, the refinement. The pipeline is a long sequence of loops over one graph, and
the invariant is built in layers, each of which says of every stage what the stages before it left behind:

- `Basic` types the state and ties cursor and exit code to the stage. `VoPlace` takes the invariant of `StereoVoProofs` over by
  INSTANCE and adds that the frames seen are those of the order before the cursor, so that no frame is visited twice: the
  assumption under which the frontend's lemmas were proved.
- `BuildInv` is `Sound(graph)` (nothing thrown, observable, each pose but the first explained by a residual to an earlier one), and
  the graph each stage starts from. `Observable` compares a sum over residuals with a count of parameters, so it is shown to be kept
  by operation: an edge brings six rows for the six it adds, an interval fifteen for fifteen (`GrowsObservable`, `RowsGrow`). In the
  IMU mode the poses are the first boundaries, each with its inertial state (`ImuChain`); leaving the loop with fewer fails the run.
- `TimeInv` (capture times), `PublishInv` (the i-th snapshot tells of the i-th pose what the settled graph, times and health say of
  it) and `StoreInv` (the store and the tail of the trajectory).
- `LoopInv`: the archive holds keyframes of the order before the cursor, each once, so the loops of a keyframe are all added in the
  step that archives it; this is what bounds them.
- `SeenOnce` and `FactorInv`: the status of a keyframe comes from the one frame that is its own, and depth and sonar factors are as
  many as the records of the bag up to the cursor.
- `BagInv`: the poses are exactly what chains of the edges up to the cursor reach (`ChainLast`: a chain that ends with a given
  edge is one to where the edge starts). `TailInv`: the poses are `kf0` and the frames tracked from its own on, in order; the
  reference is in the graph exactly when the frame of `kf0` was tracked (`ReferenceHung`), which decides whether an edge that VO
  emits enters the graph.
- `PipelineRunsFrontend`: a run of the pipeline is, in the frontend's variables, a run of `StereoVo`, so what is proved about the
  frontend alone holds inside the pipeline. A step of the VO pass is `VisitKeyframe` of a keyframe not seen before, every other
  step leaves the frontend alone (`StepRefinesVo`). `StereoVo` bounds the frames of a pass by `MaxFrames`, which the code does not;
  hence the hypothesis that no bag has more camera keyframes than that, and `FramesBehind`: the frontend has seen fewer frames than
  the pass has reached. The hypothesis is about the bound alone: for any finite set of bags some value of it satisfies it.

**Model-checked only.** `SolveReturns`, `FeedReturns` and `FrameAnswered`: liveness under fairness is beyond the prover.
`CaptureWithinJitter` of `ImuForwarder`: it is about the value of the least-squares line at the newest sample, and a fact of the run's
window of four rather than of every window. The weights of a regression evaluated at its end add up to one but not all are positive:
from about fourteen samples on an adversarial pattern of jitter can push the stamp past the jitter, up to a third more for long
windows. A bound for every window would be about sums of absolute weights, which is an induction over the window. Every other
invariant a run checks is also a theorem.

## 5. What is not modelled

Floating-point geometry, image processing and linear algebra (feature detection and matching, remapping, residuals, covariance,
the threshold factor of a false-alarm rate, the rigid fit): what they decide is an open choice wherever control depends on it.
The factor builders turn evidence into residuals number by number; their outcome, a block or none, is an open choice in
`GaussNewton` and `ReplayGraph`. File formats, parsing, printing and the run manifest. The statistics of values in the audit and
the metrics of depth, fusion and map. The option `align_ate` (`replay_pipeline.cpp:1447`), a rigid fit before the trajectory error is
taken: `GreenRunEarned` speaks of runs without it. The audit's frame tree is modelled (`FrameResolves`), but no property depends on
it. The scenes of the generator and the scenario matrix, which are test data. The registers and
configuration of the IMU device. Build, calibration and plotting scripts. `PROJECT.json` gives the reason for each component.

## 6. Plan

What is left, most important first.

1. Abstract specifications for `Submap` (a set of points) and the state store (a register with versions), with the refinements.
2. The one-to-one selection of `PatchMatcher` as an operator, against its declarative definition.
3. The time base under a clock that steps backwards.
