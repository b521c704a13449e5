----------------------------- MODULE Recording -----------------------------
(***************************************************************************)
(* Where bags come from and who reads them first.  Two producers write a   *)
(* bag: the HoloOcean recorder, one message for every sensor that          *)
(* published on a tick, and synth_bag_gen, one set of messages for every   *)
(* keyframe behind an optional stationary IMU block; a third, outside the  *)
(* repository, schedules keyframe boundaries.  bag_audit then judges the   *)
(* bag in file order, and the ingress of the replay pipeline (ReplayInput) *)
(* reads it in log-time order.                                             *)
(*                                                                         *)
(* Times are counted in ticks of a common unit; a payload is reduced to    *)
(* the draws its noise was taken from and to whether the vehicle was still.*)
(***************************************************************************)
EXTENDS ReplayInput, Integers

CONSTANTS
  TickSets,       \* the sets of sensors that may publish on one tick
  TickPeriod,     \* time between two ticks of the simulator
  MaxTicks,       \* bound: ticks of a session
  MaxClockSteps,  \* bound: how often the wall clock is stepped back
  Targets,        \* the sonar targets of the synthetic scenario
  NumKeyframes,   \* --num-keyframes
  PreRoll,        \* kImuPreRollS
  KeyframePeriod, \* kKeyframePeriodS
  ImuPeriod,      \* one over imu_noise.rate_hz
  Boundaries,     \* bound: boundaries a scheduler writes
  BoundaryTimes,  \* the capture times it may write
  MaxSlips,       \* bound: the times it gives a boundary an identity that is empty
                  \* or not its own, or leaves out the source
  Required,       \* the topics named by --require
  FrameTree       \* the edges of the rig's frame tree, as sets of two frames

RawTopics == {"left", "right", "main", "sonar", "imu", "dvl"}
StampedTopics == RawTopics \cup {"boundary"}
\* The topics whose capture times bag_audit compares, and those it counts.
TimedTopics == StampedTopics \cup {"gt"}
AuditedTopics == TimedTopics \cup {"depth"}
Topics == AuditedTopics \cup {"relpose", "targets"}
Streams == {"pose", "sonar", "landmark", "imu"}

ASSUME RecordingAssumption ==
  /\ TickSets \subseteq SUBSET (RawTopics \cup {"gt", "depth"})
  /\ {TickPeriod, NumKeyframes, PreRoll, KeyframePeriod, ImuPeriod} \subseteq Nat \ {0}
  /\ {MaxTicks, MaxClockSteps, Boundaries, MaxSlips} \subseteq Nat
  /\ BoundaryTimes \subseteq Nat
  /\ Required \subseteq Topics
  /\ IsFiniteSet(Targets)
  /\ NoId \notin {"tick", "kf", "imu", "boundary"} \X Nat

VARIABLES
  producer,       \* who writes the bag
  options,        \* the flags of synth_bag_gen
  phase,          \* "recording", "closed", "audited", "replay"
  failed,         \* did an exception end the session?
  bag,            \* the messages, in file order
  tick,           \* enumerate's index in record_frames
  receive,        \* time.time() of the last tick
  clockSteps,     \* how often the wall clock was stepped back
  keyframeIndex,  \* keyframe_index of record_frames, i of synth_bag_gen
  draws,          \* how many numbers each random stream has given
  scanned,        \* how many messages bag_audit has read
  headers,        \* its HeaderStats (for the poses StateStats), by topic
  ids,            \* the rest of its KeyframeBoundaryStats
  audit,          \* what bag_audit reports
  order,          \* the reader's log-time order of the bag
  taken           \* (history variable) what each tick or keyframe wrote

sourceVars == <<tick, receive, clockSteps, keyframeIndex, draws, taken>>
statsVars == <<scanned, headers, ids>>
recordingVars == <<producer, options, phase, failed, bag, sourceVars, statsVars, audit, order>>

-----------------------------------------------------------------------------
TickId(n)     == <<"tick", n>>
KeyframeId(n) == <<"kf", n>>

NoNoise == <<"none", 0>>
Noise(stream) == <<stream, draws[stream]>>

\* A message with a header; without one, capture and receive are not written
\* and only the log time counts.  Whether it names a source is asked of
\* boundaries only.
Message(topic, id, time, wall) ==
  [topic |-> topic, id |-> id, keyframe |-> NoId, capture |-> time, receive |-> wall,
   log |-> time, noise |-> NoNoise, motion |-> "none", sourced |-> TRUE]

\* What is written under a condition.
Only(flag, message) == IF flag THEN <<message>> ELSE <<>>

\* HeaderStats and KeyframeBoundaryStats before the first message.
NoHeader == [count |-> 0, captureEver |-> FALSE, receiveEver |-> FALSE, mixed |-> FALSE,
             captureMonotonic |-> TRUE, receiveMonotonic |-> TRUE, strictly |-> TRUE,
             first |-> 0, lastCapture |-> 0, lastReceive |-> 0]

NoIds == [empty |-> FALSE, unique |-> TRUE, sourceless |-> FALSE, ids |-> {}]

RecordingInit ==
  /\ Init
  /\ producer \in {"holoocean", "synthetic", "scheduler"}
  /\ options \in [imu : BOOLEAN, cameras : BOOLEAN, omitRelativePose : BOOLEAN,
                  omitGroundTruth : BOOLEAN, groundTruthOffset : {0, 1}]
  /\ producer # "synthetic" => options = [imu |-> FALSE, cameras |-> FALSE,
        omitRelativePose |-> FALSE, omitGroundTruth |-> FALSE, groundTruthOffset |-> 0]
  /\ phase = "recording" /\ failed = FALSE
  /\ bag = <<>>
  /\ tick = 0 /\ receive = MaxTicks + 1 /\ clockSteps = 0 /\ keyframeIndex = 0
  /\ draws = [s \in Streams |-> 0]
  /\ scanned = 0 /\ headers = [t \in TimedTopics |-> NoHeader] /\ ids = NoIds
  /\ audit = [faults |-> {}, preRoll |-> 0]
  /\ order = <<>>
  /\ taken = <<>>

(***************************************************************************)
(* The HoloOcean recorder.                                                 *)
(***************************************************************************)
FormsPair(sensors) == {"left", "right"} \subseteq sensors

\* (Variant) gives every stereo camera the keyframe identity.
CameraId_OfEveryCamera(sensors) ==
  IF {"left", "right"} \cap sensors # {} THEN KeyframeId(keyframeIndex) ELSE TickId(tick)

\* camera_observation_id, which the pose and the depth reading share.
CameraId(sensors) ==
  IF FormsPair(sensors) THEN KeyframeId(keyframeIndex) ELSE TickId(tick)

\* The messages of one tick, in the order _write_sensor_tick looks for sensors.
SensorTick(sensors, wall) ==
  LET write(topic, id) == Only(topic \in sensors, Message(topic, id, tick * TickPeriod, wall))
      camera == CameraId(sensors)
      other  == TickId(tick)
  IN  write("left", camera) \o write("main", other) \o write("right", camera)
        \o write("gt", camera) \o write("depth", camera)
        \o write("sonar", other) \o write("imu", other) \o write("dvl", other)

\* (Variant) counts a keyframe for every left image.
NextKeyframe_OnLeft(sensors) ==
  keyframeIndex + (IF "left" \in sensors THEN 1 ELSE 0)

NextKeyframe(sensors) ==
  keyframeIndex + (IF FormsPair(sensors) THEN 1 ELSE 0)

\* step() reads the wall clock, which someone may have set back.
WallClock ==
  \/ receive' = receive + 1 /\ UNCHANGED clockSteps
  \/ /\ clockSteps < MaxClockSteps
     /\ receive' = receive - 1 /\ clockSteps' = clockSteps + 1

Take(messages, time, wall) ==
  /\ bag' = bag \o messages
  /\ taken' = Append(taken, [written |-> {messages[i].topic : i \in DOMAIN messages},
                             time |-> time, receive |-> wall])

\* One round of record_frames.  A conversion may raise in the middle of the
\* tick: the messages before it are in the bag, which __exit__ closes.
RecordTick(sensors) ==
  /\ producer = "holoocean" /\ phase = "recording" /\ tick < MaxTicks
  /\ WallClock
  /\ tick' = tick + 1
  /\ LET messages == SensorTick(sensors, receive') IN
     \/ /\ Take(messages, tick * TickPeriod, receive')
        /\ keyframeIndex' = NextKeyframe(sensors)
        /\ UNCHANGED <<phase, failed>>
     \/ \E n \in 0 .. Len(messages) - 1 :
        /\ Take(SubSeq(messages, 1, n), tick * TickPeriod, receive')
        /\ phase' = "closed" /\ failed' = TRUE
        /\ UNCHANGED keyframeIndex
  /\ UNCHANGED <<producer, options, draws, statsVars, audit, order, vars>>

\* The frames are exhausted, or step() raised: writer and session are closed.
EndSession ==
  /\ producer = "holoocean" /\ phase = "recording"
  /\ phase' = "closed"
  /\ failed' \in BOOLEAN
  /\ UNCHANGED <<producer, options, bag, sourceVars, statsVars, audit, order, vars>>

(***************************************************************************)
(* synth_bag_gen.                                                          *)
(***************************************************************************)
StartTime == IF options.imu THEN PreRoll ELSE 0

\* std::llround of a over b.
Rounded(a, b) == (2 * a + b) \div (2 * b)

ImuSampleCount == Rounded(PreRoll + (NumKeyframes - 1) * KeyframePeriod, ImuPeriod)

\* Three initial biases each, then white noise and a bias step per sample.
ImuDraws(i) == 6 + 12 * i

\* What an IMU sample of time t was generated from: with one keyframe there is
\* no motion to generate.
Motion(t) == IF t <= PreRoll \/ NumKeyframes = 1 THEN "rest" ELSE "moving"

\* The IMU block, from time zero to the last keyframe: at rest up to and
\* including the sample on the first keyframe.
ImuBlock ==
  [k \in 1 .. ImuSampleCount + 1 |->
     LET t == (k - 1) * ImuPeriod IN
     [Message("imu", <<"imu", k - 1>>, t, t) EXCEPT
        !.noise = <<"imu", ImuDraws(k - 1)>>, !.motion = Motion(t)]]

\* (Variant) draws every kind of noise from one generator.
Consume_Shared(d, stream, n) == [s \in Streams |-> d[s] + n]

\* Taking n numbers from a stream of its own (MakeStreamRng).
Consume(d, stream, n) == [d EXCEPT ![stream] = @ + n]

\* BuildVisualLandmarks: three numbers for each of ten landmarks a keyframe.
LandmarkDraws == 3 * 10 * NumKeyframes

\* What the streams have given before the first keyframe.
PreludeDraws ==
  LET landmarks == IF options.cameras THEN Consume(draws, "landmark", LandmarkDraws) ELSE draws
  IN  IF options.imu THEN Consume(landmarks, "imu", ImuDraws(ImuSampleCount + 1)) ELSE landmarks

WritePrelude ==
  /\ producer = "synthetic" /\ phase = "recording" /\ bag = <<>>
  /\ bag' = <<Message("targets", NoId, 0, 0)>> \o (IF options.imu THEN ImuBlock ELSE <<>>)
  /\ draws' = PreludeDraws
  /\ UNCHANGED <<producer, options, phase, failed, tick, receive, clockSteps,
                 keyframeIndex, taken, statsVars, audit, order, vars>>

KeyframeTime == StartTime + keyframeIndex * KeyframePeriod

HasEdge == keyframeIndex > 0 /\ ~options.omitRelativePose

\* What the streams have given once the pose edge has its noise.
EdgeDraws == IF HasEdge THEN Consume(draws, "pose", 3) ELSE draws

Pings(n) ==
  [j \in 1 .. n |->
     [Message("sonar", KeyframeId(keyframeIndex), KeyframeTime, KeyframeTime) EXCEPT
        !.noise = <<"sonar", EdgeDraws["sonar"] + 2 * (j - 1)>>]]

\* The messages of one keyframe with so many targets in range.  The generator
\* moves the capture stamp of the ground truth, never its log time.
KeyframeMessages(targets) ==
  LET t  == KeyframeTime
      kf == KeyframeId(keyframeIndex)
  IN  Only(options.imu, [Message("boundary", <<"boundary", keyframeIndex>>, t, t)
                           EXCEPT !.keyframe = kf])
        \o Only(~options.omitGroundTruth,
                [Message("gt", kf, t, t) EXCEPT !.capture = t + options.groundTruthOffset])
        \o Only(HasEdge, [Message("relpose", NoId, t, t) EXCEPT !.noise = Noise("pose")])
        \o Pings(targets)
        \o Only(options.cameras, Message("left", kf, t, t))
        \o Only(options.cameras, Message("right", kf, t, t))
        \o <<Message("depth", kf, t, t)>>

\* One round of the keyframe loop; inRange are the targets within 12 m.
GenerateKeyframe(inRange) ==
  /\ producer = "synthetic" /\ phase = "recording" /\ bag # <<>>
  /\ keyframeIndex < NumKeyframes
  /\ Take(KeyframeMessages(Cardinality(inRange)), KeyframeTime, KeyframeTime)
  /\ draws' = Consume(EdgeDraws, "sonar", 2 * Cardinality(inRange))
  /\ keyframeIndex' = keyframeIndex + 1
  /\ UNCHANGED <<producer, options, phase, failed, tick, receive, clockSteps,
                 statsVars, audit, order, vars>>

CloseSynthetic ==
  /\ producer = "synthetic" /\ phase = "recording" /\ bag # <<>>
  /\ keyframeIndex = NumKeyframes
  /\ phase' = "closed"
  /\ UNCHANGED <<producer, options, failed, bag, sourceVars, statsVars, audit, order, vars>>

(***************************************************************************)
(* A keyframe scheduler outside the repository.  It may leave out what a    *)
(* boundary should carry and repeat what an earlier one carried.           *)
(***************************************************************************)
BoundaryId(n) == <<"boundary", n>>

\* Identities that are not the boundary's own, and sources left out.
Slips ==
  ({"id"} \X {i \in DOMAIN bag : bag[i].id # BoundaryId(i - 1)})
  \cup ({"source"} \X {i \in DOMAIN bag : ~bag[i].sourced})

ScheduleBoundary(keyframe, obs, sourced, time) ==
  /\ producer = "scheduler" /\ phase = "recording" /\ Len(bag) < Boundaries
  /\ obs \in {NoId} \cup {BoundaryId(n) : n \in 0 .. Len(bag)}
  /\ \E log \in {Len(bag), time} :
       bag' = Append(bag, [Message("boundary", obs, time, Len(bag) + 1)
                             EXCEPT !.keyframe = keyframe, !.log = log, !.sourced = sourced])
  /\ Cardinality(Slips') <= MaxSlips
  /\ UNCHANGED <<producer, options, phase, failed, sourceVars, statsVars, audit, order, vars>>

CloseScheduler ==
  /\ producer = "scheduler" /\ phase = "recording"
  /\ phase' = "closed"
  /\ UNCHANGED <<producer, options, failed, bag, sourceVars, statsVars, audit, order, vars>>

(***************************************************************************)
(* bag_audit reads the bag in file order, one pass per topic.  A pass only  *)
(* touches the statistics of its topic, so the passes stand side by side    *)
(* here; what needs the end of another pass is taken in AuditBag.           *)
(***************************************************************************)
OfTopic(topic) == {i \in DOMAIN bag : bag[i].topic = topic}

AccumulateHeader(stats, m) ==
  LET later == stats.count > 0 IN
  [count |-> stats.count + 1,
   mixed |-> \/ stats.mixed
             \/ m.capture = 0 /\ stats.captureEver
             \/ m.receive = 0 /\ stats.receiveEver,
   captureEver |-> stats.captureEver \/ m.capture # 0,
   receiveEver |-> stats.receiveEver \/ m.receive # 0,
   captureMonotonic |-> stats.captureMonotonic /\ (later => m.capture >= stats.lastCapture),
   receiveMonotonic |-> stats.receiveMonotonic /\ (later => m.receive >= stats.lastReceive),
   strictly |-> stats.strictly /\ (later => m.capture > stats.lastCapture),
   first |-> IF later THEN stats.first ELSE m.capture,
   lastCapture |-> m.capture, lastReceive |-> m.receive]

\* (Variant) compares a keyframe id with the previous one only.
AccumulateKeyframeIds_Adjacent(stats, m) ==
  [empty      |-> stats.empty \/ m.keyframe = NoId,
   unique     |-> stats.unique /\ m.keyframe \notin stats.ids,
   sourceless |-> stats.sourceless \/ ~m.sourced,
   ids        |-> {m.keyframe} \ {NoId}]

\* AccumulateKeyframeBoundary, beyond the header: it never looks at the
\* observation id.
AccumulateKeyframeIds(stats, m) ==
  [empty      |-> stats.empty \/ m.keyframe = NoId,
   unique     |-> stats.unique /\ m.keyframe \notin stats.ids,
   sourceless |-> stats.sourceless \/ ~m.sourced,
   ids        |-> (stats.ids \cup {m.keyframe}) \ {NoId}]

\* CollectHeaderStats, CollectStateStats and CollectKeyframeBoundaryStats: the
\* next message of the file goes to the statistics of its topic.
AuditMessage ==
  /\ phase = "closed" /\ scanned < Len(bag)
  /\ scanned' = scanned + 1
  /\ LET m == bag[scanned + 1] IN
     /\ headers' = [t \in TimedTopics |->
                      IF t = m.topic THEN AccumulateHeader(headers[t], m) ELSE headers[t]]
     /\ ids' = IF m.topic = "boundary" THEN AccumulateKeyframeIds(ids, m) ELSE ids
  /\ UNCHANGED <<producer, options, phase, failed, bag, sourceVars, audit, order, vars>>

HasStereo == headers["left"].count > 0 /\ headers["right"].count > 0

PresenceFaults ==
  {<<"missing", topic>> : topic \in {r \in Required \cap AuditedTopics : OfTopic(r) = {}}}

PairingFaults ==
  {<<"pairing", topic>> : topic \in {t \in {"left"} :
     HasStereo /\ headers["left"].count # headers["right"].count}}

IsKeyframeKeyed(m) == m.id # NoId /\ m.id[1] = "kf"

KeyframeKeyed(topic) == {i \in OfTopic(topic) : IsKeyframeKeyed(bag[i])}

KeyedFaults ==
  {<<"keyed", topic>> : topic \in {t \in {"gt", "depth"} :
      HasStereo /\ Cardinality(KeyframeKeyed(t)) > headers["left"].count}}

BoundaryFaults ==
  {fault \in {"empty", "source", "duplicate", "order"} :
     \/ fault = "empty" /\ ids.empty
     \/ fault = "source" /\ ids.sourceless
     \/ fault = "duplicate" /\ ~ids.unique
     \/ fault = "order" /\ ~headers["boundary"].strictly}

\* (Variant) asks every stream for strictly increasing capture times.
TimeFault_Strict(stats) ==
  /\ stats.count > 0
  /\ stats.mixed \/ ~stats.captureEver \/ ~stats.strictly
       \/ ~stats.receiveEver \/ ~stats.receiveMonotonic

TimeFault(stats) ==
  /\ stats.count > 0
  /\ \/ stats.mixed
     \/ ~stats.captureEver \/ ~stats.captureMonotonic
     \/ ~stats.receiveEver \/ ~stats.receiveMonotonic

\* A pose has a capture time only, and may well start at time zero.
TimeFaults ==
  {<<"time", topic>> : topic \in {t \in TimedTopics :
     IF t = "gt" THEN ~headers[t].captureMonotonic ELSE TimeFault(headers[t])}}

FrameOf(topic) ==
  CASE topic = "left" -> "camera_left_link" [] topic = "right" -> "camera_right_link"
    [] topic = "main" -> "camera_main_link" [] topic = "sonar" -> "sonar_link"
    [] topic = "imu" -> "imu_link" [] topic = "dvl" -> "dvl_link"
    [] topic = "boundary" -> "base_link"

\* The frames reached from base_link over n edges, in either direction.
Resolved[n \in Nat] ==
  IF n = 0 THEN {"base_link"}
  ELSE Resolved[n - 1] \cup UNION {edge \in FrameTree : edge \cap Resolved[n - 1] # {}}

FrameResolves(frame) == frame \in Resolved[Cardinality(FrameTree)]

FrameFaults ==
  {<<"frame", topic>> : topic \in {t \in StampedTopics : headers[t].count > 0 /\ ~FrameResolves(FrameOf(t))}}

\* The IMU samples up to the first boundary, whose time is collected before.
PreRollSamples ==
  {i \in OfTopic("imu") : /\ headers["boundary"].captureEver
                          /\ bag[i].capture <= headers["boundary"].first}

\* What the checks of main make of the statistics.
AuditReport ==
  [faults |-> PresenceFaults \cup PairingFaults \cup KeyedFaults
                \cup {<<"boundary", fault>> : fault \in BoundaryFaults}
                \cup TimeFaults \cup FrameFaults,
   preRoll |-> Cardinality(PreRollSamples)]

AuditBag ==
  /\ phase = "closed" /\ scanned = Len(bag)
  /\ audit' = AuditReport
  /\ phase' = "audited"
  /\ UNCHANGED <<producer, options, failed, bag, sourceVars, statsVars, order, vars>>

(***************************************************************************)
(* The replay reads the same bag in log-time order.                        *)
(***************************************************************************)
SensorOf(topic) ==
  CASE topic = "left" -> "camera_left" [] topic = "right" -> "camera_right"
    [] topic = "main" -> "camera_main" [] topic = "sonar" -> "sonar0"
    [] topic = "imu" -> "imu0" [] topic = "dvl" -> "dvl0"
    [] topic = "boundary" -> "keyframe_scheduler"

\* The ingress knows the names the records carry.
ASSUME VocabularyAssumption ==
  /\ {SensorOf(topic) : topic \in StampedTopics} \subseteq Sensors
  /\ \A n \in 0 .. MaxTicks - 1 : {TickId(n), KeyframeId(n)} \subseteq ObsIds
  /\ \A n \in 0 .. NumKeyframes - 1 :
       {KeyframeId(n), <<"boundary", n>>} \subseteq ObsIds /\ KeyframeId(n) \in KeyframeIds
  /\ \A n \in 0 .. ImuSampleCount : <<"imu", n>> \in ObsIds
  /\ \A n \in 0 .. Boundaries - 1 : <<"boundary", n>> \in ObsIds

Stamp(t) == [seconds |-> t \div NanosPerSecond, nanos |-> t % NanosPerSecond]

\* What the event source makes of a message.
Event(m) ==
  CASE m.topic \in {"left", "right", "main"} ->
         [kind |-> "image", sensor |-> SensorOf(m.topic), obs |-> m.id]
    [] m.topic \in {"sonar", "imu", "dvl"} ->
         [kind |-> m.topic, sensor |-> SensorOf(m.topic), obs |-> m.id]
    [] m.topic = "boundary" ->
         [kind |-> "boundary", keyframe |-> m.keyframe, time |-> Stamp(m.capture),
          sensor |-> SensorOf(m.topic), obs |-> m.id]
    [] m.topic = "depth" -> [kind |-> "evidence", sources |-> <<m.id>>]
    [] m.topic = "relpose" -> [kind |-> "evidence", sources |-> <<>>]
    [] m.topic = "gt" -> [kind |-> "reference"]
    [] m.topic = "targets" -> [kind |-> "unknown_topic"]

\* The reader hands message i over before message j.
Sooner(i, j) == bag[i].log < bag[j].log \/ (bag[i].log = bag[j].log /\ i < j)

\* The n-th message in log-time order has n - 1 messages before it.
LogTimeOrder ==
  [n \in DOMAIN bag |->
     CHOOSE i \in DOMAIN bag : Cardinality({j \in DOMAIN bag : Sooner(j, i)}) = n - 1]

OpenBag ==
  /\ phase = "audited"
  /\ Open
  /\ phase' = "replay"
  /\ order' = LogTimeOrder
  /\ UNCHANGED <<producer, options, failed, bag, sourceVars, statsVars, audit>>

ReadMessage ==
  /\ phase = "replay" /\ report.seen < Len(bag)
  /\ LET m == bag[order[report.seen + 1]] IN Skip(Event(m)) \/ Emit(Event(m), m.log)
  /\ UNCHANGED recordingVars

FinishReplay ==
  /\ phase = "replay"
  /\ \/ report.seen = Len(bag) /\ EndOfBag
     \/ Pump \/ Gate
     \/ Done
  /\ UNCHANGED recordingVars

RecordingNext ==
  \/ \E sensors \in TickSets : RecordTick(sensors)
  \/ EndSession
  \/ WritePrelude
  \/ \E inRange \in SUBSET Targets : GenerateKeyframe(inRange)
  \/ CloseSynthetic
  \/ \E keyframe \in KeyframeIds \cup {NoId}, obs \in Ids, sourced \in BOOLEAN,
        time \in BoundaryTimes : ScheduleBoundary(keyframe, obs, sourced, time)
  \/ CloseScheduler
  \/ AuditMessage
  \/ AuditBag
  \/ OpenBag
  \/ ReadMessage
  \/ FinishReplay

RecordingSpec == RecordingInit /\ [][RecordingNext]_<<recordingVars, vars>>

-----------------------------------------------------------------------------
(***************************************************************************)
(* What holds of the bags, of the audit's report and of the replay.        *)
(***************************************************************************)
Recorded == producer \in {"holoocean", "synthetic"}

Rounds(topic) == {i \in DOMAIN taken : topic \in taken[i].written}

\* A keyframe is one stereo pair and what was read with it: its images stand
\* in the bag once each, of one instant, the pose and the depth that carry its
\* id are of that instant, the ids are dense and record_frames returns their
\* number.  Only an exception in the middle of a tick leaves half a keyframe.
\* (record_session.py: _write_sensor_tick, record_frames)
KeyframesArePairs ==
  producer = "holoocean" /\ ~failed =>
     LET images == OfTopic("left") \cup OfTopic("right")
         kf(i)  == bag[i].id[1] = "kf"
     IN  /\ {bag[i].id : i \in {k \in DOMAIN bag : kf(k)}}
               = {KeyframeId(n) : n \in 0 .. keyframeIndex - 1}
         /\ \A n \in 0 .. keyframeIndex - 1 :
              LET pair == {i \in images : bag[i].id = KeyframeId(n)} IN
              /\ {bag[i].topic : i \in pair} = {"left", "right"}
              /\ Cardinality(pair) = 2
              /\ \A i \in DOMAIN bag, k \in pair :
                   bag[i].id = KeyframeId(n) => bag[i].log = bag[k].log

\* A depth reading written in a round in which nothing with a sensor's
\* identity was written.
Orphan(i) == "depth" \in taken[i].written /\ taken[i].written \cap RawTopics = {}

\* The replay takes every bag the two producers write, also one whose session
\* an exception ended, except those with an orphaned depth reading: the
\* identities the producers give never collide, and the sources they name are
\* always those of a message written in the same round.
\* (record_session.py, synth_bag_gen.cpp, ReplayInputAccumulator)
GateRefusesOrphansOnly ==
  Recorded /\ status = "completed" /\ verdict # "pending" =>
     (verdict = "accepted" <=> \A i \in DOMAIN taken : ~Orphan(i))

\* What the audit says of a recorded bag, in terms of the session: it faults
\* a stream exactly when the stream only holds time zero or the wall clock
\* was set back between two of its messages, and a pair of cameras that were
\* both recorded exactly when not equally often, lone images included; a
\* topic it was told to require and does not find is one the session never
\* wrote, and the pre-roll it measures is the time the vehicle was generated
\* at rest before it moved.  Nothing is said of a session with one camera
\* side: there the file's comments (bag_audit.cpp:64, :322) ask for a fault
\* and its messages and tests of has_stereo (:334, :352) for none.
\* (bag_audit_checks.cpp, bag_audit.cpp)
AuditJudgesSession ==
  Recorded /\ phase \in {"audited", "replay"} =>
     /\ \A topic \in StampedTopics \ (IF options.imu THEN {"imu"} ELSE {}) :
          <<"time", topic>> \in audit.faults <=>
             /\ Rounds(topic) # {}
             /\ \/ \A i \in Rounds(topic) : taken[i].time = 0
                \/ \E i, j \in Rounds(topic) : i < j /\ taken[j].receive < taken[i].receive
     /\ \A topic \in AuditedTopics \ (IF options.imu THEN {"imu"} ELSE {}) :
          <<"missing", topic>> \in audit.faults <=> topic \in Required /\ Rounds(topic) = {}
     /\ Rounds("left") # {} /\ Rounds("right") # {} =>
          (<<"pairing", "left">> \in audit.faults <=>
             Cardinality(Rounds("left")) # Cardinality(Rounds("right")))
     /\ \A fault \in audit.faults : fault[1] \notin {"keyed", "boundary"}
     /\ options.imu /\ Rounds("boundary") # {} /\ NumKeyframes > 1 =>
          audit.preRoll = Cardinality({i \in OfTopic("imu") : bag[i].motion = "rest"})

\* What ValidateRawIdentity asks of the boundaries and bag_audit does not.
ObservationsApart ==
  \A i \in DOMAIN bag : /\ bag[i].id # NoId
                        /\ \A j \in DOMAIN bag : i # j => bag[i].id # bag[j].id

\* Two readers of one contract: when the boundaries stand in the bag in the
\* order of their log times, the ingress rejects one of them exactly when the
\* audit faults their ids or their times, although the audit compares with the
\* boundary before and the ingress with the last one it accepted -- or when
\* they fail in what only the ingress reads, the observation ids.  An empty
\* source is a fault to the audit only.  "this is how a bag is checked for
\* the same defect before replay" is not true of these two defects.
\* (bag_audit_checks.hpp:88-94, ReplayInputAccumulator::OnKeyframeBoundary)
AuditAgreesOnBoundaries ==
  producer = "scheduler" /\ status = "completed" /\ verdict # "pending"
     /\ (\A i \in DOMAIN order : order[i] = i) =>
     (verdict = "refused" <=>
        \/ \E fault \in {"empty", "duplicate", "order"} : <<"boundary", fault>> \in audit.faults
        \/ ~ObservationsApart)

\* No stream of noise depends on what another consumed: the noise of a pose
\* edge depends on its keyframe only, that of an IMU sample on its index, and
\* that of a ping on the pings before it, whatever else the bag holds.
\* (synth_bag_gen.cpp: MakeStreamRng)
NoiseIsPositional ==
  producer = "synthetic" =>
     \A i \in DOMAIN bag :
        LET m == bag[i] IN
        /\ m.topic = "relpose" =>
             m.noise = <<"pose", 3 * ((m.log - StartTime) \div KeyframePeriod - 1)>>
        /\ m.topic = "imu" => m.noise = <<"imu", ImuDraws(m.id[2])>>
        /\ m.topic = "sonar" =>
             m.noise = <<"sonar", 2 * Cardinality({k \in OfTopic("sonar") : k < i})>>

\* The evidence the pipeline replays stands with the log time of the message
\* it was read from, in the reader's order, one entry per evidence message
\* read: the n-th log time is that of the n-th evidence record, also when
\* several records were logged at one time. (replay_input_accumulator.cpp:116)
LogTimesAligned ==
  \E from \in [1 .. Len(evidence) -> 1 .. report.seen] :
     /\ Len(logTimes) = Len(evidence)
     /\ \A i, j \in 1 .. Len(evidence) :
          i < j => from[i] < from[j] /\ logTimes[i] <= logTimes[j]
     /\ \A i \in 1 .. Len(evidence) :
          LET m == bag[order[from[i]]] IN evidence[i] = Event(m) /\ logTimes[i] = m.log
     /\ \A n \in 1 .. report.seen :
          bag[order[n]].topic \in {"depth", "relpose"} => \E i \in 1 .. Len(evidence) : from[i] = n
=============================================================================
