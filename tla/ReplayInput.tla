---------------------------- MODULE ReplayInput ----------------------------
(***************************************************************************)
(* The ingress of the replay pipeline: McapEventSource reads a bag message *)
(* by message, PumpEvents hands each event to ReplayInputAccumulator, which *)
(* validates identities and fills the flat ReplayInputData, and             *)
(* RunReplayPipeline refuses to go on when the diagnostics hold an error.   *)
(*                                                                          *)
(* A message is a record with a kind.  Everything the code never looks at   *)
(* (pixels, ranges, poses) is left out; identities, capture times and the   *)
(* sources an evidence record names are kept.                               *)
(***************************************************************************)
EXTENDS Naturals, Sequences, FiniteSets

CONSTANTS
  Sensors,         \* sensor ids that occur in message headers
  ObsIds,          \* the non-empty observation ids
  KeyframeIds,     \* the non-empty keyframe ids
  NoId,            \* the empty string, where an id is expected
  NanosPerSecond,  \* nanoseconds in a second (10^9 in the code)
  Messages,        \* the messages a bag may hold
  LogTimes,        \* the log times they may stand at
  MaxMessages,     \* bound: the length of the bag
  PortMayStop      \* may a handler return false?  (the accumulator's never do)

Ids == ObsIds \cup {NoId}

\* A google.protobuf-style stamp: seconds, and nanos within the second.
Stamps == [seconds : Nat, nanos : 0 .. NanosPerSecond - 1]

RawKinds == {"image", "sonar", "imu", "dvl", "vehicle"}

RawMessages      == [kind : RawKinds, sensor : Sensors, obs : Ids]
BoundaryMessages == [kind : {"boundary"}, keyframe : KeyframeIds \cup {NoId},
                     time : Stamps, sensor : Sensors, obs : Ids]
EvidenceMessages == [kind : {"evidence"}, sources : Seq(Ids)]
IgnoredKinds     == {"health", "map"}
\* The message the source counts and does not translate into an event.
SkippedKinds     == {"unknown_topic", "unparsable"}
OtherMessages    == [kind : {"reference"} \cup IgnoredKinds \cup SkippedKinds]

ASSUME ReplayInputAssumption ==
  /\ NoId \notin ObsIds \cup KeyframeIds
  /\ NanosPerSecond \in Nat \ {0}
  /\ Messages \subseteq
        RawMessages \cup BoundaryMessages \cup EvidenceMessages \cup OtherMessages
  /\ LogTimes \subseteq Nat
  /\ MaxMessages \in Nat
  /\ PortMayStop \in BOOLEAN

\* ReplayInputDiagnostics: the counters a rejected record may increment.
RecordFaults == {"empty_observation_id", "duplicate_observation",
                 "empty_keyframe_id", "duplicate_keyframe_id",
                 "non_increasing_keyframe_capture_time"}

VARIABLES
  pc,           \* "open", "read", "returned", "pumped", "exit"
  status,       \* EventSourceReport.status; kOpenFailed until Run returns
  report,       \* the other EventSourceReport counters
  raw,          \* ReplayInputData: accepted raw records, in arrival order
  boundaries,   \* ReplayInputData.keyframe_boundaries
  evidence,     \* ReplayInputData.evidence
  logTimes,     \* evidence_log_time_ns_, parallel to evidence
  references,   \* number of ReplayInputData.reference_states
  seenRaw,      \* seen_raw_identities_
  known,        \* known_observation_ids_
  seenKeyframes,\* seen_keyframe_ids_
  faults,       \* ReplayInputDiagnostics: the per-record counters
  dangling,     \* the <<evidence index, source index>> pairs Flush complained of
  flushes,      \* how often Flush has run
  verdict,      \* what RunReplayPipeline decides about the input
  history       \* (history variable) the events handed to the port so far

dataVars == <<raw, boundaries, evidence, logTimes, references>>
idVars   == <<seenRaw, known, seenKeyframes>>
vars == <<pc, status, report, dataVars, idVars, faults, dangling, flushes, verdict, history>>

-----------------------------------------------------------------------------
Init ==
  /\ pc = "open"
  /\ status = "open_failed"
  /\ report = [seen |-> 0, emitted |-> 0, unknown |-> 0, unparsed |-> 0]
  /\ raw = <<>> /\ boundaries = <<>> /\ evidence = <<>> /\ logTimes = <<>>
  /\ references = 0
  /\ seenRaw = {} /\ known = {} /\ seenKeyframes = {}
  /\ faults = [f \in RecordFaults |-> 0]
  /\ dangling = {}
  /\ flushes = 0
  /\ verdict = "pending"
  /\ history = <<>>

(***************************************************************************)
(* ReplayInputAccumulator.                                                 *)
(***************************************************************************)
\* Rejecting a record: one counter, nothing else.
Reject(fault) ==
  /\ faults' = [faults EXCEPT ![fault] = @ + 1]
  /\ UNCHANGED <<dataVars, idVars>>

Identity(m) == <<m.sensor, m.obs>>

\* The raw kinds whose handler passes allow_duplicate_identity = true.
AllowsDuplicate(kind) == kind = "sonar"

\* (Variant) forgets the sensor half of the identity key.
RawFault_IgnoresSensor(m) ==
  IF m.obs = NoId THEN "empty_observation_id"
  ELSE IF m.obs \in known /\ ~AllowsDuplicate(m.kind) THEN "duplicate_observation"
  ELSE "none"

\* Of ValidateRawIdentity: the fault it reports, or "none".
RawFault(m) ==
  IF m.obs = NoId THEN "empty_observation_id"
  ELSE IF Identity(m) \in seenRaw /\ ~AllowsDuplicate(m.kind)
  THEN "duplicate_observation"
  ELSE "none"

\* Of ValidateRawIdentity: what an accepted record leaves behind.
Register(m) ==
  /\ seenRaw' = seenRaw \cup {Identity(m)}
  /\ known' = known \cup {m.obs}

\* OnImageFrame, OnSonarFrame, OnImuSample, OnDvlSample, OnVehicleState.
OnRaw(m) ==
  /\ m.kind \in RawKinds
  /\ \/ /\ RawFault(m) # "none"
        /\ Reject(RawFault(m))
     \/ /\ RawFault(m) = "none"
        /\ Register(m)
        /\ raw' = Append(raw, m)
        /\ UNCHANGED <<boundaries, evidence, logTimes, references, seenKeyframes, faults>>

\* (Variant) accepts a boundary with the same stamp as the one before.
Earlier_OrEqual(a, b) ==
  ~ (b.seconds < a.seconds \/ (b.seconds = a.seconds /\ b.nanos < a.nanos))

\* The comparison OnKeyframeBoundary makes, negated: a is strictly earlier.
Earlier(a, b) ==
  ~ (b.seconds < a.seconds \/ (b.seconds = a.seconds /\ b.nanos <= a.nanos))

BoundaryFault(m) ==
  IF m.keyframe = NoId THEN "empty_keyframe_id"
  ELSE IF m.keyframe \in seenKeyframes THEN "duplicate_keyframe_id"
  ELSE IF Len(boundaries) > 0 /\ ~Earlier(boundaries[Len(boundaries)].time, m.time)
  THEN "non_increasing_keyframe_capture_time"
  ELSE RawFault(m)

\* (Variant) registers the identity before the keyframe checks.
OnKeyframeBoundary_RegistersFirst(m) ==
  /\ m.kind = "boundary"
  /\ \/ /\ BoundaryFault(m) # "none"
        /\ faults' = [faults EXCEPT ![BoundaryFault(m)] = @ + 1]
        /\ Register(m)
        /\ UNCHANGED <<dataVars, seenKeyframes>>
     \/ /\ BoundaryFault(m) = "none"
        /\ Register(m)
        /\ seenKeyframes' = seenKeyframes \cup {m.keyframe}
        /\ boundaries' = Append(boundaries, m)
        /\ UNCHANGED <<raw, evidence, logTimes, references, faults>>

OnKeyframeBoundary(m) ==
  /\ m.kind = "boundary"
  /\ \/ /\ BoundaryFault(m) # "none"
        /\ Reject(BoundaryFault(m))
     \/ /\ BoundaryFault(m) = "none"
        /\ Register(m)
        /\ seenKeyframes' = seenKeyframes \cup {m.keyframe}
        /\ boundaries' = Append(boundaries, m)
        /\ UNCHANGED <<raw, evidence, logTimes, references, faults>>

\* An evidence record is stored unchecked, with the log time of its event: it
\* may precede its sources.
OnMeasurementEvidence(m, log) ==
  /\ m.kind = "evidence"
  /\ evidence' = Append(evidence, m)
  /\ logTimes' = Append(logTimes, log)
  /\ UNCHANGED <<raw, boundaries, references, idVars, faults>>

OnReferenceState(m) ==
  /\ m.kind = "reference"
  /\ references' = references + 1
  /\ UNCHANGED <<raw, boundaries, evidence, logTimes, idVars, faults>>

\* OnHealthReport, OnMapEvidence.
OnIgnored(m) ==
  /\ m.kind \in IgnoredKinds
  /\ UNCHANGED <<dataVars, idVars, faults>>

\* The sources no raw record and no boundary of the whole bag carries.
DanglingSources ==
  {p \in UNION {{i} \X DOMAIN evidence[i].sources : i \in DOMAIN evidence} :
     evidence[p[1]].sources[p[2]] \notin known}

HasErrors == dangling # {} \/ \E f \in RecordFaults : faults[f] > 0

(***************************************************************************)
(* McapEventSource::Run, PumpEvents and the gate of RunReplayPipeline.     *)
(***************************************************************************)
Open ==
  /\ pc = "open"
  /\ \/ pc' = "read"
     \/ pc' = "returned"           \* reader.open failed: status stays open_failed
  /\ UNCHANGED <<status, report, dataVars, idVars, faults, dangling, flushes, verdict, history>>

\* A message with no canonical topic, a foreign schema or unparsable bytes.
Skip(m) ==
  /\ pc = "read" /\ report.seen < MaxMessages
  /\ m.kind \in SkippedKinds
  /\ report' = IF m.kind = "unknown_topic"
               THEN [report EXCEPT !.seen = @ + 1, !.unknown = @ + 1]
               ELSE [report EXCEPT !.seen = @ + 1, !.unparsed = @ + 1]
  /\ UNCHANGED <<pc, status, dataVars, idVars, faults, dangling, flushes, verdict, history>>

\* The event of a message and its log time, dispatched by PumpEvents on the
\* type of the payload.  A handler that returns false ends Run with
\* kStoppedByConsumer.
Emit(m, log) ==
  /\ pc = "read" /\ report.seen < MaxMessages
  /\ m.kind \notin SkippedKinds
  /\ report' = [report EXCEPT !.seen = @ + 1, !.emitted = @ + 1]
  /\ history' = Append(history, m)
  /\ OnRaw(m) \/ OnKeyframeBoundary(m) \/ OnMeasurementEvidence(m, log)
       \/ OnReferenceState(m) \/ OnIgnored(m)
  /\ \/ UNCHANGED <<pc, status>>
     \/ PortMayStop /\ pc' = "returned" /\ status' = "stopped_by_consumer"
  /\ UNCHANGED <<dangling, flushes, verdict>>

EndOfBag ==
  /\ pc = "read"
  /\ pc' = "returned"
  /\ status' = "completed"
  /\ UNCHANGED <<report, dataVars, idVars, faults, dangling, flushes, verdict, history>>

\* PumpEvents after Run: Flush only for a completed pass.
Pump ==
  /\ pc = "returned"
  /\ pc' = "pumped"
  /\ \/ /\ status = "completed"
        /\ dangling' = DanglingSources
        /\ flushes' = flushes + 1
     \/ /\ status # "completed"
        /\ UNCHANGED <<dangling, flushes>>
  /\ UNCHANGED <<status, report, dataVars, idVars, faults, verdict, history>>

\* RunReplayPipeline: unknown topics and parse failures only print a warning.
Gate ==
  /\ pc = "pumped"
  /\ pc' = "exit"
  /\ verdict' = IF status = "open_failed" \/ HasErrors THEN "refused" ELSE "accepted"
  /\ UNCHANGED <<status, report, dataVars, idVars, faults, dangling, flushes, history>>

Done == pc = "exit" /\ UNCHANGED vars

Next ==
  \/ Open
  \/ \E m \in Messages : Skip(m) \/ \E log \in LogTimes : Emit(m, log)
  \/ EndOfBag
  \/ Pump
  \/ Gate
  \/ Done

Spec == Init /\ [][Next]_vars

-----------------------------------------------------------------------------
(***************************************************************************)
(* What the ingress promises.  The declarative side looks only at the      *)
(* history of events, never at the accumulator's sets.                     *)
(***************************************************************************)
CarriesIdentity(m) == m.kind \in RawKinds \cup {"boundary"}

Nanos(t) == t.seconds * NanosPerSecond + t.nanos

\* Record i of h has a usable identity, given the records before it.
CleanRecord(h, i) ==
  LET m == h[i] IN
  /\ CarriesIdentity(m) =>
       /\ m.obs # NoId
       /\ AllowsDuplicate(m.kind)
            \/ \A j \in 1 .. i - 1 : CarriesIdentity(h[j]) => Identity(h[j]) # Identity(m)
  /\ m.kind = "boundary" =>
       /\ m.keyframe # NoId
       /\ \A j \in 1 .. i - 1 : h[j].kind = "boundary" =>
            /\ h[j].keyframe # m.keyframe
            /\ Nanos(h[j].time) < Nanos(m.time)

CleanRecords(h) == \A i \in 1 .. Len(h) : CleanRecord(h, i)

Observed(h, id) == \E i \in 1 .. Len(h) : CarriesIdentity(h[i]) /\ h[i].obs = id

SourcesObserved(h) ==
  \A i \in 1 .. Len(h) : h[i].kind = "evidence" =>
     \A k \in DOMAIN h[i].sources : Observed(h, h[i].sources[k])

\* An id that ends up in the accepted data, as a raw record or a boundary.
Stored(id) ==
  \/ \E i \in 1 .. Len(raw) : raw[i].obs = id
  \/ \E i \in 1 .. Len(boundaries) : boundaries[i].obs = id

TypeOK ==
  /\ pc \in {"open", "read", "returned", "pumped", "exit"}
  /\ status \in {"open_failed", "completed", "stopped_by_consumer"}
  /\ report \in [seen : Nat, emitted : Nat, unknown : Nat, unparsed : Nat]
  /\ raw \in Seq(RawMessages)
  /\ boundaries \in Seq(BoundaryMessages)
  /\ evidence \in Seq(EvidenceMessages)
  /\ logTimes \in Seq(Nat)
  /\ references \in Nat
  /\ seenRaw \in SUBSET (Sensors \X ObsIds)
  /\ known \in SUBSET ObsIds
  /\ seenKeyframes \in SUBSET KeyframeIds
  /\ faults \in [RecordFaults -> Nat]
  /\ dangling \in SUBSET (Nat \X Nat)
  /\ flushes \in Nat
  /\ verdict \in {"pending", "accepted", "refused"}
  /\ history \in Seq(RawMessages \cup BoundaryMessages \cup EvidenceMessages \cup OtherMessages)

\* RunReplayPipeline goes on with a bag exactly when every record in it has a
\* usable identity and every evidence source was observed somewhere in the
\* bag, before or after the evidence: the incremental sets and the deferred
\* Flush decide the same thing as a look at the whole bag.  The code behind
\* it: ValidateRawIdentity, OnKeyframeBoundary, Flush, HasErrors.
GateExact ==
  status = "completed" /\ verdict # "pending" =>
     (verdict = "accepted" <=> CleanRecords(history) /\ SourcesObserved(history))

\* Later stages look evidence sources up among the stored records.  Once the
\* gate has let a complete bag through, that lookup cannot miss.
AcceptedSourcesStored ==
  status = "completed" /\ verdict = "accepted" =>
     \A i \in 1 .. Len(evidence) : \A k \in DOMAIN evidence[i].sources :
        Stored(evidence[i].sources[k])

\* Flush blames a source exactly when no stored record carries it, also in a
\* bag that is refused for other reasons: a rejected record never makes its
\* id known, and a rejected duplicate never makes it unknown.
DanglingExact ==
  flushes > 0 =>
     \A i \in 1 .. Len(evidence) : \A k \in DOMAIN evidence[i].sources :
        <<i, k>> \in dangling <=> ~Stored(evidence[i].sources[k])

\* "bag order IS boundary order" (RunReplayPipeline, imu_preintegration): the
\* stored boundaries are strictly increasing in time and distinct in keyframe,
\* also when boundaries were rejected in between.
BoundaryOrder ==
  \A i, j \in 1 .. Len(boundaries) : i < j =>
     /\ Nanos(boundaries[i].time) < Nanos(boundaries[j].time)
     /\ boundaries[i].keyframe # boundaries[j].keyframe

IgnoredEvents == {i \in 1 .. Len(history) : history[i].kind \in IgnoredKinds}

RejectedRecords ==
  faults["empty_observation_id"] + faults["duplicate_observation"]
    + faults["empty_keyframe_id"] + faults["duplicate_keyframe_id"]
    + faults["non_increasing_keyframe_capture_time"]

\* "every rejected record increments exactly one counter" and nothing is
\* silently dropped: each message of the bag is skipped and counted, rejected
\* and counted, stored, or of a kind the accumulator ignores on purpose.
RecordsAccounted ==
  /\ report.seen = report.emitted + report.unknown + report.unparsed
  /\ report.emitted =
        Len(raw) + Len(boundaries) + Len(evidence) + references
          + Cardinality(IgnoredEvents) + RejectedRecords

\* PumpEvents: Flush runs after a complete pass and at no other time, however
\* the pass ended and whatever the port answered.
FlushAfterCompletePass ==
  flushes = IF status = "completed" /\ pc \in {"pumped", "exit"} THEN 1 ELSE 0

\* What the report of a bag says is what happened to its records: every
\* message is accounted for, and the sources it blames are those missing.
DiagnosticsExact == RecordsAccounted /\ FlushAfterCompletePass /\ DanglingExact
=============================================================================
