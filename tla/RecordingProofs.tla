-------------------------- MODULE RecordingProofs --------------------------
(***************************************************************************)
(* From the producers of a bag to the verdict of the gate.  The first part *)
(* is about the ingress alone, for bags of any length over any messages:   *)
(* ordered boundaries, a Flush exactly when the pass was complete, exact   *)
(* blame of dangling sources, stored sources behind an accepted input, and *)
(* a gate that accepts exactly the clean bags.  The rest is about recorded *)
(* bags: keyframes are pairs, noise is positional, log times stay aligned  *)
(* with the evidence, the gate refuses a recorded bag for its orphaned     *)
(* depth readings only, bag_audit faults what the session made it fault,   *)
(* and what the gate refuses of a scheduler's boundaries is what the audit *)
(* faults or their observation ids.                                        *)
(***************************************************************************)
EXTENDS Recording, TLAPS, SequenceTheorems, FiniteSetTheorems, FunctionTheorems

\* known_observation_ids_ and seen_keyframe_ids_ are views of the stored data.
SetsMatchData ==
  /\ \A id \in Ids : id \in known <=> Stored(id)
  /\ \A k \in KeyframeIds :
       k \in seenKeyframes <=> \E i \in 1 .. Len(boundaries) : boundaries[i].keyframe = k

DataInv == SetsMatchData /\ BoundaryOrder

\* The stages of the run, and what each leaves behind.
Reading == pc \in {"open", "read"}

StageInv ==
  /\ Reading => status = "open_failed"
  /\ ~PortMayStop => status # "stopped_by_consumer"
  /\ pc \in {"open", "read", "returned"} => flushes = 0
  /\ flushes > 0 => dangling = DanglingSources
  /\ verdict # "pending" => pc = "exit"
  /\ verdict = "accepted" => status # "open_failed" /\ ~HasErrors

IInv == TypeOK /\ DataInv /\ StageInv /\ FlushAfterCompletePass /\ RecordsAccounted

\* What a bag can hold, and a step of the ingress over any bag.
AnyMessages == RawMessages \cup BoundaryMessages \cup EvidenceMessages \cup OtherMessages

IngressStep ==
  \/ Open
  \/ \E m \in AnyMessages : Skip(m) \/ \E log \in Nat : Emit(m, log)
  \/ EndOfBag \/ Pump \/ Gate \/ Done

LEMMA NextIsIngress == Next => IngressStep
  BY ReplayInputAssumption DEF Next, IngressStep, AnyMessages

-----------------------------------------------------------------------------
\* The sequence a step of the accumulator appends to.
LEMMA Appended ==
  ASSUME NEW S, NEW s \in Seq(S), NEW e \in S
  PROVE  /\ Append(s, e) \in Seq(S)
         /\ Len(Append(s, e)) = Len(s) + 1 /\ Len(s) \in Nat
         /\ \A i \in 1 .. Len(s) : Append(s, e)[i] = s[i]
         /\ Append(s, e)[Len(s) + 1] = e
  BY AppendProperties, LenProperties

\* The kind of a message tells its fields.
LEMMA MessageKinds ==
  ASSUME NEW m \in AnyMessages
  PROVE  /\ m.kind \in RawKinds => m \in RawMessages
         /\ m.kind = "boundary" => m \in BoundaryMessages
         /\ m.kind = "evidence" => m \in EvidenceMessages
  BY DEF AnyMessages, RawKinds, RawMessages, BoundaryMessages, EvidenceMessages,
     OtherMessages, IgnoredKinds, SkippedKinds

\* The comparison in OnKeyframeBoundary is that of nanosecond counts.
LEMMA EarlierIsLess ==
  ASSUME NEW a \in Stamps, NEW b \in Stamps, Earlier(a, b)
  PROVE  Nanos(a) < Nanos(b)
<1>1. /\ a.seconds \in Nat /\ b.seconds \in Nat /\ NanosPerSecond \in Nat \ {0}
      /\ a.nanos \in 0 .. NanosPerSecond - 1 /\ b.nanos \in 0 .. NanosPerSecond - 1
  BY ReplayInputAssumption DEF Stamps
<1>2. CASE a.seconds = b.seconds
  BY <1>1, <1>2 DEF Earlier, Nanos
<1>3. CASE a.seconds < b.seconds
  <2>1. PICK d \in Nat : b.seconds = a.seconds + 1 + d
    <3>1. b.seconds - a.seconds - 1 \in Nat
      BY <1>1, <1>3
    <3> QED
      BY <3>1, <1>1
  <2>2. b.seconds * NanosPerSecond = a.seconds * NanosPerSecond + NanosPerSecond + d * NanosPerSecond
    BY <1>1, <2>1
  <2>3. d * NanosPerSecond \in Nat /\ a.seconds * NanosPerSecond \in Nat
    BY <1>1, <2>1
  <2> QED
    BY <1>1, <2>2, <2>3 DEF Nanos
<1> QED
  BY <1>1, <1>2, <1>3 DEF Earlier

LEMMA FaultKinds ==
  ASSUME NEW m
  PROVE  /\ RawFault(m) \in RecordFaults \cup {"none"}
         /\ BoundaryFault(m) \in RecordFaults \cup {"none"}
  BY DEF RawFault, BoundaryFault, RecordFaults

LEMMA InitInvariant == Init => IInv
<1> SUFFICES ASSUME Init PROVE IInv
  OBVIOUS
<1>1. TypeOK
  BY DEF Init, TypeOK, RecordFaults
<1>2. DataInv
  BY DEF Init, DataInv, SetsMatchData, Stored, BoundaryOrder
<1>3. StageInv /\ FlushAfterCompletePass
  BY DEF Init, StageInv, FlushAfterCompletePass
<1>4. RecordsAccounted
  <2>1. IgnoredEvents = {}
    BY DEF Init, IgnoredEvents
  <2> QED
    BY <2>1, FS_EmptySet DEF Init, RecordsAccounted, RejectedRecords, RecordFaults
<1> QED
  BY <1>1, <1>2, <1>3, <1>4 DEF IInv

-----------------------------------------------------------------------------
\* What the handlers of the accumulator do to the data of the run.
Handled(m) ==
  \/ OnRaw(m) \/ OnKeyframeBoundary(m) \/ (\E log \in Nat : OnMeasurementEvidence(m, log))
  \/ OnReferenceState(m) \/ OnIgnored(m)

DataTyped ==
  /\ raw \in Seq(RawMessages) /\ boundaries \in Seq(BoundaryMessages)
  /\ evidence \in Seq(EvidenceMessages) /\ logTimes \in Seq(Nat)
  /\ references \in Nat
  /\ seenRaw \in SUBSET (Sensors \X ObsIds) /\ known \in SUBSET ObsIds
  /\ seenKeyframes \in SUBSET KeyframeIds
  /\ faults \in [RecordFaults -> Nat]

LEMMA HandledTyped ==
  ASSUME TypeOK, NEW m \in AnyMessages, Handled(m)
  PROVE  DataTyped'
<1>0. DataTyped
  BY DEF TypeOK, DataTyped
<1>1. CASE OnRaw(m)
  <2>1. m \in RawMessages
    BY <1>1, MessageKinds DEF OnRaw
  <2>2. CASE RawFault(m) # "none"
    <3>1. RawFault(m) \in RecordFaults /\ Reject(RawFault(m))
      BY <1>1, <2>2, FaultKinds DEF OnRaw
    <3> QED
      BY <1>0, <3>1 DEF Reject, DataTyped, dataVars, idVars
  <2>3. CASE RawFault(m) = "none"
    <3>1. m.obs \in ObsIds /\ m.sensor \in Sensors
      BY <2>1, <2>3 DEF RawFault, RawMessages, Ids
    <3>2. raw' \in Seq(RawMessages)
      <4>1. raw' = Append(raw, m)
        BY <1>1, <2>3 DEF OnRaw
      <4> QED
        BY <1>0, <2>1, <4>1, Appended DEF DataTyped
    <3>3. seenRaw' \in SUBSET (Sensors \X ObsIds) /\ known' \in SUBSET ObsIds
      BY <1>0, <1>1, <2>3, <3>1 DEF OnRaw, Register, Identity, DataTyped
    <3> QED
      BY <1>0, <1>1, <2>3, <3>2, <3>3 DEF OnRaw, DataTyped
  <2> QED
    BY <2>2, <2>3
<1>2. CASE OnKeyframeBoundary(m)
  <2>1. m \in BoundaryMessages
    BY <1>2, MessageKinds DEF OnKeyframeBoundary
  <2>2. CASE BoundaryFault(m) # "none"
    <3>1. BoundaryFault(m) \in RecordFaults /\ Reject(BoundaryFault(m))
      BY <1>2, <2>2, FaultKinds DEF OnKeyframeBoundary
    <3> QED
      BY <1>0, <3>1 DEF Reject, DataTyped, dataVars, idVars
  <2>3. CASE BoundaryFault(m) = "none"
    <3>1. m.obs \in ObsIds /\ m.sensor \in Sensors /\ m.keyframe \in KeyframeIds
      BY <2>1, <2>3 DEF BoundaryFault, RawFault, BoundaryMessages, Ids
    <3>2. boundaries' \in Seq(BoundaryMessages)
      <4>1. boundaries' = Append(boundaries, m)
        BY <1>2, <2>3 DEF OnKeyframeBoundary
      <4> QED
        BY <1>0, <2>1, <4>1, Appended DEF DataTyped
    <3>3. /\ seenRaw' \in SUBSET (Sensors \X ObsIds) /\ known' \in SUBSET ObsIds
          /\ seenKeyframes' \in SUBSET KeyframeIds
      BY <1>0, <1>2, <2>3, <3>1 DEF OnKeyframeBoundary, Register, Identity, DataTyped
    <3> QED
      BY <1>0, <1>2, <2>3, <3>2, <3>3 DEF OnKeyframeBoundary, DataTyped
  <2> QED
    BY <2>2, <2>3
<1>3. CASE \E log \in Nat : OnMeasurementEvidence(m, log)
  <2>1. m \in EvidenceMessages
    BY <1>3, MessageKinds DEF OnMeasurementEvidence
  <2>2. evidence' \in Seq(EvidenceMessages) /\ logTimes' \in Seq(Nat)
    BY <1>0, <1>3, <2>1, Appended DEF OnMeasurementEvidence, DataTyped
  <2> QED
    BY <1>0, <1>3, <2>2 DEF OnMeasurementEvidence, DataTyped, idVars
<1>4. CASE OnReferenceState(m)
  BY <1>0, <1>4 DEF OnReferenceState, DataTyped, idVars
<1>5. CASE OnIgnored(m)
  BY <1>0, <1>5 DEF OnIgnored, DataTyped, dataVars, idVars
<1> QED
  BY <1>1, <1>2, <1>3, <1>4, <1>5 DEF Handled

\* A handler keeps the sets equal to what the stored data say, also when it
\* rejects the record.
\* What a message leaves of the evidence.
LEMMA EvidenceOnly ==
  ASSUME NEW m, NEW log, m.kind = "evidence", Emit(m, log)
  PROVE  evidence' = Append(evidence, m) /\ logTimes' = Append(logTimes, log)
BY DEF Emit, OnRaw, OnKeyframeBoundary, OnMeasurementEvidence, OnReferenceState, OnIgnored,
       RawKinds, IgnoredKinds

LEMMA OthersLeave ==
  ASSUME NEW m, NEW log, m.kind # "evidence", Emit(m, log)
  PROVE  evidence' = evidence /\ logTimes' = logTimes
BY DEF Emit, OnRaw, OnKeyframeBoundary, OnMeasurementEvidence, OnReferenceState, OnIgnored,
       Reject, dataVars

LEMMA HandledSets ==
  ASSUME TypeOK, SetsMatchData, NEW m \in AnyMessages, Handled(m)
  PROVE  SetsMatchData'
<1>0. raw \in Seq(RawMessages) /\ boundaries \in Seq(BoundaryMessages)
  BY DEF TypeOK
<1>1. CASE OnRaw(m) /\ RawFault(m) = "none"
  <2>1. m \in RawMessages /\ m.obs \in ObsIds
    BY <1>1, MessageKinds DEF OnRaw, RawFault, RawMessages, Ids
  <2>2. /\ Len(raw') = Len(raw) + 1 /\ Len(raw) \in Nat
        /\ \A i \in 1 .. Len(raw) : raw'[i] = raw[i]
        /\ raw'[Len(raw) + 1] = m
    BY <1>0, <1>1, <2>1, Appended DEF OnRaw
  <2>3. boundaries' = boundaries /\ seenKeyframes' = seenKeyframes /\ known' = known \cup {m.obs}
    BY <1>1 DEF OnRaw, Register
  <2>4. ASSUME NEW id \in Ids PROVE Stored(id)' <=> Stored(id) \/ id = m.obs
    <3>1. (\E i \in 1 .. Len(raw') : raw'[i].obs = id)
            <=> (\E i \in 1 .. Len(raw) : raw[i].obs = id) \/ id = m.obs
      BY <2>2
    <3> QED
      BY <2>3, <3>1 DEF Stored
  <2> QED
    BY <2>3, <2>4 DEF SetsMatchData
<1>2. CASE OnKeyframeBoundary(m) /\ BoundaryFault(m) = "none"
  <2>1. m \in BoundaryMessages
    BY <1>2, MessageKinds DEF OnKeyframeBoundary
  <2>2. /\ Len(boundaries') = Len(boundaries) + 1 /\ Len(boundaries) \in Nat
        /\ \A i \in 1 .. Len(boundaries) : boundaries'[i] = boundaries[i]
        /\ boundaries'[Len(boundaries) + 1] = m
    BY <1>0, <1>2, <2>1, Appended DEF OnKeyframeBoundary
  <2>3. /\ raw' = raw /\ known' = known \cup {m.obs}
        /\ seenKeyframes' = seenKeyframes \cup {m.keyframe}
    BY <1>2 DEF OnKeyframeBoundary, Register
  <2>4. ASSUME NEW id \in Ids PROVE Stored(id)' <=> Stored(id) \/ id = m.obs
    <3>1. (\E i \in 1 .. Len(boundaries') : boundaries'[i].obs = id)
            <=> (\E i \in 1 .. Len(boundaries) : boundaries[i].obs = id) \/ id = m.obs
      BY <2>2
    <3> QED
      BY <2>3, <3>1 DEF Stored
  <2>5. ASSUME NEW k \in KeyframeIds
        PROVE  (\E i \in 1 .. Len(boundaries') : boundaries'[i].keyframe = k)
                 <=> (\E i \in 1 .. Len(boundaries) : boundaries[i].keyframe = k) \/ k = m.keyframe
    BY <2>2
  <2> QED
    BY <2>3, <2>4, <2>5 DEF SetsMatchData
<1>3. CASE UNCHANGED <<raw, boundaries, known, seenKeyframes>>
  BY <1>3 DEF SetsMatchData, Stored
<1> QED
  BY <1>1, <1>2, <1>3 DEF Handled, OnRaw, OnKeyframeBoundary, OnMeasurementEvidence,
     OnReferenceState, OnIgnored, Reject, dataVars, idVars

\* A boundary that is stored comes after all that are stored already.
LEMMA HandledOrder ==
  ASSUME TypeOK, SetsMatchData, BoundaryOrder, NEW m \in AnyMessages, Handled(m)
  PROVE  BoundaryOrder'
<1>1. CASE OnKeyframeBoundary(m) /\ BoundaryFault(m) = "none"
  <2> DEFINE n == Len(boundaries)
  <2>0. boundaries \in Seq(BoundaryMessages)
    BY DEF TypeOK
  <2>1. m \in BoundaryMessages /\ m.keyframe \in KeyframeIds
    BY <1>1, MessageKinds DEF OnKeyframeBoundary, BoundaryFault, BoundaryMessages
  <2>2. /\ Len(boundaries') = n + 1 /\ n \in Nat
        /\ \A i \in 1 .. n : boundaries'[i] = boundaries[i] /\ boundaries[i] \in BoundaryMessages
        /\ boundaries'[n + 1] = m
    BY <1>1, <2>0, <2>1, Appended, ElementOfSeq DEF OnKeyframeBoundary
  <2>3. \A i \in 1 .. n : boundaries[i].keyframe # m.keyframe
    BY <1>1, <2>1 DEF BoundaryFault, SetsMatchData
  <2>4. ASSUME NEW i \in 1 .. n PROVE Nanos(boundaries[i].time) < Nanos(m.time)
    <3>1. /\ boundaries[i].time \in Stamps /\ boundaries[n].time \in Stamps
          /\ m.time \in Stamps /\ n > 0
      BY <2>1, <2>2, <2>4 DEF BoundaryMessages
    <3>2. Earlier(boundaries[n].time, m.time)
      BY <1>1, <3>1 DEF BoundaryFault
    <3>3. Nanos(boundaries[n].time) < Nanos(m.time)
      BY <3>1, <3>2, EarlierIsLess
    <3>4. i = n \/ Nanos(boundaries[i].time) < Nanos(boundaries[n].time)
      BY <2>2, <2>4 DEF BoundaryOrder
    <3>5. \A t \in Stamps : Nanos(t) \in Nat
      BY ReplayInputAssumption DEF Nanos, Stamps
    <3> QED
      BY <3>1, <3>3, <3>4, <3>5
  <2> HIDE DEF n
  <2>5. ASSUME NEW i \in 1 .. n + 1, NEW j \in 1 .. n + 1, i < j
        PROVE  /\ Nanos(boundaries'[i].time) < Nanos(boundaries'[j].time)
               /\ boundaries'[i].keyframe # boundaries'[j].keyframe
    <3>1. CASE j = n + 1
      BY <2>2, <2>3, <2>4, <2>5, <3>1
    <3>2. CASE j \in 1 .. n
      BY <2>2, <2>5, <3>2 DEF BoundaryOrder, n
    <3> QED
      BY <2>2, <2>5, <3>1, <3>2
  <2> QED
    BY <2>2, <2>5 DEF BoundaryOrder, Nanos
<1>2. CASE boundaries' = boundaries
  BY <1>2 DEF BoundaryOrder, Nanos
<1> QED
  BY <1>1, <1>2 DEF Handled, OnRaw, OnKeyframeBoundary, OnMeasurementEvidence,
     OnReferenceState, OnIgnored, Reject, dataVars

\* An event of an ignored kind adds one to the ignored, any other none.
LEMMA IgnoredCounted ==
  ASSUME TypeOK, NEW m \in AnyMessages, history' = Append(history, m)
  PROVE  /\ Cardinality(IgnoredEvents) \in Nat
         /\ m.kind \in IgnoredKinds =>
              Cardinality(IgnoredEvents') = Cardinality(IgnoredEvents) + 1
         /\ m.kind \notin IgnoredKinds => Cardinality(IgnoredEvents') = Cardinality(IgnoredEvents)
<1>1. m \in AnyMessages /\ history \in Seq(AnyMessages)
  BY DEF TypeOK, AnyMessages
<1>2. /\ Len(history') = Len(history) + 1 /\ Len(history) \in Nat
      /\ \A i \in 1 .. Len(history) : history'[i] = history[i]
      /\ history'[Len(history) + 1] = m
  BY <1>1, Appended
<1>3. PICK n \in Nat : n = Len(history)
  BY <1>2
<1>4. IsFiniteSet(IgnoredEvents)
  <2>1. IgnoredEvents \subseteq 1 .. n
    BY <1>3 DEF IgnoredEvents
  <2>2. IsFiniteSet(1 .. n)
    BY FS_Interval
  <2> QED
    BY <2>1, <2>2, FS_Subset
<1>5. n + 1 \notin IgnoredEvents
  BY <1>3 DEF IgnoredEvents
<1>6. CASE m.kind \in IgnoredKinds
  <2>1. IgnoredEvents' = IgnoredEvents \cup {n + 1}
    BY <1>2, <1>3, <1>6 DEF IgnoredEvents
  <2> QED
    BY <1>4, <1>5, <1>6, <2>1, FS_AddElement, FS_CardinalityType
<1>7. CASE m.kind \notin IgnoredKinds
  <2>1. IgnoredEvents' = IgnoredEvents
    BY <1>2, <1>3, <1>7 DEF IgnoredEvents
  <2> QED
    BY <1>4, <1>7, <2>1, FS_CardinalityType
<1> QED
  BY <1>6, <1>7

\* A rejection adds one to the rejected, whatever its fault.
LEMMA RejectCounted ==
  ASSUME TypeOK, NEW f \in RecordFaults, Reject(f)
  PROVE  RejectedRecords' = RejectedRecords + 1
<1>1. faults \in [RecordFaults -> Nat] /\ faults' = [faults EXCEPT ![f] = faults[f] + 1]
  BY DEF TypeOK, Reject
<1>2. \A g \in RecordFaults : faults'[g] = IF g = f THEN faults[g] + 1 ELSE faults[g]
  BY <1>1
<1>3. /\ faults["empty_observation_id"] \in Nat /\ faults["duplicate_observation"] \in Nat
      /\ faults["empty_keyframe_id"] \in Nat /\ faults["duplicate_keyframe_id"] \in Nat
      /\ faults["non_increasing_keyframe_capture_time"] \in Nat
  BY <1>1 DEF RecordFaults
<1> QED
  BY <1>2, <1>3 DEF RejectedRecords, RecordFaults

\* Where the records that were emitted have gone.
Filed == Len(raw) + Len(boundaries) + Len(evidence) + references
           + Cardinality(IgnoredEvents) + RejectedRecords

\* Each handler files the event it is given in exactly one place.
LEMMA HandledAccounted ==
  ASSUME TypeOK, NEW m \in AnyMessages, Handled(m), history' = Append(history, m)
  PROVE  Filed' = Filed + 1
<1>0. /\ raw \in Seq(RawMessages) /\ boundaries \in Seq(BoundaryMessages)
      /\ evidence \in Seq(EvidenceMessages) /\ references \in Nat
      /\ faults \in [RecordFaults -> Nat]
  BY DEF TypeOK
<1>1. /\ Len(raw) \in Nat /\ Len(boundaries) \in Nat /\ Len(evidence) \in Nat
      /\ Cardinality(IgnoredEvents) \in Nat /\ RejectedRecords \in Nat
  BY <1>0, IgnoredCounted, LenProperties DEF RejectedRecords, RecordFaults
<1>2. ASSUME m.kind \notin IgnoredKinds, NEW f \in RecordFaults, Reject(f)
      PROVE  Filed' = Filed + 1
  <2>1. RejectedRecords' = RejectedRecords + 1
    BY <1>2, RejectCounted
  <2>2. Cardinality(IgnoredEvents') = Cardinality(IgnoredEvents)
    BY <1>2, IgnoredCounted
  <2>3. UNCHANGED <<raw, boundaries, evidence, references>>
    BY <1>2 DEF Reject, dataVars
  <2> QED
    BY <1>0, <1>1, <2>1, <2>2, <2>3 DEF Filed
<1>3. CASE OnRaw(m)
  <2>0. m.kind \notin IgnoredKinds /\ m \in RawMessages
    BY <1>3, MessageKinds DEF OnRaw, RawKinds, IgnoredKinds
  <2>1. CASE RawFault(m) # "none"
    BY <1>2, <1>3, <2>0, <2>1, FaultKinds DEF OnRaw
  <2>2. CASE RawFault(m) = "none"
    <3>1. Len(raw') = Len(raw) + 1
      BY <1>0, <1>3, <2>0, <2>2, Appended DEF OnRaw
    <3>2. UNCHANGED <<boundaries, evidence, references, faults>>
      BY <1>3, <2>2 DEF OnRaw
    <3>3. Cardinality(IgnoredEvents') = Cardinality(IgnoredEvents)
      BY <2>0, IgnoredCounted
    <3> QED
      BY <1>0, <1>1, <3>1, <3>2, <3>3 DEF Filed, RejectedRecords
  <2> QED
    BY <2>1, <2>2
<1>4. CASE OnKeyframeBoundary(m)
  <2>0. m.kind \notin IgnoredKinds /\ m \in BoundaryMessages
    BY <1>4, MessageKinds DEF OnKeyframeBoundary, IgnoredKinds
  <2>1. CASE BoundaryFault(m) # "none"
    BY <1>2, <1>4, <2>0, <2>1, FaultKinds DEF OnKeyframeBoundary
  <2>2. CASE BoundaryFault(m) = "none"
    <3>1. Len(boundaries') = Len(boundaries) + 1
      BY <1>0, <1>4, <2>0, <2>2, Appended DEF OnKeyframeBoundary
    <3>2. UNCHANGED <<raw, evidence, references, faults>>
      BY <1>4, <2>2 DEF OnKeyframeBoundary
    <3>3. Cardinality(IgnoredEvents') = Cardinality(IgnoredEvents)
      BY <2>0, IgnoredCounted
    <3> QED
      BY <1>0, <1>1, <3>1, <3>2, <3>3 DEF Filed, RejectedRecords
  <2> QED
    BY <2>1, <2>2
<1>5. CASE \E log \in Nat : OnMeasurementEvidence(m, log)
  <2>0. m.kind \notin IgnoredKinds /\ m \in EvidenceMessages
    BY <1>5, MessageKinds DEF OnMeasurementEvidence, IgnoredKinds
  <2>1. Len(evidence') = Len(evidence) + 1
    BY <1>0, <1>5, <2>0, Appended DEF OnMeasurementEvidence
  <2>2. UNCHANGED <<raw, boundaries, references, faults>>
    BY <1>5 DEF OnMeasurementEvidence
  <2>3. Cardinality(IgnoredEvents') = Cardinality(IgnoredEvents)
    BY <2>0, IgnoredCounted
  <2> QED
    BY <1>0, <1>1, <2>1, <2>2, <2>3 DEF Filed, RejectedRecords
<1>6. CASE OnReferenceState(m)
  <2>1. m.kind \notin IgnoredKinds /\ references' = references + 1
    BY <1>6 DEF OnReferenceState, IgnoredKinds
  <2>2. UNCHANGED <<raw, boundaries, evidence, faults>>
    BY <1>6 DEF OnReferenceState
  <2>3. Cardinality(IgnoredEvents') = Cardinality(IgnoredEvents)
    BY <2>1, IgnoredCounted
  <2> QED
    BY <1>0, <1>1, <2>1, <2>2, <2>3 DEF Filed, RejectedRecords
<1>7. CASE OnIgnored(m)
  <2>1. m.kind \in IgnoredKinds /\ UNCHANGED <<raw, boundaries, evidence, references, faults>>
    BY <1>7 DEF OnIgnored, dataVars
  <2>2. Cardinality(IgnoredEvents') = Cardinality(IgnoredEvents) + 1
    BY <2>1, IgnoredCounted
  <2> QED
    BY <1>0, <1>1, <2>1, <2>2 DEF Filed, RejectedRecords
<1> QED
  BY <1>3, <1>4, <1>5, <1>6, <1>7 DEF Handled

\* The steps that hand over no event keep the account.
LEMMA AccountKept ==
  ASSUME RecordsAccounted, UNCHANGED <<dataVars, faults, history>>,
         report' = report \/ (report'.emitted = report.emitted
            /\ report'.seen = report'.emitted + report'.unknown + report'.unparsed)
  PROVE  RecordsAccounted'
BY DEF RecordsAccounted, RejectedRecords, IgnoredEvents, dataVars

-----------------------------------------------------------------------------
\* The report counters after a message stay numbers.
LEMMA Counted ==
  ASSUME NEW r \in [seen : Nat, emitted : Nat, unknown : Nat, unparsed : Nat], NEW q,
         \/ q = [r EXCEPT !.seen = @ + 1, !.emitted = @ + 1]
         \/ q = [r EXCEPT !.seen = @ + 1, !.unknown = @ + 1]
         \/ q = [r EXCEPT !.seen = @ + 1, !.unparsed = @ + 1]
  PROVE  /\ q \in [seen : Nat, emitted : Nat, unknown : Nat, unparsed : Nat]
         /\ q.seen = r.seen + 1
<1>1. /\ r.seen \in Nat /\ r.emitted \in Nat /\ r.unknown \in Nat /\ r.unparsed \in Nat
      /\ r.seen + 1 \in Nat /\ r.emitted + 1 \in Nat /\ r.unknown + 1 \in Nat
      /\ r.unparsed + 1 \in Nat
  OBVIOUS
<1>2. CASE q = [r EXCEPT !.seen = @ + 1, !.emitted = @ + 1]
  BY <1>1, <1>2
<1>3. CASE q = [r EXCEPT !.seen = @ + 1, !.unknown = @ + 1]
  BY <1>1, <1>3
<1>4. CASE q = [r EXCEPT !.seen = @ + 1, !.unparsed = @ + 1]
  BY <1>1, <1>4
<1> QED
  BY <1>2, <1>3, <1>4

LEMMA EmitInvariant ==
  ASSUME IInv, NEW m \in AnyMessages, NEW log \in Nat, Emit(m, log)
  PROVE  IInv'
<1>1. /\ pc = "read" /\ Handled(m) /\ report'.seen = report.seen + 1
      /\ report' = [report EXCEPT !.seen = @ + 1, !.emitted = @ + 1]
      /\ history' = Append(history, m)
      /\ UNCHANGED <<dangling, flushes, verdict>>
      /\ report \in [seen : Nat, emitted : Nat, unknown : Nat, unparsed : Nat]
  BY DEF Emit, Handled, IInv, TypeOK
<1>2. \/ UNCHANGED <<pc, status>>
      \/ PortMayStop /\ pc' = "returned" /\ status' = "stopped_by_consumer"
  BY DEF Emit
<1>3. TypeOK'
  <2>1. DataTyped'
    BY <1>1, HandledTyped DEF IInv
  <2>2. report' \in [seen : Nat, emitted : Nat, unknown : Nat, unparsed : Nat]
    BY <1>1, Counted
  <2>3. history' \in Seq(RawMessages \cup BoundaryMessages \cup EvidenceMessages \cup OtherMessages)
    <3>1. m \in RawMessages \cup BoundaryMessages \cup EvidenceMessages \cup OtherMessages
      BY DEF AnyMessages
    <3> QED
      BY <1>1, <3>1, Appended DEF IInv, TypeOK
  <2> QED
    BY <1>1, <1>2, <2>1, <2>2, <2>3 DEF IInv, TypeOK, DataTyped
<1>4. DataInv'
  BY <1>1, HandledSets, HandledOrder DEF IInv, DataInv
<1>5. flushes = 0 /\ verdict = "pending" /\ status = "open_failed"
  BY <1>1 DEF IInv, TypeOK, StageInv, Reading
<1>6. StageInv' /\ FlushAfterCompletePass'
  BY <1>1, <1>2, <1>5 DEF StageInv, FlushAfterCompletePass, Reading
<1>7. RecordsAccounted'
  <2>1. Filed' = Filed + 1
    BY <1>1, HandledAccounted DEF IInv
  <2>2. report.emitted = Filed /\ report.seen = report.emitted + report.unknown + report.unparsed
    BY DEF IInv, RecordsAccounted, Filed
  <2>3. /\ report'.emitted = report.emitted + 1 /\ report'.seen = report.seen + 1
        /\ report'.unknown = report.unknown /\ report'.unparsed = report.unparsed
        /\ report.emitted \in Nat /\ report.unknown \in Nat /\ report.unparsed \in Nat
    BY <1>1
  <2>4. report'.emitted = Filed'
    BY <2>1, <2>2, <2>3
  <2> QED
    BY <2>2, <2>3, <2>4 DEF RecordsAccounted, Filed
<1> QED
  BY <1>3, <1>4, <1>6, <1>7 DEF IInv

\* The stages that leave the data alone.
LEMMA DataKept ==
  ASSUME DataInv, UNCHANGED <<dataVars, idVars>>
  PROVE  DataInv'
BY DEF DataInv, SetsMatchData, Stored, BoundaryOrder, Nanos, dataVars, idVars

LEMMA DanglingTyped ==
  ASSUME TypeOK
  PROVE  DanglingSources \in SUBSET (Nat \X Nat)
<1>1. ASSUME NEW p \in DanglingSources PROVE p \in Nat \X Nat
  <2>1. PICK i \in DOMAIN evidence : p \in {i} \X DOMAIN evidence[i].sources
    BY <1>1 DEF DanglingSources
  <2>2. i \in 1 .. Len(evidence) /\ evidence[i] \in EvidenceMessages
    BY <2>1, ElementOfSeq, LenProperties DEF TypeOK
  <2>3. evidence[i].sources \in Seq(Ids)
    BY <2>2 DEF EvidenceMessages
  <2>4. DOMAIN evidence[i].sources \subseteq Nat
    BY <2>3, LenProperties
  <2>5. i \in Nat
    BY <2>2
  <2> QED
    BY <2>1, <2>4, <2>5
<1> QED
  BY <1>1

LEMMA StepInvariant == IInv /\ [IngressStep]_vars => IInv'
<1> SUFFICES ASSUME IInv, [IngressStep]_vars PROVE IInv'
  OBVIOUS
<1>0. /\ report \in [seen : Nat, emitted : Nat, unknown : Nat, unparsed : Nat]
      /\ logTimes \in Seq(Nat) /\ TypeOK /\ DataInv
  BY DEF IInv, TypeOK
<1>1. CASE Open
  <2>1. TypeOK'
    BY <1>0, <1>1 DEF Open, TypeOK, dataVars, idVars
  <2>2. DataInv'
    BY <1>0, <1>1, DataKept DEF Open
  <2>3. StageInv' /\ FlushAfterCompletePass'
    BY <1>1 DEF Open, IInv, StageInv, FlushAfterCompletePass, Reading, HasErrors
  <2>4. RecordsAccounted'
    BY <1>1, AccountKept DEF Open, IInv, dataVars
  <2> QED
    BY <2>1, <2>2, <2>3, <2>4 DEF IInv
<1>2. ASSUME NEW m \in AnyMessages, Skip(m) PROVE IInv'
  <2>1. /\ report' \in [seen : Nat, emitted : Nat, unknown : Nat, unparsed : Nat]
        /\ report'.seen = report.seen + 1
    BY <1>0, <1>2, Counted DEF Skip
  <2>2. TypeOK'
    BY <1>0, <1>2, <2>1 DEF Skip, TypeOK, dataVars, idVars
  <2>3. DataInv'
    BY <1>0, <1>2, <2>1, DataKept DEF Skip
  <2>4. StageInv' /\ FlushAfterCompletePass'
    BY <1>2 DEF Skip, IInv, TypeOK, StageInv, FlushAfterCompletePass, Reading
  <2>5. RecordsAccounted'
    <3>1. /\ report'.emitted = report.emitted
          /\ \/ report'.unknown = report.unknown + 1 /\ report'.unparsed = report.unparsed
             \/ report'.unknown = report.unknown /\ report'.unparsed = report.unparsed + 1
          /\ report.emitted \in Nat /\ report.unknown \in Nat /\ report.unparsed \in Nat
      BY <1>0, <1>2 DEF Skip
    <3>2. report'.seen = report'.emitted + report'.unknown + report'.unparsed
      <4>1. report.seen = report.emitted + report.unknown + report.unparsed
        BY DEF IInv, RecordsAccounted
      <4>2. report'.seen = report.seen + 1
        BY <2>1
      <4>3. CASE report'.unknown = report.unknown + 1 /\ report'.unparsed = report.unparsed
        BY <3>1, <4>1, <4>2, <4>3
      <4>4. CASE report'.unknown = report.unknown /\ report'.unparsed = report.unparsed + 1
        BY <3>1, <4>1, <4>2, <4>4
      <4> QED
        BY <3>1, <4>3, <4>4
    <3> QED
      BY <1>2, <3>1, <3>2, AccountKept DEF Skip, IInv, dataVars
  <2> QED
    BY <2>2, <2>3, <2>4, <2>5 DEF IInv
<1>3. ASSUME NEW m \in AnyMessages, NEW log \in Nat, Emit(m, log) PROVE IInv'
  BY <1>3, EmitInvariant
<1>4. CASE EndOfBag
  <2>1. TypeOK'
    BY <1>0, <1>4 DEF EndOfBag, TypeOK, dataVars, idVars
  <2>2. DataInv'
    BY <1>0, <1>4, DataKept DEF EndOfBag
  <2>3. StageInv' /\ FlushAfterCompletePass'
    BY <1>4 DEF EndOfBag, IInv, TypeOK, StageInv, FlushAfterCompletePass, Reading
  <2>4. RecordsAccounted'
    BY <1>4, AccountKept DEF EndOfBag, IInv, dataVars
  <2> QED
    BY <2>1, <2>2, <2>3, <2>4 DEF IInv
<1>5. CASE Pump
  <2>1. TypeOK'
    BY <1>0, <1>5, DanglingTyped DEF Pump, TypeOK, dataVars, idVars
  <2>2. DataInv'
    BY <1>0, <1>5, DataKept DEF Pump
  <2>3. StageInv' /\ FlushAfterCompletePass'
    BY <1>5 DEF Pump, IInv, TypeOK, StageInv, FlushAfterCompletePass, Reading,
                DanglingSources, dataVars, idVars
  <2>4. RecordsAccounted'
    BY <1>5, AccountKept DEF Pump, IInv, dataVars
  <2> QED
    BY <2>1, <2>2, <2>3, <2>4 DEF IInv
<1>6. CASE Gate
  <2>1. TypeOK'
    BY <1>0, <1>6 DEF Gate, TypeOK, dataVars, idVars
  <2>2. DataInv'
    BY <1>0, <1>6, DataKept DEF Gate
  <2>3. StageInv' /\ FlushAfterCompletePass'
    BY <1>6 DEF Gate, IInv, TypeOK, StageInv, FlushAfterCompletePass, Reading, HasErrors,
                DanglingSources, dataVars, idVars
  <2>4. RecordsAccounted'
    BY <1>6, AccountKept DEF Gate, IInv, dataVars
  <2> QED
    BY <2>1, <2>2, <2>3, <2>4 DEF IInv
<1>7. CASE UNCHANGED vars
  <2>1. TypeOK'
    BY <1>0, <1>7 DEF vars, TypeOK, dataVars, idVars
  <2>2. DataInv'
    BY <1>0, <1>7, DataKept DEF vars
  <2>3. StageInv' /\ FlushAfterCompletePass'
    BY <1>7 DEF vars, IInv, StageInv, FlushAfterCompletePass, Reading, HasErrors,
                DanglingSources, dataVars, idVars
  <2>4. RecordsAccounted'
    BY <1>7, AccountKept DEF vars, IInv, dataVars
  <2> QED
    BY <2>1, <2>2, <2>3, <2>4 DEF IInv
<1> QED
  BY <1>1, <1>2, <1>3, <1>4, <1>5, <1>6, <1>7 DEF IngressStep, Done

LEMMA Invariance == Spec => []IInv
  BY InitInvariant, StepInvariant, NextIsIngress, PTL DEF Spec

-----------------------------------------------------------------------------
\* The complaint about a source and the absence of a record that carries it
\* are the same thing once Flush has run.
LEMMA BlameIsExact == IInv => DanglingExact
<1> SUFFICES ASSUME IInv, flushes > 0, NEW i \in 1 .. Len(evidence),
                    NEW k \in DOMAIN evidence[i].sources
             PROVE  <<i, k>> \in dangling <=> ~Stored(evidence[i].sources[k])
  BY DEF DanglingExact
<1>1. dangling = DanglingSources
  BY DEF IInv, StageInv
<1>2. evidence[i] \in EvidenceMessages /\ i \in DOMAIN evidence
  BY ElementOfSeq, LenProperties DEF IInv, TypeOK
<1>3. evidence[i].sources[k] \in Ids
  <2>1. evidence[i].sources \in Seq(Ids)
    BY <1>2 DEF EvidenceMessages
  <2> QED
    BY <2>1, ElementOfSeq, LenProperties
<1>4. <<i, k>> \in DanglingSources <=> evidence[i].sources[k] \notin known
  BY <1>2 DEF DanglingSources
<1> QED
  BY <1>1, <1>3, <1>4 DEF IInv, DataInv, SetsMatchData

\* A complete bag that is accepted was flushed.
LEMMA AcceptedIsStored == IInv => AcceptedSourcesStored
<1> SUFFICES ASSUME IInv, status = "completed", verdict = "accepted", NEW i \in 1 .. Len(evidence),
                    NEW k \in DOMAIN evidence[i].sources
             PROVE  Stored(evidence[i].sources[k])
  BY DEF AcceptedSourcesStored
<1>1. status = "completed" /\ pc = "exit" /\ dangling = {}
  BY DEF IInv, TypeOK, StageInv, HasErrors
<1>2. flushes > 0
  BY <1>1 DEF IInv, FlushAfterCompletePass
<1> QED
  BY <1>1, <1>2, BlameIsExact DEF DanglingExact

\* The ingress state keeps its types for any bag.
THEOREM TypeCorrect == Spec => []TypeOK
<1>1. IInv => TypeOK
  BY DEF IInv
<1> QED
  BY Invariance, <1>1, PTL

\* The stored boundaries are strictly ordered in time and distinct, for bags
\* of any length and any nanosecond stamps.
THEOREM BoundariesOrdered == Spec => []BoundaryOrder
<1>1. IInv => BoundaryOrder
  BY DEF IInv, DataInv
<1> QED
  BY Invariance, <1>1, PTL

\* Flush runs after a complete pass and only then, also when a port stops the
\* source.
THEOREM FlushedOnce == Spec => []FlushAfterCompletePass
<1>1. IInv => FlushAfterCompletePass
  BY DEF IInv
<1> QED
  BY Invariance, <1>1, PTL

\* Flush blames exactly the sources no stored record carries.
THEOREM DanglingCorrect == Spec => []DanglingExact
  BY Invariance, BlameIsExact, PTL

\* Every source of a complete bag that is accepted is stored.
THEOREM AcceptedCorrect == Spec => []AcceptedSourcesStored
  BY Invariance, AcceptedIsStored, PTL

\* The report of a bag is what happened to its records: each is counted once,
\* for bags of any length and any messages.
THEOREM DiagnosticsCorrect == Spec => []DiagnosticsExact
<1>1. IInv => DiagnosticsExact
  BY BlameIsExact DEF IInv, DiagnosticsExact
<1> QED
  BY Invariance, <1>1, PTL

-----------------------------------------------------------------------------
(***************************************************************************)
(* The gate against the whole bag.  As long as no record was faulty, what   *)
(* the accumulator remembers is what the history says of it.                *)
(***************************************************************************)
Faultless == \A f \in RecordFaults : faults[f] = 0

\* The identities, names, keyframes and boundary times of h.
Mirrors(h, identities, names, keyframes, kept) ==
  /\ \A x : x \in identities <=> \E i \in 1 .. Len(h) : CarriesIdentity(h[i]) /\ Identity(h[i]) = x
  /\ \A x : x \in names <=> \E i \in 1 .. Len(h) : CarriesIdentity(h[i]) /\ h[i].obs = x
  /\ \A x : x \in keyframes <=> \E i \in 1 .. Len(h) : h[i].kind = "boundary" /\ h[i].keyframe = x
  /\ \A i \in 1 .. Len(h) : h[i].kind = "boundary" => \E j \in 1 .. Len(kept) : kept[j].time = h[i].time
  /\ \A j \in 1 .. Len(kept) : \E i \in 1 .. Len(h) : h[i].kind = "boundary" /\ kept[j].time = h[i].time

\* The evidence stored is the evidence of h, faulty records or not.
EvidenceOf(h, stored) ==
  /\ \A i \in 1 .. Len(h) : h[i].kind = "evidence" => \E j \in 1 .. Len(stored) : stored[j] = h[i]
  /\ \A j \in 1 .. Len(stored) : \E i \in 1 .. Len(h) : h[i].kind = "evidence" /\ stored[j] = h[i]

GateInv ==
  /\ Faultless <=> CleanRecords(history)
  /\ CleanRecords(history) => Mirrors(history, seenRaw, known, seenKeyframes, boundaries)
  /\ EvidenceOf(history, evidence)
  /\ status = "completed" /\ verdict # "pending" => (verdict = "accepted" <=> ~HasErrors)

\* The comparison of OnKeyframeBoundary decides the order of times.
LEMMA EarlierExactly ==
  ASSUME NEW a \in Stamps, NEW b \in Stamps
  PROVE  Earlier(a, b) <=> Nanos(a) < Nanos(b)
<1>1. /\ a.seconds \in Nat /\ b.seconds \in Nat /\ NanosPerSecond \in Nat \ {0}
      /\ a.nanos \in 0 .. NanosPerSecond - 1 /\ b.nanos \in 0 .. NanosPerSecond - 1
  BY ReplayInputAssumption DEF Stamps
<1>2. Nanos(a) \in Nat /\ Nanos(b) \in Nat
  BY <1>1 DEF Nanos
<1>3. CASE b.seconds < a.seconds
  <2>1. Earlier(b, a) /\ ~ Earlier(a, b)
    BY <1>1, <1>3 DEF Earlier
  <2>2. Nanos(b) < Nanos(a)
    BY <2>1, EarlierIsLess
  <2> QED
    BY <1>2, <2>1, <2>2
<1>4. CASE b.seconds = a.seconds
  BY <1>1, <1>4 DEF Earlier, Nanos
<1>5. CASE a.seconds < b.seconds
  <2>1. Earlier(a, b)
    BY <1>1, <1>5 DEF Earlier
  <2> QED
    BY <2>1, EarlierIsLess
<1> QED
  BY <1>1, <1>3, <1>4, <1>5

\* What a record must be like for the bag to stay without a fault.
CleanAfter(h, m) ==
  /\ CarriesIdentity(m) =>
       /\ m.obs # NoId
       /\ AllowsDuplicate(m.kind)
            \/ \A j \in 1 .. Len(h) : CarriesIdentity(h[j]) => Identity(h[j]) # Identity(m)
  /\ m.kind = "boundary" =>
       /\ m.keyframe # NoId
       /\ \A j \in 1 .. Len(h) : h[j].kind = "boundary" =>
            h[j].keyframe # m.keyframe /\ Nanos(h[j].time) < Nanos(m.time)

LEMMA CleanAppend ==
  ASSUME NEW h \in Seq(AnyMessages), NEW m \in AnyMessages
  PROVE  CleanRecords(Append(h, m)) <=> CleanRecords(h) /\ CleanAfter(h, m)
<1> DEFINE g == Append(h, m)
           n == Len(h)
<1>1. /\ Len(g) = n + 1 /\ n \in Nat
      /\ \A i \in 1 .. n : g[i] = h[i]
      /\ g[n + 1] = m
  BY Appended
<1> HIDE DEF g
<1>2. ASSUME NEW i \in 1 .. n PROVE CleanRecord(g, i) <=> CleanRecord(h, i)
  <2>1. g[i] = h[i] /\ \A j \in 1 .. i - 1 : g[j] = h[j]
    BY <1>1, <1>2
  <2> QED
    BY <2>1 DEF CleanRecord
<1>3. CleanRecord(g, n + 1) <=> CleanAfter(h, m)
  <2>1. n + 1 - 1 = n
    BY <1>1
  <2> QED
    BY <1>1, <2>1 DEF CleanRecord, CleanAfter
<1>4. CleanRecords(g) <=> CleanRecords(h) /\ CleanRecord(g, n + 1)
  <2>1. \A i : i \in 1 .. n + 1 <=> i \in 1 .. n \/ i = n + 1
    BY <1>1
  <2> QED
    BY <1>1, <1>2, <2>1 DEF CleanRecords
<1> QED
  BY <1>3, <1>4 DEF g

\* The accumulator faults a record exactly when it spoils the bag.
LEMMA RawFaultExact ==
  ASSUME NEW h, NEW m, CarriesIdentity(m), Mirrors(h, seenRaw, known, seenKeyframes, boundaries)
  PROVE  RawFault(m) = "none" <=>
           /\ m.obs # NoId
           /\ AllowsDuplicate(m.kind)
                \/ \A j \in 1 .. Len(h) : CarriesIdentity(h[j]) => Identity(h[j]) # Identity(m)
BY DEF RawFault, Mirrors

LEMMA BoundaryFaultExact ==
  ASSUME TypeOK, BoundaryOrder, NEW m \in BoundaryMessages, history \in Seq(AnyMessages),
         Mirrors(history, seenRaw, known, seenKeyframes, boundaries)
  PROVE  BoundaryFault(m) = "none" <=> CleanAfter(history, m)
<1> DEFINE n == Len(boundaries)
<1>1. /\ m.kind = "boundary" /\ CarriesIdentity(m) /\ m.time \in Stamps
      /\ n \in Nat /\ \A i \in 1 .. n : boundaries[i] \in BoundaryMessages
  BY ElementOfSeq, LenProperties DEF TypeOK, BoundaryMessages, CarriesIdentity
<1>2. \A i \in 1 .. n : boundaries[i].time \in Stamps
  BY <1>1 DEF BoundaryMessages
<1>3. \A t \in Stamps : Nanos(t) \in Nat
  BY ReplayInputAssumption DEF Nanos, Stamps
<1>5. (n > 0 => Earlier(boundaries[n].time, m.time))
        <=> \A j \in 1 .. Len(history) : history[j].kind = "boundary" =>
              Nanos(history[j].time) < Nanos(m.time)
  <2>1. (n > 0 => Earlier(boundaries[n].time, m.time))
          <=> \A i \in 1 .. n : Nanos(boundaries[i].time) < Nanos(m.time)
    <3>1. CASE n = 0
      BY <3>1
    <3>2. CASE n > 0
      <4>1. n \in 1 .. n
        BY <1>1, <3>2
      <4>2. Earlier(boundaries[n].time, m.time) <=> Nanos(boundaries[n].time) < Nanos(m.time)
        BY <1>1, <1>2, <4>1, EarlierExactly
      <4>3. ASSUME NEW i \in 1 .. n PROVE Nanos(boundaries[i].time) <= Nanos(boundaries[n].time)
        <5>1. i = n \/ i < n
          BY <1>1, <4>3
        <5> QED
          BY <1>2, <1>3, <4>1, <4>3, <5>1 DEF BoundaryOrder
      <4> QED
        BY <1>1, <1>2, <1>3, <3>2, <4>1, <4>2, <4>3
    <3> QED
      BY <1>1, <3>1, <3>2
  <2> QED
    BY <2>1 DEF Mirrors
<1>6. m.keyframe \in seenKeyframes <=>
        \E j \in 1 .. Len(history) : history[j].kind = "boundary" /\ history[j].keyframe = m.keyframe
  BY DEF Mirrors
<1>7. RawFault(m) = "none" <=>
        /\ m.obs # NoId
        /\ AllowsDuplicate(m.kind)
             \/ \A j \in 1 .. Len(history) : CarriesIdentity(history[j]) => Identity(history[j]) # Identity(m)
  BY <1>1, RawFaultExact
<1>8. BoundaryFault(m) = "none" <=>
        /\ m.keyframe # NoId /\ m.keyframe \notin seenKeyframes
        /\ n > 0 => Earlier(boundaries[n].time, m.time)
        /\ RawFault(m) = "none"
  BY DEF BoundaryFault
<1> QED
  BY <1>1, <1>5, <1>6, <1>7, <1>8 DEF CleanAfter

LEMMA CleanIsFaultless ==
  ASSUME TypeOK, BoundaryOrder, NEW m \in AnyMessages, Handled(m),
         Mirrors(history, seenRaw, known, seenKeyframes, boundaries)
  PROVE  CleanAfter(history, m) <=> faults' = faults
<1>1. /\ faults \in [RecordFaults -> Nat] /\ history \in Seq(AnyMessages)
  BY DEF TypeOK, AnyMessages
<1>2. ASSUME NEW f \in RecordFaults, Reject(f) PROVE faults' # faults
  <2>1. faults'[f] = faults[f] + 1 /\ faults[f] \in Nat
    BY <1>1, <1>2 DEF Reject
  <2> QED
    BY <2>1
<1>3. CASE OnRaw(m)
  <2>1. m.kind \in RawKinds /\ CarriesIdentity(m) /\ m.kind # "boundary"
    BY <1>3 DEF OnRaw, CarriesIdentity, RawKinds
  <2>2. CleanAfter(history, m) <=> RawFault(m) = "none"
    BY <2>1, RawFaultExact DEF CleanAfter
  <2>3. RawFault(m) = "none" => faults' = faults
    BY <1>3, FaultKinds DEF OnRaw
  <2>4. RawFault(m) # "none" => faults' # faults
    BY <1>2, <1>3, FaultKinds DEF OnRaw
  <2> QED
    BY <2>2, <2>3, <2>4
<1>4. CASE OnKeyframeBoundary(m)
  <2>1. m \in BoundaryMessages
    BY <1>4, MessageKinds DEF OnKeyframeBoundary
  <2>2. CleanAfter(history, m) <=> BoundaryFault(m) = "none"
    BY <1>1, <2>1, BoundaryFaultExact
  <2>3. BoundaryFault(m) = "none" => faults' = faults
    BY <1>4, FaultKinds DEF OnKeyframeBoundary
  <2>4. BoundaryFault(m) # "none" => faults' # faults
    BY <1>2, <1>4, FaultKinds DEF OnKeyframeBoundary
  <2> QED
    BY <2>2, <2>3, <2>4
<1>5. CASE (\E log \in Nat : OnMeasurementEvidence(m, log)) \/ OnReferenceState(m) \/ OnIgnored(m)
  BY <1>5 DEF OnMeasurementEvidence, OnReferenceState, OnIgnored, IgnoredKinds,
     CleanAfter, CarriesIdentity, RawKinds
<1> QED
  BY <1>3, <1>4, <1>5 DEF Handled

\* A fault is never taken back.
LEMMA FaultsGrow ==
  ASSUME TypeOK, NEW m \in AnyMessages, Handled(m)
  PROVE  /\ Faultless' => Faultless
         /\ Faultless => (Faultless' <=> faults' = faults)
<1>1. faults \in [RecordFaults -> Nat]
  BY DEF TypeOK
<1>2. CASE faults' = faults
  BY <1>2 DEF Faultless
<1>3. ASSUME NEW f \in RecordFaults, Reject(f) PROVE ~ Faultless'
  <2>1. faults'[f] = faults[f] + 1 /\ faults[f] \in Nat
    BY <1>1, <1>3 DEF Reject
  <2>2. faults'[f] # 0
    BY <2>1
  <2> QED
    BY <2>2 DEF Faultless
<1>4. faults' = faults \/ \E f \in RecordFaults : Reject(f)
  BY FaultKinds DEF Handled, OnRaw, OnKeyframeBoundary, OnMeasurementEvidence,
     OnReferenceState, OnIgnored
<1>5. CASE ~ Faultless'
  <2>1. Faultless => faults' # faults
    BY <1>5 DEF Faultless
  <2> QED
    BY <1>5, <2>1
<1> QED
  BY <1>2, <1>3, <1>4, <1>5

\* A clean record enters the sets the way it enters the history.
LEMMA MirrorsKept ==
  ASSUME TypeOK, NEW m \in AnyMessages, Handled(m), faults' = faults, history' = Append(history, m),
         Mirrors(history, seenRaw, known, seenKeyframes, boundaries)
  PROVE  Mirrors(history', seenRaw', known', seenKeyframes', boundaries')
<1> DEFINE n == Len(history)
           k == Len(boundaries)
<1>1. /\ faults \in [RecordFaults -> Nat] /\ history \in Seq(AnyMessages)
      /\ boundaries \in Seq(BoundaryMessages) /\ m \in AnyMessages
  BY DEF TypeOK, AnyMessages
<1>2. /\ Len(history') = n + 1 /\ n \in Nat
      /\ \A i \in 1 .. n : history'[i] = history[i]
      /\ history'[n + 1] = m
      /\ k \in Nat
  BY <1>1, Appended
<1>3. ASSUME NEW f \in RecordFaults, Reject(f) PROVE FALSE
  <2>1. faults'[f] = faults[f] + 1 /\ faults[f] \in Nat
    BY <1>1, <1>3 DEF Reject
  <2> QED
    BY <2>1
<1>4. \A i : i \in 1 .. n + 1 <=> i \in 1 .. n \/ i = n + 1
  BY <1>2
<1> HIDE DEF n, k
<1>5. CASE OnRaw(m)
  <2>1. /\ CarriesIdentity(m) /\ m.kind # "boundary"
        /\ seenRaw' = seenRaw \cup {Identity(m)} /\ known' = known \cup {m.obs}
        /\ seenKeyframes' = seenKeyframes /\ boundaries' = boundaries
    BY <1>3, <1>5, FaultKinds DEF OnRaw, Register, CarriesIdentity, RawKinds
  <2>2. \A x : x \in seenRaw' <=>
          \E i \in 1 .. Len(history') : CarriesIdentity(history'[i]) /\ Identity(history'[i]) = x
    BY <1>2, <1>4, <2>1 DEF Mirrors, n
  <2>3. \A x : x \in known' <=>
          \E i \in 1 .. Len(history') : CarriesIdentity(history'[i]) /\ history'[i].obs = x
    BY <1>2, <1>4, <2>1 DEF Mirrors, n
  <2>4. \A x : x \in seenKeyframes' <=>
          \E i \in 1 .. Len(history') : history'[i].kind = "boundary" /\ history'[i].keyframe = x
    BY <1>2, <1>4, <2>1 DEF Mirrors, n
  <2>5. /\ \A i \in 1 .. Len(history') : history'[i].kind = "boundary" =>
             \E j \in 1 .. Len(boundaries') : boundaries'[j].time = history'[i].time
        /\ \A j \in 1 .. Len(boundaries') : \E i \in 1 .. Len(history') :
             history'[i].kind = "boundary" /\ boundaries'[j].time = history'[i].time
    BY <1>2, <1>4, <2>1 DEF Mirrors, n
  <2> QED
    BY <2>2, <2>3, <2>4, <2>5 DEF Mirrors
<1>6. CASE OnKeyframeBoundary(m)
  <2>1. /\ CarriesIdentity(m) /\ m.kind = "boundary" /\ m \in BoundaryMessages
        /\ seenRaw' = seenRaw \cup {Identity(m)} /\ known' = known \cup {m.obs}
        /\ seenKeyframes' = seenKeyframes \cup {m.keyframe} /\ boundaries' = Append(boundaries, m)
    BY <1>3, <1>6, FaultKinds, MessageKinds DEF OnKeyframeBoundary, Register, CarriesIdentity
  <2>2. /\ Len(boundaries') = k + 1
        /\ \A i \in 1 .. k : boundaries'[i] = boundaries[i]
        /\ boundaries'[k + 1] = m
    BY <1>1, <2>1, Appended DEF k
  <2>3. \A i : i \in 1 .. k + 1 <=> i \in 1 .. k \/ i = k + 1
    BY <1>2
  <2>4. \A i \in 1 .. Len(history') : history'[i].kind = "boundary" =>
          \E j \in 1 .. Len(boundaries') : boundaries'[j].time = history'[i].time
    <3>1. ASSUME NEW i \in 1 .. n, history[i].kind = "boundary"
          PROVE  \E j \in 1 .. k + 1 : boundaries'[j].time = history[i].time
      <4>1. PICK j \in 1 .. k : boundaries[j].time = history[i].time
        BY <3>1 DEF Mirrors, n, k
      <4> QED
        BY <2>2, <2>3, <4>1
    <3>2. k + 1 \in 1 .. k + 1
      BY <2>3
    <3>3. ASSUME NEW i \in 1 .. n + 1, history'[i].kind = "boundary"
          PROVE  \E j \in 1 .. k + 1 : boundaries'[j].time = history'[i].time
      <4>1. CASE i \in 1 .. n
        BY <1>2, <3>1, <3>3, <4>1
      <4>2. CASE i = n + 1
        BY <1>2, <2>2, <3>2, <4>2
      <4> QED
        BY <1>4, <3>3, <4>1, <4>2
    <3> QED
      BY <1>2, <2>2, <3>3
  <2>5. \A j \in 1 .. Len(boundaries') : \E i \in 1 .. Len(history') :
          history'[i].kind = "boundary" /\ boundaries'[j].time = history'[i].time
    <3>1. \A j \in 1 .. k : \E i \in 1 .. n :
            history[i].kind = "boundary" /\ boundaries[j].time = history[i].time
      BY DEF Mirrors, n, k
    <3>2. ASSUME NEW j \in 1 .. k + 1
          PROVE  \E i \in 1 .. n + 1 :
                   history'[i].kind = "boundary" /\ boundaries'[j].time = history'[i].time
      <4>1. CASE j \in 1 .. k
        <5>1. PICK i \in 1 .. n :
                history[i].kind = "boundary" /\ boundaries[j].time = history[i].time
          BY <3>1, <4>1
        <5>2. i \in 1 .. n + 1 /\ history'[i] = history[i] /\ boundaries'[j] = boundaries[j]
          BY <1>2, <2>2, <4>1, <5>1
        <5> QED
          BY <5>1, <5>2
      <4>2. CASE j = k + 1
        BY <1>2, <2>1, <2>2, <4>2
      <4> QED
        BY <2>3, <4>1, <4>2
    <3> QED
      BY <1>2, <2>2, <3>2
  <2>6. \A x : x \in seenRaw' <=>
          \E i \in 1 .. Len(history') : CarriesIdentity(history'[i]) /\ Identity(history'[i]) = x
    BY <1>2, <1>4, <2>1 DEF Mirrors, n
  <2>7. \A x : x \in known' <=>
          \E i \in 1 .. Len(history') : CarriesIdentity(history'[i]) /\ history'[i].obs = x
    BY <1>2, <1>4, <2>1 DEF Mirrors, n
  <2>8. \A x : x \in seenKeyframes' <=>
          \E i \in 1 .. Len(history') : history'[i].kind = "boundary" /\ history'[i].keyframe = x
    BY <1>2, <1>4, <2>1 DEF Mirrors, n
  <2> QED
    BY <2>4, <2>5, <2>6, <2>7, <2>8 DEF Mirrors
<1>7. CASE (\E log \in Nat : OnMeasurementEvidence(m, log)) \/ OnReferenceState(m) \/ OnIgnored(m)
  <2>1. /\ ~ CarriesIdentity(m) /\ m.kind # "boundary"
        /\ UNCHANGED <<seenRaw, known, seenKeyframes, boundaries>>
    BY <1>7 DEF OnMeasurementEvidence, OnReferenceState, OnIgnored, IgnoredKinds,
       CarriesIdentity, RawKinds, idVars, dataVars
  <2> QED
    BY <1>2, <1>4, <2>1 DEF Mirrors, n
<1> QED
  BY <1>5, <1>6, <1>7 DEF Handled

LEMMA EvidenceKept ==
  ASSUME TypeOK, NEW m \in AnyMessages, Handled(m), history' = Append(history, m),
         EvidenceOf(history, evidence)
  PROVE  EvidenceOf(history', evidence')
<1> DEFINE n == Len(history)
           k == Len(evidence)
<1>1. /\ history \in Seq(AnyMessages) /\ evidence \in Seq(EvidenceMessages) /\ m \in AnyMessages
  BY DEF TypeOK, AnyMessages
<1>2. /\ Len(history') = n + 1 /\ n \in Nat
      /\ \A i \in 1 .. n : history'[i] = history[i]
      /\ history'[n + 1] = m
      /\ k \in Nat
  BY <1>1, Appended
<1>3. \A i : i \in 1 .. n + 1 <=> i \in 1 .. n \/ i = n + 1
  BY <1>2
<1>4. CASE \E log \in Nat : OnMeasurementEvidence(m, log)
  <2>1. m.kind = "evidence" /\ m \in EvidenceMessages /\ evidence' = Append(evidence, m)
    BY <1>4, MessageKinds DEF OnMeasurementEvidence
  <2>2. /\ Len(evidence') = k + 1
        /\ \A i \in 1 .. k : evidence'[i] = evidence[i]
        /\ evidence'[k + 1] = m
    BY <1>1, <2>1, Appended
  <2>3. \A i : i \in 1 .. k + 1 <=> i \in 1 .. k \/ i = k + 1
    BY <1>2
  <2> HIDE DEF n, k
  <2>4. ASSUME NEW i \in 1 .. n + 1, history'[i].kind = "evidence"
        PROVE  \E j \in 1 .. k + 1 : evidence'[j] = history'[i]
    <3>1. CASE i \in 1 .. n
      <4>1. PICK j \in 1 .. k : evidence[j] = history[i]
        BY <1>2, <2>4, <3>1 DEF EvidenceOf, n, k
      <4> QED
        BY <1>2, <2>2, <2>3, <3>1, <4>1
    <3>2. CASE i = n + 1
      BY <1>2, <2>2, <2>3, <3>2
    <3> QED
      BY <1>3, <2>4, <3>1, <3>2
  <2>5. ASSUME NEW j \in 1 .. k + 1
        PROVE  \E i \in 1 .. n + 1 : history'[i].kind = "evidence" /\ evidence'[j] = history'[i]
    <3>1. CASE j \in 1 .. k
      <4>1. PICK i \in 1 .. n : history[i].kind = "evidence" /\ evidence[j] = history[i]
        BY <3>1 DEF EvidenceOf, n, k
      <4> QED
        BY <1>2, <1>3, <2>2, <3>1, <4>1
    <3>2. CASE j = k + 1
      BY <1>2, <1>3, <2>1, <2>2, <3>2
    <3> QED
      BY <2>3, <2>5, <3>1, <3>2
  <2>6. Len(history') = n + 1 /\ Len(evidence') = k + 1
    BY <1>2, <2>2
  <2>7. \A i \in 1 .. Len(history') : history'[i].kind = "evidence" =>
          \E j \in 1 .. Len(evidence') : evidence'[j] = history'[i]
    BY <2>4, <2>6
  <2>8. \A j \in 1 .. Len(evidence') : \E i \in 1 .. Len(history') :
          history'[i].kind = "evidence" /\ evidence'[j] = history'[i]
    BY <2>5, <2>6
  <2> QED
    BY <2>7, <2>8 DEF EvidenceOf
<1>5. CASE OnRaw(m) \/ OnKeyframeBoundary(m) \/ OnReferenceState(m) \/ OnIgnored(m)
  <2>1. m.kind # "evidence" /\ evidence' = evidence
    BY <1>5 DEF OnRaw, OnKeyframeBoundary, OnReferenceState, OnIgnored, IgnoredKinds,
       RawKinds, Reject, dataVars
  <2> HIDE DEF n, k
  <2> QED
    BY <1>2, <1>3, <2>1 DEF EvidenceOf, n
<1> QED
  BY <1>4, <1>5 DEF Handled

LEMMA GateStart == Init => GateInv
<1> SUFFICES ASSUME Init PROVE GateInv
  OBVIOUS
<1>1. Len(history) = 0 /\ Len(boundaries) = 0 /\ Len(evidence) = 0
  BY DEF Init
<1>2. Faultless /\ CleanRecords(history)
  BY <1>1 DEF Init, Faultless, CleanRecords
<1>3. Mirrors(history, seenRaw, known, seenKeyframes, boundaries)
  BY <1>1 DEF Init, Mirrors
<1>4. EvidenceOf(history, evidence)
  BY <1>1 DEF EvidenceOf
<1> QED
  BY <1>2, <1>3, <1>4 DEF GateInv, Init

LEMMA GateEmit ==
  ASSUME IInv, GateInv, NEW m \in AnyMessages, NEW log \in Nat, Emit(m, log)
  PROVE  GateInv'
<1>1. /\ Handled(m) /\ history' = Append(history, m) /\ verdict' = verdict /\ verdict = "pending"
      /\ TypeOK /\ BoundaryOrder
  BY DEF Emit, Handled, IInv, TypeOK, DataInv, StageInv
<1>2. history \in Seq(AnyMessages) /\ m \in AnyMessages
  BY <1>1 DEF TypeOK, AnyMessages
<1>3. CleanRecords(history') <=> CleanRecords(history) /\ CleanAfter(history, m)
  BY <1>1, <1>2, CleanAppend
<1>4. CleanRecords(history) => (CleanAfter(history, m) <=> faults' = faults)
  BY <1>1, CleanIsFaultless DEF GateInv
<1>5. Faultless' <=> CleanRecords(history')
  BY <1>1, <1>3, <1>4, FaultsGrow DEF GateInv
<1>6. CleanRecords(history') => Mirrors(history', seenRaw', known', seenKeyframes', boundaries')
  BY <1>1, <1>3, <1>4, MirrorsKept DEF GateInv
<1>7. EvidenceOf(history', evidence')
  BY <1>1, EvidenceKept DEF GateInv
<1> QED
  BY <1>1, <1>5, <1>6, <1>7 DEF GateInv

LEMMA GateStep == IInv /\ GateInv /\ [IngressStep]_vars => GateInv'
<1> SUFFICES ASSUME IInv, GateInv, [IngressStep]_vars PROVE GateInv'
  OBVIOUS
<1>1. ASSUME NEW m \in AnyMessages, NEW log \in Nat, Emit(m, log) PROVE GateInv'
  BY <1>1, GateEmit
<1>2. CASE Gate
  BY <1>2 DEF Gate, GateInv, Faultless, HasErrors, dataVars, idVars
<1>3. ASSUME Open \/ EndOfBag \/ Pump \/ \E m \in AnyMessages : Skip(m) PROVE GateInv'
  <2>1. /\ UNCHANGED <<faults, history, seenRaw, known, seenKeyframes, boundaries, evidence, verdict>>
        /\ verdict = "pending"
    BY <1>3 DEF Open, EndOfBag, Pump, Skip, dataVars, idVars, IInv, TypeOK, StageInv
  <2> QED
    BY <2>1 DEF GateInv, Faultless
<1>4. CASE UNCHANGED vars
  BY <1>4 DEF vars, dataVars, idVars, GateInv, Faultless, HasErrors
<1> QED
  BY <1>1, <1>2, <1>3, <1>4 DEF IngressStep, Done

\* In a bag without a fault, Flush finds a source dangling exactly when no
\* record of the bag carries it.
LEMMA SourcesFlushed ==
  ASSUME TypeOK, EvidenceOf(history, evidence),
         Mirrors(history, seenRaw, known, seenKeyframes, boundaries)
  PROVE  DanglingSources = {} <=> SourcesObserved(history)
<1>1. \A x : x \in known <=> Observed(history, x)
  BY DEF Mirrors, Observed
<1>2. DOMAIN evidence = 1 .. Len(evidence)
  BY LenProperties DEF TypeOK
<1>3. ASSUME SourcesObserved(history), NEW p \in DanglingSources PROVE FALSE
  <2>1. PICK i \in 1 .. Len(evidence) : p \in {i} \X DOMAIN evidence[i].sources
    BY <1>2, <1>3 DEF DanglingSources
  <2>2. p[1] = i /\ p[2] \in DOMAIN evidence[i].sources /\ evidence[i].sources[p[2]] \notin known
    BY <1>3, <2>1 DEF DanglingSources
  <2>3. PICK h \in 1 .. Len(history) : history[h].kind = "evidence" /\ evidence[i] = history[h]
    BY <2>1 DEF EvidenceOf
  <2> QED
    BY <1>1, <1>3, <2>2, <2>3 DEF SourcesObserved
<1>4. ASSUME DanglingSources = {}, NEW h \in 1 .. Len(history), history[h].kind = "evidence",
             NEW k \in DOMAIN history[h].sources
      PROVE  Observed(history, history[h].sources[k])
  <2>1. PICK i \in 1 .. Len(evidence) : evidence[i] = history[h]
    BY <1>4 DEF EvidenceOf
  <2>2. <<i, k>> \notin DanglingSources
    BY <1>4
  <2>3. evidence[i].sources[k] \in known
    BY <1>2, <1>4, <2>1, <2>2 DEF DanglingSources
  <2> QED
    BY <1>1, <2>1, <2>3
<1> QED
  BY <1>3, <1>4 DEF SourcesObserved

\* What the invariants say at the gate.
LEMMA GateEnough == IInv /\ GateInv => GateExact
<1> SUFFICES ASSUME IInv, GateInv, status = "completed", verdict # "pending"
             PROVE  verdict = "accepted" <=> CleanRecords(history) /\ SourcesObserved(history)
  BY DEF GateExact
<1>1. pc = "exit" /\ flushes > 0 /\ dangling = DanglingSources /\ TypeOK
  BY DEF IInv, StageInv, FlushAfterCompletePass
<1>2. HasErrors <=> dangling # {} \/ ~ Faultless
  <2>1. \A f \in RecordFaults : faults[f] > 0 <=> faults[f] # 0
    BY <1>1 DEF TypeOK
  <2> QED
    BY <2>1 DEF HasErrors, Faultless
<1> QED
  BY <1>1, <1>2, SourcesFlushed DEF GateInv

\* A complete bag is accepted exactly when each of its records is clean and
\* each evidence source is observed somewhere in it, for bags of any length.
THEOREM GateCorrect == Spec => []GateExact
  BY Invariance, NextIsIngress, GateStart, GateStep, GateEnough, PTL DEF Spec

-----------------------------------------------------------------------------
(***************************************************************************)
(* The types of a bag.                                                     *)
(***************************************************************************)
MessageIds == ({"tick", "kf", "imu", "boundary"} \X Nat) \cup {NoId}

Motions == {"none", "rest", "moving"}

BagMessages ==
  [topic : Topics, id : MessageIds, keyframe : MessageIds \cup KeyframeIds,
   capture : Nat, receive : Int, log : Nat, noise : (Streams \cup {"none"}) \X Nat,
   motion : Motions, sourced : BOOLEAN]

BagTyped ==
  /\ bag \in Seq(BagMessages)
  /\ tick \in Nat /\ receive \in Int /\ keyframeIndex \in Nat
  /\ draws \in [Streams -> Nat]
  /\ taken \in Seq([written : SUBSET Topics, time : Nat, receive : Int])
  /\ options \in [imu : BOOLEAN, cameras : BOOLEAN, omitRelativePose : BOOLEAN,
                  omitGroundTruth : BOOLEAN, groundTruthOffset : {0, 1}]
  /\ phase \in {"recording", "closed", "audited", "replay"}
  /\ failed \in BOOLEAN
  /\ producer \in {"holoocean", "synthetic", "scheduler"}

\* What RecordingAssumption says of the numbers.
LEMMA Numbers ==
  /\ TickPeriod \in Nat /\ NumKeyframes \in Nat /\ NumKeyframes > 0
  /\ KeyframePeriod \in Nat /\ KeyframePeriod > 0 /\ ImuPeriod \in Nat /\ ImuPeriod > 0
  /\ PreRoll \in Nat /\ MaxTicks \in Nat /\ Boundaries \in Nat
  /\ BoundaryTimes \subseteq Nat
BY RecordingAssumption

LEMMA Product ==
  ASSUME NEW a \in Nat, NEW b \in Nat
  PROVE  a * b \in Nat
OBVIOUS

LEMMA IdsTyped ==
  ASSUME NEW n \in Nat
  PROVE  TickId(n) \in MessageIds /\ KeyframeId(n) \in MessageIds
BY DEF TickId, KeyframeId, MessageIds

LEMMA MessageTyped ==
  ASSUME NEW topic \in Topics, NEW id \in MessageIds, NEW time \in Nat, NEW wall \in Int
  PROVE  /\ Message(topic, id, time, wall) \in BagMessages
         /\ Message(topic, id, time, wall).topic = topic
         /\ Message(topic, id, time, wall).id = id
         /\ Message(topic, id, time, wall).log = time
         /\ Message(topic, id, time, wall).capture = time
         /\ Message(topic, id, time, wall).receive = wall
         /\ Message(topic, id, time, wall).keyframe = NoId
         /\ Message(topic, id, time, wall).sourced
<1>1. /\ NoId \in MessageIds /\ NoNoise \in (Streams \cup {"none"}) \X Nat
      /\ "none" \in Motions
  BY DEF MessageIds, NoNoise, Streams, Motions
<1> QED
  BY <1>1 DEF Message, BagMessages

\* A message with some of its fields replaced.
LEMMA Noisy ==
  ASSUME NEW m \in BagMessages, NEW x \in (Streams \cup {"none"}) \X Nat,
         NEW r, r = [m EXCEPT !.noise = x]
  PROVE  /\ r \in BagMessages /\ r.noise = x
         /\ r.topic = m.topic /\ r.id = m.id /\ r.keyframe = m.keyframe /\ r.capture = m.capture
         /\ r.receive = m.receive /\ r.log = m.log /\ r.motion = m.motion
         /\ r.sourced = m.sourced
BY DEF BagMessages

LEMMA Keyed ==
  ASSUME NEW m \in BagMessages, NEW x \in MessageIds \cup KeyframeIds,
         NEW r, r = [m EXCEPT !.keyframe = x]
  PROVE  /\ r \in BagMessages /\ r.keyframe = x
         /\ r.topic = m.topic /\ r.id = m.id /\ r.capture = m.capture /\ r.receive = m.receive
         /\ r.log = m.log /\ r.noise = m.noise /\ r.motion = m.motion
         /\ r.sourced = m.sourced
BY DEF BagMessages

LEMMA Captured ==
  ASSUME NEW m \in BagMessages, NEW x \in Nat,
         NEW r, r = [m EXCEPT !.capture = x]
  PROVE  /\ r \in BagMessages /\ r.capture = x
         /\ r.topic = m.topic /\ r.id = m.id /\ r.keyframe = m.keyframe /\ r.receive = m.receive
         /\ r.log = m.log /\ r.noise = m.noise /\ r.motion = m.motion
         /\ r.sourced = m.sourced
BY DEF BagMessages

LEMMA Logged ==
  ASSUME NEW m \in BagMessages, NEW x \in Nat,
         NEW r, r = [m EXCEPT !.log = x]
  PROVE  /\ r \in BagMessages /\ r.log = x
         /\ r.topic = m.topic /\ r.id = m.id /\ r.capture = m.capture /\ r.receive = m.receive
         /\ r.keyframe = m.keyframe /\ r.noise = m.noise /\ r.motion = m.motion
         /\ r.sourced = m.sourced
BY DEF BagMessages

LEMMA Sampled ==
  ASSUME NEW m \in BagMessages, NEW y \in Motions,
         NEW r, r = [m EXCEPT !.motion = y]
  PROVE  /\ r \in BagMessages /\ r.motion = y
         /\ r.topic = m.topic /\ r.id = m.id /\ r.keyframe = m.keyframe /\ r.capture = m.capture
         /\ r.receive = m.receive /\ r.log = m.log /\ r.noise = m.noise
         /\ r.sourced = m.sourced
BY DEF BagMessages

LEMMA Supplied ==
  ASSUME NEW m \in BagMessages, NEW x \in BOOLEAN,
         NEW r, r = [m EXCEPT !.sourced = x]
  PROVE  /\ r \in BagMessages /\ r.sourced = x
         /\ r.topic = m.topic /\ r.id = m.id /\ r.keyframe = m.keyframe /\ r.capture = m.capture
         /\ r.receive = m.receive /\ r.log = m.log /\ r.noise = m.noise /\ r.motion = m.motion
BY DEF BagMessages

-----------------------------------------------------------------------------
(***************************************************************************)
(* Listings: what is written in one round, one message for each topic,     *)
(* pings aside.                                                            *)
(***************************************************************************)
\* A listing of messages out of V: of every topic in T there is one, of no
\* other topic any, and pings aside there is one only.
Part(s, T, V) ==
  /\ s \in Seq(BagMessages)
  /\ \A i \in 1 .. Len(s) : s[i].topic \in T /\ s[i] \in V
  /\ \A topic \in T : \E i \in 1 .. Len(s) : s[i].topic = topic
  /\ \A i, j \in 1 .. Len(s) : s[i].topic = s[j].topic /\ s[i].topic # "sonar" => i = j

\* The elements of a concatenation.
LEMMA Joined ==
  ASSUME NEW S, NEW s \in Seq(S), NEW t \in Seq(S)
  PROVE  /\ s \o t \in Seq(S) /\ Len(s \o t) = Len(s) + Len(t)
         /\ Len(s) \in Nat /\ Len(t) \in Nat
         /\ \A i \in 1 .. Len(s) : (s \o t)[i] = s[i] /\ i \in 1 .. Len(s \o t)
         /\ \A i \in 1 .. Len(t) : (s \o t)[Len(s) + i] = t[i] /\ Len(s) + i \in 1 .. Len(s \o t)
         /\ \A i \in 1 .. Len(s \o t) :
              \/ i \in 1 .. Len(s) /\ (s \o t)[i] = s[i]
              \/ i \notin 1 .. Len(s) /\ i - Len(s) \in 1 .. Len(t) /\ (s \o t)[i] = t[i - Len(s)]
<1>1. /\ s \o t \in Seq(S) /\ Len(s \o t) = Len(s) + Len(t)
      /\ \A i \in 1 .. Len(s) + Len(t) : (s \o t)[i] = IF i <= Len(s) THEN s[i] ELSE t[i - Len(s)]
  BY ConcatProperties
<1>2. Len(s) \in Nat /\ Len(t) \in Nat
  OBVIOUS
<1>3. ASSUME NEW i \in 1 .. Len(t)
      PROVE  (s \o t)[Len(s) + i] = t[i] /\ Len(s) + i \in 1 .. Len(s \o t)
  <2>1. Len(s) + i \in 1 .. Len(s) + Len(t) /\ ~(Len(s) + i <= Len(s)) /\ (Len(s) + i) - Len(s) = i
    BY <1>2
  <2> QED
    BY <1>1, <2>1
<1>4. ASSUME NEW i \in 1 .. Len(s \o t)
      PROVE  \/ i \in 1 .. Len(s) /\ (s \o t)[i] = s[i]
             \/ i \notin 1 .. Len(s) /\ i - Len(s) \in 1 .. Len(t) /\ (s \o t)[i] = t[i - Len(s)]
  BY <1>1, <1>2
<1> QED
  BY <1>1, <1>2, <1>3, <1>4

LEMMA JoinParts ==
  ASSUME NEW s, NEW t, NEW A, NEW B, NEW V, Part(s, A, V), Part(t, B, V), A \cap B = {}
  PROVE  Part(s \o t, A \cup B, V)
<1> DEFINE u == s \o t
<1>1. s \in Seq(BagMessages) /\ t \in Seq(BagMessages)
  BY DEF Part
<1>2. /\ u \in Seq(BagMessages) /\ Len(s) \in Nat /\ Len(t) \in Nat
      /\ \A i \in 1 .. Len(s) : u[i] = s[i] /\ i \in 1 .. Len(u)
      /\ \A i \in 1 .. Len(t) : u[Len(s) + i] = t[i] /\ Len(s) + i \in 1 .. Len(u)
      /\ \A i \in 1 .. Len(u) :
           \/ i \in 1 .. Len(s) /\ u[i] = s[i]
           \/ i \notin 1 .. Len(s) /\ i - Len(s) \in 1 .. Len(t) /\ u[i] = t[i - Len(s)]
  BY <1>1, Joined
<1> HIDE DEF u
<1>3. \A i \in 1 .. Len(u) : u[i].topic \in A \cup B /\ u[i] \in V
  BY <1>2 DEF Part
<1>4. ASSUME NEW topic \in A \cup B PROVE \E i \in 1 .. Len(u) : u[i].topic = topic
  <2>1. CASE topic \in A
    BY <1>2, <2>1 DEF Part
  <2>2. CASE topic \in B
    <3>1. PICK i \in 1 .. Len(t) : t[i].topic = topic
      BY <2>2 DEF Part
    <3> QED
      BY <1>2, <3>1
  <2> QED
    BY <2>1, <2>2
<1>5. ASSUME NEW i \in 1 .. Len(u), NEW j \in 1 .. Len(u),
             u[i].topic = u[j].topic, u[i].topic # "sonar"
      PROVE  i = j
  <2>1. CASE i \in 1 .. Len(s) /\ j \in 1 .. Len(s)
    BY <1>2, <1>5, <2>1 DEF Part
  <2>2. CASE i \notin 1 .. Len(s) /\ j \notin 1 .. Len(s)
    <3>1. /\ i - Len(s) \in 1 .. Len(t) /\ j - Len(s) \in 1 .. Len(t)
          /\ t[i - Len(s)].topic = t[j - Len(s)].topic /\ t[i - Len(s)].topic # "sonar"
      BY <1>2, <1>5, <2>2
    <3>2. i - Len(s) = j - Len(s)
      BY <3>1 DEF Part
    <3> QED
      BY <1>2, <3>2
  <2>3. CASE i \in 1 .. Len(s) /\ j \notin 1 .. Len(s)
    <3>1. u[i].topic \in A
      BY <1>2, <2>3 DEF Part
    <3>2. u[j].topic \in B
      BY <1>2, <2>3 DEF Part
    <3> QED
      BY <1>5, <3>1, <3>2
  <2>4. CASE i \notin 1 .. Len(s) /\ j \in 1 .. Len(s)
    <3>1. u[j].topic \in A
      BY <1>2, <2>4 DEF Part
    <3>2. u[i].topic \in B
      BY <1>2, <2>4 DEF Part
    <3> QED
      BY <1>5, <3>1, <3>2
  <2> QED
    BY <2>1, <2>2, <2>3, <2>4
<1>6. Part(u, A \cup B, V)
  BY <1>2, <1>3, <1>4, <1>5 DEF Part
<1> QED
  BY <1>6 DEF u

\* What Only writes is a listing.
LEMMA OnlyPart ==
  ASSUME NEW flag \in BOOLEAN, NEW m, NEW V, NEW T,
         flag => m \in BagMessages /\ m \in V /\ T = {m.topic},
         ~flag => T = {}
  PROVE  Part(Only(flag, m), T, V)
<1>1. CASE flag
  <2>1. Only(flag, m) = <<m>> /\ m \in BagMessages /\ m \in V /\ T = {m.topic}
    BY <1>1 DEF Only
  <2>2. <<m>> \in Seq(BagMessages) /\ Len(<<m>>) = 1 /\ <<m>>[1] = m
    BY <2>1
  <2> QED
    BY <2>1, <2>2 DEF Part
<1>2. CASE ~flag
  <2>1. Only(flag, m) = <<>> /\ T = {}
    BY <1>2 DEF Only
  <2>2. <<>> \in Seq(BagMessages) /\ Len(<<>>) = 0
    OBVIOUS
  <2> QED
    BY <2>1, <2>2 DEF Part
<1> QED
  BY <1>1, <1>2

-----------------------------------------------------------------------------
(***************************************************************************)
(* A tick of the HoloOcean recorder.                                       *)
(***************************************************************************)
IdOf(topic, sensors) ==
  IF topic \in {"left", "right", "gt", "depth"} THEN CameraId(sensors) ELSE TickId(tick)

Written(topic, sensors, wall) ==
  Message(topic, IdOf(topic, sensors), tick * TickPeriod, wall)

TickMessages(sensors, wall) == {Written(topic, sensors, wall) : topic \in Topics}

TickTopics == RawTopics \cup {"gt", "depth"}

LEMMA WrittenTyped ==
  ASSUME NEW topic \in Topics, NEW sensors, NEW wall \in Int, BagTyped
  PROVE  /\ Written(topic, sensors, wall) \in BagMessages
         /\ Written(topic, sensors, wall).topic = topic
         /\ Written(topic, sensors, wall).id = IdOf(topic, sensors)
         /\ Written(topic, sensors, wall).log = tick * TickPeriod
         /\ Written(topic, sensors, wall).receive = wall
<1>1. IdOf(topic, sensors) \in MessageIds
  BY IdsTyped DEF IdOf, CameraId, BagTyped
<1>2. tick * TickPeriod \in Nat
  BY Numbers, Product DEF BagTyped
<1> QED
  BY <1>1, <1>2, MessageTyped DEF Written

\* _write_sensor_tick writes one message for each sensor of the tick.
LEMMA TickShape ==
  ASSUME NEW sensors \in TickSets, NEW wall \in Int, BagTyped
  PROVE  Part(SensorTick(sensors, wall), sensors, TickMessages(sensors, wall))
<1> DEFINE w(topic) == Only(topic \in sensors, Written(topic, sensors, wall))
           P(s, T) == Part(s, T \cap sensors, TickMessages(sensors, wall))
<1>1. ASSUME NEW topic \in Topics PROVE P(w(topic), {topic})
  <2>1. /\ Written(topic, sensors, wall) \in BagMessages
        /\ Written(topic, sensors, wall).topic = topic
        /\ Written(topic, sensors, wall) \in TickMessages(sensors, wall)
    BY WrittenTyped DEF TickMessages
  <2>2. /\ topic \in sensors => {topic} \cap sensors = {topic}
        /\ topic \notin sensors => {topic} \cap sensors = {}
        /\ (topic \in sensors) \in BOOLEAN
    OBVIOUS
  <2> QED
    BY <2>1, <2>2, OnlyPart
<1>2. ASSUME NEW s, NEW A, NEW topic \in Topics, P(s, A), topic \notin A
      PROVE  P(s \o w(topic), A \cup {topic})
  <2>1. P(w(topic), {topic})
    BY <1>1
  <2>2. (A \cap sensors) \cap ({topic} \cap sensors) = {}
    BY <1>2
  <2>3. (A \cap sensors) \cup ({topic} \cap sensors) = (A \cup {topic}) \cap sensors
    OBVIOUS
  <2> HIDE DEF w
  <2> QED
    BY <1>2, <2>1, <2>2, <2>3, JoinParts
<1>3. {"left", "main", "right", "gt", "depth", "sonar", "imu", "dvl"} \subseteq Topics
  BY DEF Topics, AuditedTopics, TimedTopics, StampedTopics, RawTopics
<1>4. SensorTick(sensors, wall) =
        w("left") \o w("main") \o w("right") \o w("gt") \o w("depth")
          \o w("sonar") \o w("imu") \o w("dvl")
  BY DEF SensorTick, Written, IdOf
<1> HIDE DEF w, P
<1>5. P(w("left"), {"left"})
  BY <1>1, <1>3
<1>6. P(w("left") \o w("main"), {"left", "main"})
  <2>1. {"left"} \cup {"main"} = {"left", "main"} /\ "main" \notin {"left"}
    OBVIOUS
  <2>2. P(w("left") \o w("main"), {"left"} \cup {"main"})
    BY <1>2, <1>3, <1>5, <2>1
  <2> QED
    BY <2>1, <2>2
<1>7. P(w("left") \o w("main") \o w("right"), {"left", "main", "right"})
  <2>1. {"left", "main"} \cup {"right"} = {"left", "main", "right"} /\ "right" \notin {"left", "main"}
    OBVIOUS
  <2>2. P(w("left") \o w("main") \o w("right"), {"left", "main"} \cup {"right"})
    BY <1>2, <1>3, <1>6, <2>1
  <2> QED
    BY <2>1, <2>2
<1>8. P(w("left") \o w("main") \o w("right") \o w("gt"), {"left", "main", "right", "gt"})
  <2>1. {"left", "main", "right"} \cup {"gt"} = {"left", "main", "right", "gt"} /\ "gt" \notin {"left", "main", "right"}
    OBVIOUS
  <2>2. P(w("left") \o w("main") \o w("right") \o w("gt"), {"left", "main", "right"} \cup {"gt"})
    BY <1>2, <1>3, <1>7, <2>1
  <2> QED
    BY <2>1, <2>2
<1>9. P(w("left") \o w("main") \o w("right") \o w("gt") \o w("depth"), {"left", "main", "right", "gt", "depth"})
  <2>1. {"left", "main", "right", "gt"} \cup {"depth"} = {"left", "main", "right", "gt", "depth"} /\ "depth" \notin {"left", "main", "right", "gt"}
    OBVIOUS
  <2>2. P(w("left") \o w("main") \o w("right") \o w("gt") \o w("depth"), {"left", "main", "right", "gt"} \cup {"depth"})
    BY <1>2, <1>3, <1>8, <2>1
  <2> QED
    BY <2>1, <2>2
<1>10. P(w("left") \o w("main") \o w("right") \o w("gt") \o w("depth")
          \o w("sonar"), {"left", "main", "right", "gt", "depth", "sonar"})
  <2>1. {"left", "main", "right", "gt", "depth"} \cup {"sonar"} = {"left", "main", "right", "gt", "depth", "sonar"} /\ "sonar" \notin {"left", "main", "right", "gt", "depth"}
    OBVIOUS
  <2>2. P(w("left") \o w("main") \o w("right") \o w("gt") \o w("depth")
          \o w("sonar"), {"left", "main", "right", "gt", "depth"} \cup {"sonar"})
    BY <1>2, <1>3, <1>9, <2>1
  <2> QED
    BY <2>1, <2>2
<1>11. P(w("left") \o w("main") \o w("right") \o w("gt") \o w("depth")
          \o w("sonar") \o w("imu"), {"left", "main", "right", "gt", "depth", "sonar", "imu"})
  <2>1. {"left", "main", "right", "gt", "depth", "sonar"} \cup {"imu"} = {"left", "main", "right", "gt", "depth", "sonar", "imu"} /\ "imu" \notin {"left", "main", "right", "gt", "depth", "sonar"}
    OBVIOUS
  <2>2. P(w("left") \o w("main") \o w("right") \o w("gt") \o w("depth")
          \o w("sonar") \o w("imu"), {"left", "main", "right", "gt", "depth", "sonar"} \cup {"imu"})
    BY <1>2, <1>3, <1>10, <2>1
  <2> QED
    BY <2>1, <2>2
<1>12. P(w("left") \o w("main") \o w("right") \o w("gt") \o w("depth")
          \o w("sonar") \o w("imu") \o w("dvl"), {"left", "main", "right", "gt", "depth", "sonar", "imu", "dvl"})
  <2>1. {"left", "main", "right", "gt", "depth", "sonar", "imu"} \cup {"dvl"} = {"left", "main", "right", "gt", "depth", "sonar", "imu", "dvl"} /\ "dvl" \notin {"left", "main", "right", "gt", "depth", "sonar", "imu"}
    OBVIOUS
  <2>2. P(w("left") \o w("main") \o w("right") \o w("gt") \o w("depth")
          \o w("sonar") \o w("imu") \o w("dvl"), {"left", "main", "right", "gt", "depth", "sonar", "imu"} \cup {"dvl"})
    BY <1>2, <1>3, <1>11, <2>1
  <2> QED
    BY <2>1, <2>2
<1>13. {"left", "main", "right", "gt", "depth", "sonar", "imu", "dvl"} \cap sensors = sensors
  BY RecordingAssumption DEF RawTopics
<1> QED
  BY <1>4, <1>12, <1>13 DEF P

LEMMA FirstKept ==
  ASSUME NEW S, NEW s \in Seq(S), NEW t \in Seq(S), Len(s) > 0
  PROVE  s \o t \in Seq(S) /\ Len(s \o t) > 0 /\ (s \o t)[1] = s[1]
BY Joined

\* The left image goes first.
LEMMA LeftFirst ==
  ASSUME NEW sensors, "left" \in sensors, NEW wall \in Int, BagTyped
  PROVE  /\ Len(SensorTick(sensors, wall)) > 0
         /\ SensorTick(sensors, wall)[1] = Written("left", sensors, wall)
<1> DEFINE w(topic) == Only(topic \in sensors, Written(topic, sensors, wall))
           P(s) == s \in Seq(BagMessages) /\ Len(s) > 0 /\ s[1] = Written("left", sensors, wall)
<1>1. ASSUME NEW topic \in Topics PROVE w(topic) \in Seq(BagMessages)
  BY WrittenTyped DEF Only
<1>2. {"left", "main", "right", "gt", "depth", "sonar", "imu", "dvl"} \subseteq Topics
  BY DEF Topics, AuditedTopics, TimedTopics, StampedTopics, RawTopics
<1>3. P(w("left"))
  <2>1. w("left") = <<Written("left", sensors, wall)>>
    BY DEF Only
  <2>2. Written("left", sensors, wall) \in BagMessages
    BY <1>2, WrittenTyped
  <2>3. /\ <<Written("left", sensors, wall)>> \in Seq(BagMessages)
        /\ Len(<<Written("left", sensors, wall)>>) = 1
        /\ <<Written("left", sensors, wall)>>[1] = Written("left", sensors, wall)
    BY <2>2
  <2>4. P(<<Written("left", sensors, wall)>>)
    BY <2>3
  <2> HIDE DEF w, P
  <2> QED
    BY <2>1, <2>4
<1>4. ASSUME NEW s, P(s), NEW topic \in Topics PROVE P(s \o w(topic))
  <2> HIDE DEF w
  <2> QED
    BY <1>1, <1>4, FirstKept
<1>5. SensorTick(sensors, wall) =
        w("left") \o w("main") \o w("right") \o w("gt") \o w("depth")
          \o w("sonar") \o w("imu") \o w("dvl")
  BY DEF SensorTick, Written, IdOf
<1> HIDE DEF w, P
<1>6. P(w("left") \o w("main") \o w("right") \o w("gt"))
  BY <1>2, <1>3, <1>4
<1>7. P(w("left") \o w("main") \o w("right") \o w("gt") \o w("depth")
          \o w("sonar") \o w("imu") \o w("dvl"))
  BY <1>2, <1>4, <1>6
<1> QED
  BY <1>5, <1>7 DEF P

-----------------------------------------------------------------------------
(***************************************************************************)
(* The IMU block of synth_bag_gen.                                         *)
(***************************************************************************)
LEMMA Quotient ==
  ASSUME NEW a \in Nat, NEW b \in Nat, b > 0
  PROVE  a \div b \in Nat
OBVIOUS

LEMMA SampleCountTyped == ImuSampleCount \in Nat
<1> DEFINE a == PreRoll + (NumKeyframes - 1) * KeyframePeriod
<1>1. NumKeyframes - 1 \in Nat
  BY Numbers
<1>2. a \in Nat
  BY <1>1, Numbers, Product
<1> HIDE DEF a
<1>3. 2 * a + ImuPeriod \in Nat /\ 2 * ImuPeriod \in Nat /\ 2 * ImuPeriod > 0
  BY <1>2, Numbers
<1>4. (2 * a + ImuPeriod) \div (2 * ImuPeriod) \in Nat
  BY <1>3, Quotient
<1> QED
  BY <1>4 DEF ImuSampleCount, Rounded, a

\* The IMU block sample by sample.
LEMMA ImuBlockShape ==
  /\ ImuBlock \in Seq(BagMessages)
  /\ Len(ImuBlock) = ImuSampleCount + 1
  /\ \A k \in 1 .. Len(ImuBlock) :
       /\ ImuBlock[k].topic = "imu" /\ ImuBlock[k].id = <<"imu", k - 1>>
       /\ ImuBlock[k].noise = <<"imu", ImuDraws(k - 1)>>
       /\ ImuBlock[k].log = (k - 1) * ImuPeriod /\ ImuBlock[k].capture = ImuBlock[k].log
       /\ ImuBlock[k].receive = ImuBlock[k].log /\ ImuBlock[k].keyframe = NoId
       /\ ImuBlock[k].motion = Motion(ImuBlock[k].log)
<1> DEFINE n == ImuSampleCount + 1
           sample(k) == [Message("imu", <<"imu", k - 1>>, (k - 1) * ImuPeriod, (k - 1) * ImuPeriod)
                           EXCEPT !.noise = <<"imu", ImuDraws(k - 1)>>,
                                  !.motion = Motion((k - 1) * ImuPeriod)]
<1>1. n \in Nat
  BY SampleCountTyped
<1>2. ImuBlock = [k \in 1 .. n |-> sample(k)]
  BY DEF ImuBlock
<1>3. ASSUME NEW k \in 1 .. n
      PROVE  /\ sample(k) \in BagMessages
             /\ sample(k).topic = "imu" /\ sample(k).id = <<"imu", k - 1>>
             /\ sample(k).noise = <<"imu", ImuDraws(k - 1)>>
             /\ sample(k).log = (k - 1) * ImuPeriod /\ sample(k).capture = sample(k).log
             /\ sample(k).receive = sample(k).log /\ sample(k).keyframe = NoId
             /\ sample(k).motion = Motion(sample(k).log)
  <2>1. k - 1 \in Nat /\ (k - 1) * ImuPeriod \in Nat
    BY <1>1, Numbers, Product
  <2>2. <<"imu", k - 1>> \in MessageIds /\ NoId \in MessageIds
    BY <2>1 DEF MessageIds
  <2>3. <<"imu", ImuDraws(k - 1)>> \in (Streams \cup {"none"}) \X Nat
    BY <2>1 DEF ImuDraws, Streams
  <2>4. "imu" \in Topics
    BY DEF Topics, AuditedTopics, TimedTopics, StampedTopics, RawTopics
  <2> DEFINE m == Message("imu", <<"imu", k - 1>>, (k - 1) * ImuPeriod, (k - 1) * ImuPeriod)
  <2>5. /\ m \in BagMessages /\ m.topic = "imu" /\ m.id = <<"imu", k - 1>>
        /\ m.log = (k - 1) * ImuPeriod /\ m.capture = (k - 1) * ImuPeriod
        /\ m.receive = (k - 1) * ImuPeriod /\ m.keyframe = NoId
    BY <2>1, <2>2, <2>4, MessageTyped
  <2> HIDE DEF m
  <2> DEFINE r == sample(k)
             x == <<"imu", ImuDraws(k - 1)>>
             y == Motion((k - 1) * ImuPeriod)
             q == [m EXCEPT !.noise = x]
  <2>6. r = [q EXCEPT !.motion = y] /\ q = [m EXCEPT !.noise = x]
    BY DEF m
  <2>7. x \in (Streams \cup {"none"}) \X Nat /\ y \in Motions
    BY <2>3 DEF Motion, Motions
  <2> HIDE DEF r, x, y, q
  <2>8. /\ q \in BagMessages /\ q.noise = x
        /\ q.topic = m.topic /\ q.id = m.id /\ q.keyframe = m.keyframe /\ q.capture = m.capture
        /\ q.receive = m.receive /\ q.log = m.log
    BY <2>5, <2>6, <2>7, Noisy
  <2>9. r \in BagMessages
    BY <2>6, <2>7, <2>8, Sampled
  <2>13. r.motion = y
    BY <2>6, <2>7, <2>8, Sampled
  <2>10. /\ r.topic = q.topic /\ r.id = q.id /\ r.keyframe = q.keyframe
         /\ r.capture = q.capture /\ r.receive = q.receive /\ r.log = q.log /\ r.noise = q.noise
    BY <2>6, <2>7, <2>8, Sampled
  <2>11. /\ r.topic = "imu" /\ r.id = <<"imu", k - 1>> /\ r.noise = x /\ r.keyframe = NoId
         /\ r.log = (k - 1) * ImuPeriod /\ r.capture = r.log /\ r.receive = r.log
    BY <2>5, <2>8, <2>10
  <2>12. r.motion = Motion(r.log)
    BY <2>11, <2>13 DEF y
  <2> QED
    BY <2>9, <2>11, <2>12 DEF r, x
<1> HIDE DEF n, sample
<1>4. ImuBlock \in Seq(BagMessages) /\ Len(ImuBlock) = n
  BY <1>1, <1>2, <1>3
<1> QED
  BY <1>2, <1>3, <1>4 DEF n

-----------------------------------------------------------------------------
(***************************************************************************)
(* A keyframe of synth_bag_gen.                                            *)
(***************************************************************************)
KeyframeTopics(targets) ==
  (IF options.imu THEN {"boundary"} ELSE {}) \cup (IF options.omitGroundTruth THEN {} ELSE {"gt"})
    \cup (IF HasEdge THEN {"relpose"} ELSE {}) \cup (IF targets > 0 THEN {"sonar"} ELSE {})
    \cup (IF options.cameras THEN {"left"} ELSE {})
    \cup (IF options.cameras THEN {"right"} ELSE {}) \cup {"depth"}

\* What a message of a keyframe round says.
RoundMessages ==
  {m \in BagMessages :
     /\ m.log = KeyframeTime /\ m.receive = KeyframeTime
     /\ m.topic \in {"left", "right", "sonar", "boundary", "depth"} => m.capture = KeyframeTime
     /\ m.topic \in {"left", "right", "sonar", "depth", "gt"} => m.id = KeyframeId(keyframeIndex)
     /\ m.topic = "gt" => m.capture = KeyframeTime + options.groundTruthOffset
     /\ m.topic = "boundary" => /\ m.id = <<"boundary", keyframeIndex>>
                                /\ m.keyframe = KeyframeId(keyframeIndex) /\ m.sourced
     /\ m.topic = "relpose" => m.id = NoId /\ m.noise = Noise("pose") /\ HasEdge}

LEMMA TimeTyped ==
  ASSUME BagTyped
  PROVE  StartTime \in Nat /\ keyframeIndex * KeyframePeriod \in Nat /\ KeyframeTime \in Nat
<1>1. StartTime \in Nat
  BY Numbers DEF StartTime
<1>2. keyframeIndex * KeyframePeriod \in Nat
  BY Numbers, Product DEF BagTyped
<1> QED
  BY <1>1, <1>2 DEF KeyframeTime

LEMMA EdgeDrawsTyped ==
  ASSUME BagTyped
  PROVE  /\ EdgeDraws \in [Streams -> Nat]
         /\ EdgeDraws["sonar"] = draws["sonar"] /\ EdgeDraws["imu"] = draws["imu"]
         /\ EdgeDraws["pose"] = draws["pose"] + (IF HasEdge THEN 3 ELSE 0)
BY DEF EdgeDraws, Consume, Streams, BagTyped

LEMMA PingsShape ==
  ASSUME NEW n \in Nat, BagTyped
  PROVE  /\ Pings(n) \in Seq(BagMessages) /\ Len(Pings(n)) = n
         /\ \A j \in 1 .. n : /\ Pings(n)[j] \in RoundMessages /\ Pings(n)[j].topic = "sonar"
                               /\ Pings(n)[j].noise = <<"sonar", draws["sonar"] + 2 * (j - 1)>>
<1> DEFINE ping(j) == [Message("sonar", KeyframeId(keyframeIndex), KeyframeTime, KeyframeTime)
                         EXCEPT !.noise = <<"sonar", EdgeDraws["sonar"] + 2 * (j - 1)>>]
<1>1. Pings(n) = [j \in 1 .. n |-> ping(j)]
  BY DEF Pings
<1>2. ASSUME NEW j \in 1 .. n
      PROVE  /\ ping(j) \in RoundMessages /\ ping(j) \in BagMessages /\ ping(j).topic = "sonar"
             /\ ping(j).noise = <<"sonar", draws["sonar"] + 2 * (j - 1)>>
  <2>1. KeyframeTime \in Nat /\ KeyframeId(keyframeIndex) \in MessageIds /\ NoId \in MessageIds
    BY TimeTyped, IdsTyped DEF BagTyped, MessageIds
  <2>2. <<"sonar", draws["sonar"] + 2 * (j - 1)>> \in (Streams \cup {"none"}) \X Nat
    <3>1. draws["sonar"] \in Nat
      BY DEF BagTyped, Streams
    <3> QED
      BY <3>1 DEF Streams
  <2>3. "sonar" \in Topics
    BY DEF Topics, AuditedTopics, TimedTopics, StampedTopics, RawTopics
  <2>4. EdgeDraws["sonar"] = draws["sonar"]
    BY EdgeDrawsTyped
  <2>5. /\ ping(j) \in BagMessages /\ ping(j).topic = "sonar"
        /\ ping(j).noise = <<"sonar", draws["sonar"] + 2 * (j - 1)>>
        /\ ping(j).log = KeyframeTime /\ ping(j).receive = KeyframeTime
        /\ ping(j).capture = KeyframeTime /\ ping(j).id = KeyframeId(keyframeIndex)
    <3> DEFINE m == Message("sonar", KeyframeId(keyframeIndex), KeyframeTime, KeyframeTime)
    <3>1. /\ m \in BagMessages /\ m.topic = "sonar" /\ m.id = KeyframeId(keyframeIndex)
          /\ m.log = KeyframeTime /\ m.capture = KeyframeTime /\ m.receive = KeyframeTime
      BY <2>1, <2>3, MessageTyped
    <3> HIDE DEF m
    <3>2. ping(j) = [m EXCEPT !.noise = <<"sonar", draws["sonar"] + 2 * (j - 1)>>]
      BY <2>4 DEF m
    <3> HIDE DEF ping
    <3> QED
      BY <2>2, <3>1, <3>2, Noisy
  <2> QED
    BY <2>5 DEF RoundMessages
<1> HIDE DEF ping
<1> QED
  BY <1>1, <1>2

\* Listing Only wrote of a keyframe round.
LEMMA RoundOnly ==
  ASSUME NEW flag \in BOOLEAN, NEW m, NEW topic, flag => m \in RoundMessages /\ m.topic = topic
  PROVE  Part(Only(flag, m), IF flag THEN {topic} ELSE {}, RoundMessages)
<1>1. flag => m \in BagMessages /\ m \in RoundMessages
  BY DEF RoundMessages
<1>2. CASE flag
  BY <1>1, <1>2, OnlyPart
<1>3. CASE ~flag
  BY <1>3, OnlyPart
<1> QED
  BY <1>2, <1>3

LEMMA ListingOfPings ==
  ASSUME NEW p \in Seq(BagMessages), NEW V, NEW T,
         \A j \in 1 .. Len(p) : p[j] \in V /\ p[j].topic = "sonar",
         Len(p) > 0 => T = {"sonar"}, Len(p) = 0 => T = {}
  PROVE  Part(p, T, V)
<1>1. Len(p) \in Nat
  OBVIOUS
<1>2. CASE Len(p) > 0
  <2>1. 1 \in 1 .. Len(p)
    BY <1>1, <1>2
  <2> QED
    BY <1>2, <2>1 DEF Part
<1>3. CASE Len(p) = 0
  <2>1. 1 .. Len(p) = {}
    BY <1>3
  <2> QED
    BY <1>3, <2>1 DEF Part
<1> QED
  BY <1>1, <1>2, <1>3

LEMMA PingsPart ==
  ASSUME NEW n \in Nat, BagTyped
  PROVE  Part(Pings(n), IF n > 0 THEN {"sonar"} ELSE {}, RoundMessages)
<1>1. /\ Pings(n) \in Seq(BagMessages) /\ Len(Pings(n)) = n
      /\ \A j \in 1 .. n : Pings(n)[j] \in RoundMessages /\ Pings(n)[j].topic = "sonar"
  BY PingsShape
<1>2. /\ n > 0 => (IF n > 0 THEN {"sonar"} ELSE {}) = {"sonar"}
      /\ n = 0 => (IF n > 0 THEN {"sonar"} ELSE {}) = {}
  OBVIOUS
<1> QED
  BY <1>1, <1>2, ListingOfPings

\* The messages of a keyframe round, one by one.
BoundaryMessage ==
  [Message("boundary", <<"boundary", keyframeIndex>>, KeyframeTime, KeyframeTime)
     EXCEPT !.keyframe = KeyframeId(keyframeIndex)]
TruthMessage ==
  [Message("gt", KeyframeId(keyframeIndex), KeyframeTime, KeyframeTime)
     EXCEPT !.capture = KeyframeTime + options.groundTruthOffset]
EdgeMessage == [Message("relpose", NoId, KeyframeTime, KeyframeTime) EXCEPT !.noise = Noise("pose")]
PlainMessage(topic) == Message(topic, KeyframeId(keyframeIndex), KeyframeTime, KeyframeTime)

LEMMA RoundMessagesTyped ==
  ASSUME BagTyped
  PROVE  /\ BoundaryMessage \in RoundMessages /\ BoundaryMessage.topic = "boundary"
         /\ TruthMessage \in RoundMessages /\ TruthMessage.topic = "gt"
         /\ HasEdge => EdgeMessage \in RoundMessages
         /\ EdgeMessage.topic = "relpose"
         /\ \A topic \in {"left", "right", "depth"} :
              PlainMessage(topic) \in RoundMessages /\ PlainMessage(topic).topic = topic
<1>1. KeyframeTime \in Nat /\ KeyframeId(keyframeIndex) \in MessageIds /\ NoId \in MessageIds
  BY TimeTyped, IdsTyped DEF BagTyped, MessageIds
<1>2. {"boundary", "gt", "relpose", "left", "right", "depth"} \subseteq Topics
  BY DEF Topics, AuditedTopics, TimedTopics, StampedTopics, RawTopics
<1>3. BoundaryMessage \in RoundMessages /\ BoundaryMessage.topic = "boundary"
  <2> DEFINE m == Message("boundary", <<"boundary", keyframeIndex>>, KeyframeTime, KeyframeTime)
             r == BoundaryMessage
  <2>1. <<"boundary", keyframeIndex>> \in MessageIds
    BY DEF MessageIds, BagTyped
  <2>2. /\ m \in BagMessages /\ m.topic = "boundary" /\ m.id = <<"boundary", keyframeIndex>>
        /\ m.log = KeyframeTime /\ m.capture = KeyframeTime /\ m.receive = KeyframeTime
        /\ m.sourced
    BY <1>1, <1>2, <2>1, MessageTyped
  <2>3. r = [m EXCEPT !.keyframe = KeyframeId(keyframeIndex)]
    BY DEF BoundaryMessage
  <2> HIDE DEF m, r
  <2>4. /\ r \in BagMessages /\ r.keyframe = KeyframeId(keyframeIndex)
        /\ r.topic = m.topic /\ r.id = m.id /\ r.capture = m.capture
        /\ r.receive = m.receive /\ r.log = m.log
    BY <1>1, <2>2, <2>3, Keyed
  <2>6. r.sourced
    BY <2>2, <2>3 DEF BagMessages
  <2>5. r \in RoundMessages /\ r.topic = "boundary"
    BY <2>2, <2>4, <2>6 DEF RoundMessages
  <2> QED
    BY <2>5 DEF r
<1>4. TruthMessage \in RoundMessages /\ TruthMessage.topic = "gt"
  <2> DEFINE m == Message("gt", KeyframeId(keyframeIndex), KeyframeTime, KeyframeTime)
             r == TruthMessage
  <2>2. /\ m \in BagMessages /\ m.topic = "gt" /\ m.id = KeyframeId(keyframeIndex)
        /\ m.log = KeyframeTime /\ m.receive = KeyframeTime
    BY <1>1, <1>2, MessageTyped
  <2>3. r = [m EXCEPT !.capture = KeyframeTime + options.groundTruthOffset]
    BY DEF TruthMessage
  <2>6. KeyframeTime + options.groundTruthOffset \in Nat
    BY <1>1 DEF BagTyped
  <2> HIDE DEF m, r
  <2>4. /\ r \in BagMessages /\ r.capture = KeyframeTime + options.groundTruthOffset
        /\ r.topic = m.topic /\ r.id = m.id /\ r.receive = m.receive /\ r.log = m.log
    BY <2>2, <2>3, <2>6, Captured
  <2>5. r \in RoundMessages /\ r.topic = "gt"
    BY <2>2, <2>4 DEF RoundMessages
  <2> QED
    BY <2>5 DEF r
<1>5. EdgeMessage.topic = "relpose" /\ (HasEdge => EdgeMessage \in RoundMessages)
  <2> DEFINE m == Message("relpose", NoId, KeyframeTime, KeyframeTime)
             r == EdgeMessage
  <2>2. /\ m \in BagMessages /\ m.topic = "relpose" /\ m.id = NoId
        /\ m.log = KeyframeTime /\ m.receive = KeyframeTime
    BY <1>1, <1>2, MessageTyped
  <2>3. r = [m EXCEPT !.noise = Noise("pose")]
    BY DEF EdgeMessage
  <2>6. Noise("pose") \in (Streams \cup {"none"}) \X Nat
    BY DEF Noise, BagTyped, Streams
  <2> HIDE DEF m, r
  <2>4. /\ r \in BagMessages /\ r.noise = Noise("pose")
        /\ r.topic = m.topic /\ r.id = m.id /\ r.receive = m.receive /\ r.log = m.log
    BY <2>2, <2>3, <2>6, Noisy
  <2>5. r.topic = "relpose" /\ (HasEdge => r \in RoundMessages)
    BY <2>2, <2>4 DEF RoundMessages
  <2> QED
    BY <2>5 DEF r
<1>6. ASSUME NEW topic \in {"left", "right", "depth"}
      PROVE  PlainMessage(topic) \in RoundMessages /\ PlainMessage(topic).topic = topic
  <2> DEFINE r == PlainMessage(topic)
  <2>1. /\ r \in BagMessages /\ r.topic = topic /\ r.id = KeyframeId(keyframeIndex)
        /\ r.log = KeyframeTime /\ r.capture = KeyframeTime /\ r.receive = KeyframeTime
    BY <1>1, <1>2, MessageTyped DEF PlainMessage
  <2> HIDE DEF r
  <2>2. r \in RoundMessages /\ r.topic = topic
    BY <2>1 DEF RoundMessages
  <2> QED
    BY <2>2 DEF r
<1> QED
  BY <1>3, <1>4, <1>5, <1>6

\* What synth_bag_gen writes in one round.
LEMMA KeyframeShape ==
  ASSUME NEW n \in Nat, BagTyped
  PROVE  Part(KeyframeMessages(n), KeyframeTopics(n), RoundMessages)
<1> DEFINE P(s, T) == Part(s, T, RoundMessages)
           A == IF options.imu THEN {"boundary"} ELSE {}
           B == IF options.omitGroundTruth THEN {} ELSE {"gt"}
           C == IF HasEdge THEN {"relpose"} ELSE {}
           D == IF n > 0 THEN {"sonar"} ELSE {}
           E == IF options.cameras THEN {"left"} ELSE {}
           F == IF options.cameras THEN {"right"} ELSE {}
           a == Only(options.imu, BoundaryMessage)
           b == Only(~options.omitGroundTruth, TruthMessage)
           c == Only(HasEdge, EdgeMessage)
           d == Pings(n)
           e == Only(options.cameras, PlainMessage("left"))
           f == Only(options.cameras, PlainMessage("right"))
           g == <<PlainMessage("depth")>>
<1>1. /\ options.imu \in BOOLEAN /\ options.omitGroundTruth \in BOOLEAN
      /\ options.cameras \in BOOLEAN /\ HasEdge \in BOOLEAN
  BY DEF BagTyped, HasEdge
<1>2. P(a, A)
  BY <1>1, RoundOnly, RoundMessagesTyped
<1>3. P(b, B)
  <2>1. P(b, IF ~options.omitGroundTruth THEN {"gt"} ELSE {})
    <3>1. (~options.omitGroundTruth) \in BOOLEAN
      BY <1>1
    <3> QED
      BY <3>1, RoundOnly, RoundMessagesTyped
  <2> QED
    BY <1>1, <2>1
<1>4. P(c, C)
  BY <1>1, RoundOnly, RoundMessagesTyped
<1>5. P(d, D)
  BY PingsPart
<1>6. P(e, E)
  BY <1>1, RoundOnly, RoundMessagesTyped
<1>7. P(f, F)
  BY <1>1, RoundOnly, RoundMessagesTyped
<1>8. P(g, {"depth"})
  <2>1. P(Only(TRUE, PlainMessage("depth")), IF TRUE THEN {"depth"} ELSE {})
    BY RoundOnly, RoundMessagesTyped
  <2>2. g = Only(TRUE, PlainMessage("depth"))
    BY DEF Only
  <2> QED
    BY <2>1, <2>2
<1>9. KeyframeMessages(n) = a \o b \o c \o d \o e \o f \o g
  BY DEF KeyframeMessages, BoundaryMessage, TruthMessage, EdgeMessage, PlainMessage
<1>10. KeyframeTopics(n) = A \cup B \cup C \cup D \cup E \cup F \cup {"depth"}
  BY DEF KeyframeTopics
<1>11. /\ A \subseteq {"boundary"} /\ B \subseteq {"gt"} /\ C \subseteq {"relpose"}
       /\ D \subseteq {"sonar"} /\ E \subseteq {"left"} /\ F \subseteq {"right"}
  OBVIOUS
<1>12. ASSUME NEW s, NEW t, NEW S, NEW T, P(s, S), P(t, T), S \cap T = {}
       PROVE  P(s \o t, S \cup T)
  BY <1>12, JoinParts
<1> HIDE DEF P, A, B, C, D, E, F, a, b, c, d, e, f, g
<1>13. P(a \o b, A \cup B)
  <2>1. A \cap B = {}
    BY <1>11
  <2> QED
    BY <1>2, <1>3, <1>12, <2>1
<1>14. P(a \o b \o c, A \cup B \cup C)
  <2>1. (A \cup B) \cap C = {}
    BY <1>11
  <2> QED
    BY <1>4, <1>12, <1>13, <2>1
<1>15. P(a \o b \o c \o d, A \cup B \cup C \cup D)
  <2>1. (A \cup B \cup C) \cap D = {}
    BY <1>11
  <2> QED
    BY <1>5, <1>12, <1>14, <2>1
<1>16. P(a \o b \o c \o d \o e, A \cup B \cup C \cup D \cup E)
  <2>1. (A \cup B \cup C \cup D) \cap E = {}
    BY <1>11
  <2> QED
    BY <1>6, <1>12, <1>15, <2>1
<1>17. P(a \o b \o c \o d \o e \o f, A \cup B \cup C \cup D \cup E \cup F)
  <2>1. (A \cup B \cup C \cup D \cup E) \cap F = {}
    BY <1>11
  <2> QED
    BY <1>7, <1>12, <1>16, <2>1
<1>18. P(a \o b \o c \o d \o e \o f \o g, A \cup B \cup C \cup D \cup E \cup F \cup {"depth"})
  <2>1. (A \cup B \cup C \cup D \cup E \cup F) \cap {"depth"} = {}
    BY <1>11
  <2> QED
    BY <1>8, <1>12, <1>17, <2>1
<1> QED
  BY <1>9, <1>10, <1>18 DEF P

-----------------------------------------------------------------------------
(***************************************************************************)
(* Rounds as steps of the specification.                                   *)
(***************************************************************************)
\* What an exception leaves of a tick is a listing, too.
LEMMA PrefixPart ==
  ASSUME NEW s, NEW T, NEW V, Part(s, T, V), NEW n \in 0 .. Len(s)
  PROVE  /\ Part(SubSeq(s, 1, n), {s[i].topic : i \in 1 .. n}, V)
         /\ Len(SubSeq(s, 1, n)) = n
         /\ \A i \in 1 .. n : SubSeq(s, 1, n)[i] = s[i]
         /\ {s[i].topic : i \in 1 .. n} \subseteq T
         /\ n = Len(s) => {s[i].topic : i \in 1 .. n} = T /\ SubSeq(s, 1, n) = s
<1>1. s \in Seq(BagMessages) /\ Len(s) \in Nat
  BY DEF Part
<1>2. \A i \in 1 .. n : i \in 1 .. Len(s) /\ s[i] \in BagMessages
  BY <1>1
<1>3. /\ SubSeq(s, 1, n) \in Seq(BagMessages) /\ Len(SubSeq(s, 1, n)) = n
      /\ \A i \in 1 .. n : SubSeq(s, 1, n)[i] = s[i]
  BY <1>1, <1>2, SubSeqProperties
<1>4. Part(SubSeq(s, 1, n), {s[i].topic : i \in 1 .. n}, V)
  BY <1>2, <1>3 DEF Part
<1>5. {s[i].topic : i \in 1 .. n} \subseteq T
  BY <1>2 DEF Part
<1>6. ASSUME n = Len(s) PROVE {s[i].topic : i \in 1 .. n} = T /\ SubSeq(s, 1, n) = s
  <2>1. T \subseteq {s[i].topic : i \in 1 .. n}
    BY <1>6 DEF Part
  <2>2. SubSeq(s, 1, n) = s
    BY <1>1, <1>6, SubSeqFull
  <2> QED
    BY <1>5, <2>1, <2>2
<1> QED
  BY <1>3, <1>4, <1>5, <1>6

\* Take records the topics of a listing.
LEMMA Topical ==
  ASSUME NEW s, NEW T, NEW V, Part(s, T, V)
  PROVE  {s[i].topic : i \in DOMAIN s} = T
BY DEF Part

RoundOf(W, time, wall) == [written |-> W, time |-> time, receive |-> wall]

\* A round of record_frames: the block it adds, whole or cut by an exception.
TickStep(sensors, block, W) ==
  /\ Part(block, W, TickMessages(sensors, receive'))
  /\ W \subseteq sensors
  /\ FormsPair(sensors) /\ W # {} => "left" \in W
  /\ bag' = bag \o block
  /\ taken' = Append(taken, RoundOf(W, tick * TickPeriod, receive'))
  /\ \/ W = sensors /\ keyframeIndex' = NextKeyframe(sensors) /\ UNCHANGED <<phase, failed>>
     \/ phase' = "closed" /\ failed' = TRUE /\ UNCHANGED keyframeIndex

LEMMA TickSteps ==
  ASSUME BagTyped, NEW sensors \in TickSets, RecordTick(sensors)
  PROVE  receive' \in Int /\ \E block, W : TickStep(sensors, block, W)
<1> DEFINE s == SensorTick(sensors, receive')
           V == TickMessages(sensors, receive')
<1>1. receive' \in Int
  BY DEF RecordTick, WallClock, BagTyped
<1>2. Part(s, sensors, V)
  BY <1>1, TickShape
<1>3. "left" \in sensors => Len(s) > 0 /\ s[1] = Written("left", sensors, receive')
  BY <1>1, LeftFirst
<1>4. "left" \in Topics => Written("left", sensors, receive').topic = "left"
  BY <1>1, WrittenTyped
<1>5. Len(s) \in Nat
  BY <1>2 DEF Part
<1>6. \/ /\ Take(s, tick * TickPeriod, receive')
         /\ keyframeIndex' = NextKeyframe(sensors)
         /\ UNCHANGED <<phase, failed>>
      \/ \E n \in 0 .. Len(s) - 1 :
           /\ Take(SubSeq(s, 1, n), tick * TickPeriod, receive')
           /\ phase' = "closed" /\ failed' = TRUE
           /\ UNCHANGED keyframeIndex
  BY DEF RecordTick
<1> HIDE DEF s, V
<1>7. CASE /\ Take(s, tick * TickPeriod, receive')
           /\ keyframeIndex' = NextKeyframe(sensors)
           /\ UNCHANGED <<phase, failed>>
  <2>1. {s[i].topic : i \in DOMAIN s} = sensors
    BY <1>2, Topical
  <2>2. /\ bag' = bag \o s
        /\ taken' = Append(taken, RoundOf(sensors, tick * TickPeriod, receive'))
    BY <1>7, <2>1 DEF Take, RoundOf
  <2>3. FormsPair(sensors) => "left" \in sensors
    BY DEF FormsPair
  <2>4. TickStep(sensors, s, sensors)
    BY <1>2, <1>7, <2>2, <2>3 DEF TickStep, V
  <2> QED
    BY <1>1, <2>4
<1>8. CASE \E n \in 0 .. Len(s) - 1 :
             /\ Take(SubSeq(s, 1, n), tick * TickPeriod, receive')
             /\ phase' = "closed" /\ failed' = TRUE
             /\ UNCHANGED keyframeIndex
  <2>1. PICK n \in 0 .. Len(s) - 1 :
             /\ Take(SubSeq(s, 1, n), tick * TickPeriod, receive')
             /\ phase' = "closed" /\ failed' = TRUE
             /\ UNCHANGED keyframeIndex
    BY <1>8
  <2> DEFINE W == {s[i].topic : i \in 1 .. n}
             block == SubSeq(s, 1, n)
  <2>2. n \in 0 .. Len(s)
    BY <1>5
  <2>3. /\ Part(block, W, V) /\ W \subseteq sensors
    BY <1>2, <2>2, PrefixPart
  <2>4. {block[i].topic : i \in DOMAIN block} = W
    BY <2>3, Topical
  <2>5. FormsPair(sensors) /\ W # {} => "left" \in W
    <3>1. SUFFICES ASSUME FormsPair(sensors), W # {} PROVE "left" \in W
      OBVIOUS
    <3>2. n > 0
      BY <3>1, <2>2
    <3>3. 1 \in 1 .. n
      BY <2>2, <3>2
    <3>4. s[1].topic = "left"
      BY <3>1, <1>3, <1>4 DEF FormsPair, Topics, AuditedTopics, TimedTopics, StampedTopics, RawTopics
    <3> QED
      BY <3>3, <3>4
  <2>6. /\ bag' = bag \o block
        /\ taken' = Append(taken, RoundOf(W, tick * TickPeriod, receive'))
    BY <2>1, <2>4 DEF Take, RoundOf
  <2> HIDE DEF W, block
  <2>7. TickStep(sensors, block, W)
    BY <2>1, <2>3, <2>5, <2>6 DEF TickStep, V
  <2> QED
    BY <1>1, <2>7
<1> QED
  BY <1>6, <1>7, <1>8

\* A round of synth_bag_gen.
KeyframeStep(n, block) ==
  /\ n \in Nat /\ block = KeyframeMessages(n)
  /\ Part(block, KeyframeTopics(n), RoundMessages)
  /\ bag' = bag \o block
  /\ taken' = Append(taken, RoundOf(KeyframeTopics(n), KeyframeTime, KeyframeTime))
  /\ draws' = Consume(EdgeDraws, "sonar", 2 * n)

LEMMA KeyframeSteps ==
  ASSUME BagTyped, NEW inRange \in SUBSET Targets, GenerateKeyframe(inRange)
  PROVE  \E n, block : KeyframeStep(n, block)
<1> DEFINE n == Cardinality(inRange)
           block == KeyframeMessages(n)
<1>1. n \in Nat
  BY RecordingAssumption, FS_Subset, FS_CardinalityType
<1>2. /\ Take(block, KeyframeTime, KeyframeTime)
      /\ draws' = Consume(EdgeDraws, "sonar", 2 * n)
  BY DEF GenerateKeyframe
<1> HIDE DEF n
<1>3. Part(block, KeyframeTopics(n), RoundMessages)
  BY <1>1, KeyframeShape
<1>4. {block[i].topic : i \in DOMAIN block} = KeyframeTopics(n)
  BY <1>3, Topical
<1>5. /\ bag' = bag \o block
      /\ taken' = Append(taken, RoundOf(KeyframeTopics(n), KeyframeTime, KeyframeTime))
  BY <1>2, <1>4 DEF Take, RoundOf
<1>6. KeyframeStep(n, block)
  BY <1>1, <1>2, <1>3, <1>5 DEF KeyframeStep
<1> QED
  BY <1>6

-----------------------------------------------------------------------------
(***************************************************************************)
(* Every step keeps the types.                                             *)
(***************************************************************************)
LEMMA RoundTyped ==
  ASSUME NEW W, W \subseteq Topics, NEW time \in Nat, NEW wall \in Int
  PROVE  RoundOf(W, time, wall) \in [written : SUBSET Topics, time : Nat, receive : Int]
BY DEF RoundOf

LEMMA TypedInit == RecordingInit => BagTyped
<1>1. ASSUME RecordingInit PROVE BagTyped
  <2>1. /\ tick = 0 /\ receive = MaxTicks + 1 /\ keyframeIndex = 0
        /\ draws = [s \in Streams |-> 0] /\ bag = <<>> /\ taken = <<>>
        /\ phase = "recording" /\ failed = FALSE
        /\ producer \in {"holoocean", "synthetic", "scheduler"}
        /\ options \in [imu : BOOLEAN, cameras : BOOLEAN, omitRelativePose : BOOLEAN,
                         omitGroundTruth : BOOLEAN, groundTruthOffset : {0, 1}]
    BY <1>1 DEF RecordingInit
  <2>2. draws \in [Streams -> Nat] /\ receive \in Int /\ <<>> \in Seq(BagMessages)
          /\ <<>> \in Seq([written : SUBSET Topics, time : Nat, receive : Int])
    BY <2>1, Numbers
  <2> QED
    BY <2>1, <2>2 DEF BagTyped
<1> QED
  BY <1>1

\* The block before the keyframes.
Prelude == <<Message("targets", NoId, 0, 0)>> \o (IF options.imu THEN ImuBlock ELSE <<>>)

\* The streams of the prelude give numbers of their own.
LEMMA PreludeDrawsTyped ==
  ASSUME draws \in [Streams -> Nat], LandmarkDraws \in Nat, ImuDraws(ImuSampleCount + 1) \in Nat
  PROVE  /\ PreludeDraws \in [Streams -> Nat]
         /\ PreludeDraws["sonar"] = draws["sonar"] /\ PreludeDraws["pose"] = draws["pose"]
<1> DEFINE L == IF options.cameras THEN Consume(draws, "landmark", LandmarkDraws) ELSE draws
<1>1. L \in [Streams -> Nat] /\ L["sonar"] = draws["sonar"] /\ L["pose"] = draws["pose"]
  BY DEF Consume, Streams
<1>2. PreludeDraws = IF options.imu THEN Consume(L, "imu", ImuDraws(ImuSampleCount + 1)) ELSE L
  BY DEF PreludeDraws
<1> HIDE DEF L
<1> QED
  BY <1>1, <1>2 DEF Consume, Streams

LEMMA PreludeTyped ==
  /\ Message("targets", NoId, 0, 0) \in BagMessages
  /\ <<Message("targets", NoId, 0, 0)>> \in Seq(BagMessages)
  /\ Len(<<Message("targets", NoId, 0, 0)>>) = 1
  /\ Message("targets", NoId, 0, 0).topic = "targets"
  /\ Prelude \in Seq(BagMessages)
<1>1. "targets" \in Topics /\ NoId \in MessageIds
  BY DEF Topics, MessageIds
<1>2. Message("targets", NoId, 0, 0) \in BagMessages /\ Message("targets", NoId, 0, 0).topic = "targets"
  BY <1>1, MessageTyped
<1>3. /\ <<Message("targets", NoId, 0, 0)>> \in Seq(BagMessages)
      /\ Len(<<Message("targets", NoId, 0, 0)>>) = 1
  BY <1>2
<1>4. (IF options.imu THEN ImuBlock ELSE <<>>) \in Seq(BagMessages)
  BY ImuBlockShape
<1>5. Prelude \in Seq(BagMessages)
  BY <1>3, <1>4, ConcatProperties DEF Prelude
<1> QED
  BY <1>2, <1>3, <1>5

\* The boundary an external scheduler writes.
BoundaryAt(keyframe, obs, sourced, time, log) ==
  [Message("boundary", obs, time, Len(bag) + 1)
     EXCEPT !.keyframe = keyframe, !.log = log, !.sourced = sourced]

\* The identities the next boundary may be given.
GivenIds == {NoId} \cup {BoundaryId(n) : n \in 0 .. Len(bag)}

LEMMA ScheduledTyped ==
  ASSUME BagTyped, NEW keyframe \in KeyframeIds \cup {NoId}, NEW obs, NEW sourced \in BOOLEAN,
         obs \in GivenIds, NEW time \in BoundaryTimes, NEW log \in {Len(bag), time}
  PROVE  /\ BoundaryAt(keyframe, obs, sourced, time, log) \in BagMessages
         /\ BoundaryAt(keyframe, obs, sourced, time, log).topic = "boundary"
         /\ BoundaryAt(keyframe, obs, sourced, time, log).id = obs
         /\ BoundaryAt(keyframe, obs, sourced, time, log).keyframe = keyframe
<1> DEFINE m == Message("boundary", obs, time, Len(bag) + 1)
           r == BoundaryAt(keyframe, obs, sourced, time, log)
<1>1. time \in Nat /\ Len(bag) \in Nat /\ log \in Nat
  BY Numbers DEF BagTyped
<1>2. obs \in MessageIds /\ keyframe \in MessageIds \cup KeyframeIds
  BY <1>1 DEF MessageIds, BoundaryId, GivenIds
<1>3. "boundary" \in Topics
  BY DEF Topics, AuditedTopics, TimedTopics, StampedTopics
<1>4. m \in BagMessages /\ m.topic = "boundary" /\ m.id = obs
  BY <1>1, <1>2, <1>3, MessageTyped
<1> DEFINE q == [m EXCEPT !.keyframe = keyframe]
           p == [q EXCEPT !.log = log]
<1>5. r = [p EXCEPT !.sourced = sourced] /\ p = [q EXCEPT !.log = log]
      /\ q = [m EXCEPT !.keyframe = keyframe]
  BY DEF BoundaryAt
<1> HIDE DEF m, p, q, r
<1>6. q \in BagMessages /\ q.keyframe = keyframe /\ q.topic = m.topic /\ q.id = m.id
  BY <1>2, <1>4, <1>5, Keyed
<1>7. p \in BagMessages
  BY <1>1, <1>5, <1>6, Logged
<1>8. p.topic = q.topic /\ p.id = q.id /\ p.keyframe = q.keyframe
  BY <1>1, <1>5, <1>6, Logged
<1>9. r \in BagMessages
  BY <1>5, <1>7, Supplied
<1>10. r.topic = p.topic /\ r.id = p.id /\ r.keyframe = p.keyframe
  BY <1>5, <1>7, Supplied
<1> QED
  BY <1>4, <1>6, <1>8, <1>9, <1>10 DEF r

LEMMA TypedNext ==
  ASSUME BagTyped, [RecordingNext]_<<recordingVars, vars>>
  PROVE  BagTyped'
<1>1. CASE \E sensors \in TickSets : RecordTick(sensors)
  <2>1. PICK sensors \in TickSets : RecordTick(sensors)
    BY <1>1
  <2>2. receive' \in Int
    BY <2>1, TickSteps
  <2>3. PICK block, W : TickStep(sensors, block, W)
    BY <2>1, TickSteps
  <2>4. W \subseteq Topics /\ tick * TickPeriod \in Nat
    <3>1. W \subseteq sensors
      BY <2>3 DEF TickStep
    <3>2. sensors \subseteq Topics
      BY RecordingAssumption DEF Topics, AuditedTopics, TimedTopics, StampedTopics
    <3> QED
      BY <3>1, <3>2, Numbers, Product DEF BagTyped
  <2>5. bag' \in Seq(BagMessages)
    <3>1. block \in Seq(BagMessages) /\ bag' = bag \o block
      BY <2>3 DEF TickStep, Part
    <3> QED
      BY <3>1, ConcatProperties DEF BagTyped
  <2>6. taken' \in Seq([written : SUBSET Topics, time : Nat, receive : Int])
    <3>1. RoundOf(W, tick * TickPeriod, receive') \in [written : SUBSET Topics, time : Nat, receive : Int]
      BY <2>2, <2>4, RoundTyped
    <3>2. taken' = Append(taken, RoundOf(W, tick * TickPeriod, receive'))
      BY <2>3 DEF TickStep
    <3> QED
      BY <3>1, <3>2, AppendProperties DEF BagTyped
  <2>7. tick' \in Nat /\ keyframeIndex' \in Nat
    BY <2>1, <2>3 DEF RecordTick, TickStep, NextKeyframe, BagTyped
  <2>8. phase' \in {"recording", "closed", "audited", "replay"} /\ failed' \in BOOLEAN
    BY <2>3 DEF TickStep, BagTyped
  <2>9. UNCHANGED <<draws, options, producer>>
    BY <2>1 DEF RecordTick
  <2> QED
    BY <2>2, <2>5, <2>6, <2>7, <2>8, <2>9 DEF BagTyped
<1>2. CASE EndSession
  BY <1>2 DEF EndSession, sourceVars, BagTyped
<1>3. CASE WritePrelude
  <2>1. bag' = Prelude
    BY <1>3 DEF WritePrelude, Prelude
  <2>2. draws' \in [Streams -> Nat]
    <3>1. ImuDraws(ImuSampleCount + 1) \in Nat /\ LandmarkDraws \in Nat
      BY SampleCountTyped, Numbers DEF ImuDraws, LandmarkDraws
    <3>2. draws' = PreludeDraws /\ draws \in [Streams -> Nat]
      BY <1>3 DEF WritePrelude, BagTyped
    <3> QED
      BY <3>1, <3>2, PreludeDrawsTyped
  <2>3. UNCHANGED <<tick, receive, keyframeIndex, taken, options, phase, failed, producer>>
    BY <1>3 DEF WritePrelude
  <2> QED
    BY <2>1, <2>2, <2>3, PreludeTyped DEF BagTyped
<1>4. CASE \E inRange \in SUBSET Targets : GenerateKeyframe(inRange)
  <2>1. PICK inRange \in SUBSET Targets : GenerateKeyframe(inRange)
    BY <1>4
  <2>2. PICK n, block : KeyframeStep(n, block)
    BY <2>1, KeyframeSteps
  <2>3. bag' \in Seq(BagMessages)
    <3>1. block \in Seq(BagMessages) /\ bag' = bag \o block
      BY <2>2 DEF KeyframeStep, Part
    <3> QED
      BY <3>1, ConcatProperties DEF BagTyped
  <2>4. taken' \in Seq([written : SUBSET Topics, time : Nat, receive : Int])
    <3>1. KeyframeTopics(n) \subseteq Topics
      BY DEF KeyframeTopics, Topics, AuditedTopics, TimedTopics, StampedTopics, RawTopics
    <3>2. KeyframeTime \in Nat /\ KeyframeTime \in Int
      BY TimeTyped
    <3>3. taken' = Append(taken, RoundOf(KeyframeTopics(n), KeyframeTime, KeyframeTime))
      BY <2>2 DEF KeyframeStep
    <3> QED
      BY <3>1, <3>2, <3>3, RoundTyped, AppendProperties DEF BagTyped
  <2>5. draws' \in [Streams -> Nat]
    <3>1. n \in Nat /\ draws' = Consume(EdgeDraws, "sonar", 2 * n)
      BY <2>2 DEF KeyframeStep
    <3>2. EdgeDraws \in [Streams -> Nat]
      BY EdgeDrawsTyped
    <3> QED
      BY <3>1, <3>2 DEF Consume, Streams
  <2>6. keyframeIndex' \in Nat
    BY <2>1 DEF GenerateKeyframe, BagTyped
  <2>7. UNCHANGED <<tick, receive, options, phase, failed, producer>>
    BY <2>1 DEF GenerateKeyframe
  <2> QED
    BY <2>3, <2>4, <2>5, <2>6, <2>7 DEF BagTyped
<1>5. CASE CloseSynthetic
  BY <1>5 DEF CloseSynthetic, sourceVars, BagTyped
<1>6. CASE \E keyframe \in KeyframeIds \cup {NoId}, obs \in Ids, sourced \in BOOLEAN,
             time \in BoundaryTimes : ScheduleBoundary(keyframe, obs, sourced, time)
  <2>1. PICK keyframe \in KeyframeIds \cup {NoId}, obs \in Ids, sourced \in BOOLEAN,
             time \in BoundaryTimes : ScheduleBoundary(keyframe, obs, sourced, time)
    BY <1>6
  <2>2. PICK log \in {Len(bag), time} :
          bag' = Append(bag, BoundaryAt(keyframe, obs, sourced, time, log))
    BY <2>1 DEF ScheduleBoundary, BoundaryAt
  <2>3. BoundaryAt(keyframe, obs, sourced, time, log) \in BagMessages
    BY <2>1, ScheduledTyped DEF ScheduleBoundary, GivenIds
  <2>4. bag' \in Seq(BagMessages)
    BY <2>2, <2>3, AppendProperties DEF BagTyped
  <2>5. UNCHANGED <<sourceVars, options, phase, failed, producer>>
    BY <2>1 DEF ScheduleBoundary
  <2> QED
    BY <2>4, <2>5 DEF BagTyped, sourceVars
<1>7. CASE CloseScheduler
  BY <1>7 DEF CloseScheduler, sourceVars, BagTyped
<1>8. CASE AuditMessage \/ AuditBag
  BY <1>8 DEF AuditMessage, AuditBag, sourceVars, BagTyped
<1>9. CASE OpenBag
  BY <1>9 DEF OpenBag, sourceVars, BagTyped
<1>10. CASE ReadMessage
  BY <1>10 DEF ReadMessage, recordingVars, sourceVars, BagTyped
<1>11. CASE FinishReplay
  BY <1>11 DEF FinishReplay, recordingVars, sourceVars, BagTyped
<1>12. CASE UNCHANGED <<recordingVars, vars>>
  BY <1>12 DEF recordingVars, sourceVars, BagTyped
<1> QED
  BY <1>1, <1>2, <1>3, <1>4, <1>5, <1>6, <1>7, <1>8, <1>9, <1>10, <1>11, <1>12 DEF RecordingNext

-----------------------------------------------------------------------------
(***************************************************************************)
(* Keyframes are pairs.                                                    *)
(***************************************************************************)
\* Keyframe n stands in a listing as one pair, of one instant.
Pair(b, n) ==
  \E l, r \in 1 .. Len(b) :
     /\ b[l].topic = "left" /\ b[r].topic = "right"
     /\ b[l].id = KeyframeId(n) /\ b[r].id = KeyframeId(n)
     /\ \A i \in 1 .. Len(b) : b[i].id = KeyframeId(n) =>
          /\ b[i].log = b[l].log
          /\ b[i].topic = "left" => i = l
          /\ b[i].topic = "right" => i = r

LEMMA PairKept ==
  ASSUME NEW b \in Seq(BagMessages), NEW c \in Seq(BagMessages), NEW n,
         Pair(b, n), \A i \in 1 .. Len(c) : c[i].id # KeyframeId(n)
  PROVE  Pair(b \o c, n)
<1> DEFINE u == b \o c
<1>1. /\ \A i \in 1 .. Len(b) : u[i] = b[i] /\ i \in 1 .. Len(u)
      /\ \A i \in 1 .. Len(u) :
           \/ i \in 1 .. Len(b) /\ u[i] = b[i]
           \/ i - Len(b) \in 1 .. Len(c) /\ u[i] = c[i - Len(b)]
  BY Joined
<1>2. PICK l \in 1 .. Len(b), r \in 1 .. Len(b) :
        /\ b[l].topic = "left" /\ b[r].topic = "right"
        /\ b[l].id = KeyframeId(n) /\ b[r].id = KeyframeId(n)
        /\ \A i \in 1 .. Len(b) : b[i].id = KeyframeId(n) =>
             /\ b[i].log = b[l].log
             /\ b[i].topic = "left" => i = l
             /\ b[i].topic = "right" => i = r
  BY DEF Pair
<1> HIDE DEF u
<1>3. ASSUME NEW i \in 1 .. Len(u), u[i].id = KeyframeId(n)
      PROVE  i \in 1 .. Len(b) /\ u[i] = b[i]
  BY <1>1, <1>3
<1>4. Pair(u, n)
  BY <1>1, <1>2, <1>3 DEF Pair
<1> QED
  BY <1>4 DEF u

LEMMA PairNew ==
  ASSUME NEW b \in Seq(BagMessages), NEW c \in Seq(BagMessages), NEW n,
         Pair(c, n), \A i \in 1 .. Len(b) : b[i].id # KeyframeId(n)
  PROVE  Pair(b \o c, n)
<1> DEFINE u == b \o c
<1>1. /\ Len(b) \in Nat
      /\ \A i \in 1 .. Len(c) : u[Len(b) + i] = c[i] /\ Len(b) + i \in 1 .. Len(u)
      /\ \A i \in 1 .. Len(u) :
           \/ i \in 1 .. Len(b) /\ u[i] = b[i]
           \/ i - Len(b) \in 1 .. Len(c) /\ u[i] = c[i - Len(b)]
  BY Joined
<1>2. PICK l \in 1 .. Len(c), r \in 1 .. Len(c) :
        /\ c[l].topic = "left" /\ c[r].topic = "right"
        /\ c[l].id = KeyframeId(n) /\ c[r].id = KeyframeId(n)
        /\ \A i \in 1 .. Len(c) : c[i].id = KeyframeId(n) =>
             /\ c[i].log = c[l].log
             /\ c[i].topic = "left" => i = l
             /\ c[i].topic = "right" => i = r
  BY DEF Pair
<1> HIDE DEF u
<1>3. ASSUME NEW i \in 1 .. Len(u), u[i].id = KeyframeId(n)
      PROVE  /\ u[i].log = c[l].log
             /\ u[i].topic = "left" => i = Len(b) + l
             /\ u[i].topic = "right" => i = Len(b) + r
  <2>1. i - Len(b) \in 1 .. Len(c) /\ u[i] = c[i - Len(b)]
    BY <1>1, <1>3
  <2>2. /\ u[i].log = c[l].log
        /\ u[i].topic = "left" => i - Len(b) = l
        /\ u[i].topic = "right" => i - Len(b) = r
    BY <1>2, <1>3, <2>1
  <2> QED
    BY <1>1, <2>2
<1>4. /\ Len(b) + l \in 1 .. Len(u) /\ u[Len(b) + l] = c[l]
      /\ Len(b) + r \in 1 .. Len(u) /\ u[Len(b) + r] = c[r]
  BY <1>1
<1>5. Pair(u, n)
  BY <1>2, <1>3, <1>4 DEF Pair
<1> QED
  BY <1>5 DEF u

\* The ids of a session so far, and its keyframes.
SessionIds ==
  {KeyframeId(n) : n \in 0 .. keyframeIndex - 1} \cup {TickId(n) : n \in 0 .. tick - 1}

PairsInv ==
  /\ phase = "recording" => failed = FALSE
  /\ producer = "holoocean" /\ ~failed =>
       /\ \A i \in 1 .. Len(bag) : bag[i].id \in SessionIds
       /\ \A n \in 0 .. keyframeIndex - 1 : Pair(bag, n)

LEMMA IdsDiffer ==
  ASSUME NEW m, NEW n
  PROVE  /\ TickId(m) # KeyframeId(n)
         /\ KeyframeId(m) = KeyframeId(n) => m = n
         /\ TickId(m) = TickId(n) => m = n
BY DEF TickId, KeyframeId

\* The ids a tick writes.
LEMMA TickIds ==
  ASSUME BagTyped, NEW sensors, NEW wall \in Int, NEW m \in TickMessages(sensors, wall)
  PROVE  /\ m.topic \in Topics /\ m.log = tick * TickPeriod /\ m.receive = wall
         /\ m.id = KeyframeId(keyframeIndex) \/ m.id = TickId(tick)
         /\ FormsPair(sensors) /\ m.topic \in {"left", "right", "gt", "depth"}
              => m.id = KeyframeId(keyframeIndex)
         /\ ~FormsPair(sensors) => m.id = TickId(tick)
         /\ m.topic \notin {"left", "right", "gt", "depth"} => m.id = TickId(tick)
<1>1. PICK topic \in Topics : m = Written(topic, sensors, wall)
  BY DEF TickMessages
<1>2. /\ m.topic = topic /\ m.id = IdOf(topic, sensors) /\ m.log = tick * TickPeriod
      /\ m.receive = wall
  BY <1>1, WrittenTyped
<1> QED
  BY <1>2 DEF IdOf, CameraId

LEMMA PairsInit == RecordingInit => PairsInv
<1>1. ASSUME RecordingInit PROVE PairsInv
  <2>1. failed = FALSE /\ bag = <<>> /\ keyframeIndex = 0
    BY <1>1 DEF RecordingInit
  <2>2. 1 .. Len(bag) = {} /\ 0 .. keyframeIndex - 1 = {}
    BY <2>1
  <2> QED
    BY <2>1, <2>2 DEF PairsInv
<1> QED
  BY <1>1

LEMMA PairsTick ==
  ASSUME BagTyped, PairsInv, NEW sensors \in TickSets, RecordTick(sensors)
  PROVE  PairsInv'
<1>1. receive' \in Int
  BY TickSteps
<1>2. PICK block, W : TickStep(sensors, block, W)
  BY TickSteps
<1>3. CASE phase' = "closed" /\ failed' = TRUE
  BY <1>3 DEF PairsInv
<1>4. CASE W = sensors /\ keyframeIndex' = NextKeyframe(sensors) /\ UNCHANGED <<phase, failed>>
  <2>1. /\ phase = "recording" /\ producer = "holoocean" /\ producer' = producer /\ tick' = tick + 1
        /\ failed = FALSE /\ failed' = FALSE
    BY <1>4 DEF RecordTick, PairsInv
  <2>2. /\ tick \in Nat /\ keyframeIndex \in Nat
        /\ keyframeIndex' = keyframeIndex + (IF FormsPair(sensors) THEN 1 ELSE 0)
    BY <1>4 DEF BagTyped, NextKeyframe
  <2>3. /\ Part(block, sensors, TickMessages(sensors, receive')) /\ bag' = bag \o block
        /\ bag \in Seq(BagMessages) /\ block \in Seq(BagMessages)
    BY <1>2, <1>4 DEF TickStep, Part, BagTyped
  <2>4. /\ \A i \in 1 .. Len(bag) : bag[i].id \in SessionIds
        /\ \A n \in 0 .. keyframeIndex - 1 : Pair(bag, n)
    BY <2>1 DEF PairsInv
  <2>5. \A i \in 1 .. Len(block) :
          /\ block[i].log = tick * TickPeriod
          /\ block[i].id = KeyframeId(keyframeIndex) \/ block[i].id = TickId(tick)
          /\ FormsPair(sensors) /\ block[i].topic \in {"left", "right", "gt", "depth"}
               => block[i].id = KeyframeId(keyframeIndex)
          /\ ~FormsPair(sensors) => block[i].id = TickId(tick)
    BY <1>1, <2>3, TickIds DEF Part
  <2>6. SessionIds \subseteq SessionIds' /\ TickId(tick) \in SessionIds'
          /\ (FormsPair(sensors) => KeyframeId(keyframeIndex) \in SessionIds')
    <3>1. 0 .. keyframeIndex - 1 \subseteq 0 .. keyframeIndex' - 1 /\ 0 .. tick - 1 \subseteq 0 .. tick' - 1
      BY <2>1, <2>2
    <3>2. tick \in 0 .. tick' - 1 /\ (FormsPair(sensors) => keyframeIndex \in 0 .. keyframeIndex' - 1)
      BY <2>1, <2>2
    <3> QED
      BY <3>1, <3>2 DEF SessionIds, KeyframeId, TickId
  <2>7. ASSUME NEW i \in 1 .. Len(bag') PROVE bag'[i].id \in SessionIds'
    <3>1. CASE i \in 1 .. Len(bag) /\ bag'[i] = bag[i]
      BY <2>4, <2>6, <3>1
    <3>2. CASE i - Len(bag) \in 1 .. Len(block) /\ bag'[i] = block[i - Len(bag)]
      BY <2>5, <2>6, <3>2
    <3> QED
      BY <2>3, <3>1, <3>2, Joined
  <2>8. ASSUME NEW n \in 0 .. keyframeIndex - 1 PROVE Pair(bag', n)
    <3>1. Pair(bag, n) /\ n # keyframeIndex
      BY <2>2, <2>4
    <3>2. \A i \in 1 .. Len(block) : block[i].id # KeyframeId(n)
      BY <2>5, <3>1, IdsDiffer
    <3> QED
      BY <2>3, <3>1, <3>2, PairKept
  <2>9. ASSUME FormsPair(sensors) PROVE Pair(bag', keyframeIndex)
    <3>1. \A i \in 1 .. Len(bag) : bag[i].id # KeyframeId(keyframeIndex)
      <4>1. \A n \in 0 .. keyframeIndex - 1 : n # keyframeIndex
        BY <2>2
      <4> QED
        BY <2>4, <4>1, IdsDiffer DEF SessionIds
    <3>2. PICK l \in 1 .. Len(block) : block[l].topic = "left"
      BY <2>3, <2>9 DEF Part, FormsPair
    <3>3. PICK r \in 1 .. Len(block) : block[r].topic = "right"
      BY <2>3, <2>9 DEF Part, FormsPair
    <3>4. block[l].id = KeyframeId(keyframeIndex) /\ block[r].id = KeyframeId(keyframeIndex)
      BY <2>5, <2>9, <3>2, <3>3
    <3>5. \A i \in 1 .. Len(block) :
            /\ block[i].log = block[l].log
            /\ block[i].topic = "left" => i = l
            /\ block[i].topic = "right" => i = r
      BY <2>3, <2>5, <3>2, <3>3 DEF Part
    <3>6. Pair(block, keyframeIndex)
      BY <3>2, <3>3, <3>4, <3>5 DEF Pair
    <3> QED
      BY <2>3, <3>1, <3>6, PairNew
  <2>10. \A n \in 0 .. keyframeIndex' - 1 : Pair(bag', n)
    <3>1. \A n \in 0 .. keyframeIndex' - 1 : n \in 0 .. keyframeIndex - 1 \/ (FormsPair(sensors) /\ n = keyframeIndex)
      BY <2>2
    <3> QED
      BY <2>8, <2>9, <3>1
  <2> QED
    BY <2>1, <2>7, <2>10 DEF PairsInv
<1> QED
  BY <1>2, <1>3, <1>4 DEF TickStep

LEMMA PairsNext ==
  ASSUME BagTyped, PairsInv, [RecordingNext]_<<recordingVars, vars>>
  PROVE  PairsInv'
<1>1. CASE \E sensors \in TickSets : RecordTick(sensors)
  BY <1>1, PairsTick
<1>2. CASE EndSession
  BY <1>2 DEF EndSession, sourceVars, PairsInv, SessionIds
<1>3. CASE WritePrelude
  BY <1>3 DEF WritePrelude, PairsInv
<1>4. CASE \E inRange \in SUBSET Targets : GenerateKeyframe(inRange)
  BY <1>4 DEF GenerateKeyframe, PairsInv
<1>5. CASE CloseSynthetic
  BY <1>5 DEF CloseSynthetic, PairsInv
<1>6. CASE \E keyframe \in KeyframeIds \cup {NoId}, obs \in Ids, sourced \in BOOLEAN,
             time \in BoundaryTimes : ScheduleBoundary(keyframe, obs, sourced, time)
  BY <1>6 DEF ScheduleBoundary, PairsInv
<1>7. CASE CloseScheduler
  BY <1>7 DEF CloseScheduler, PairsInv
<1>8. CASE AuditMessage \/ AuditBag
  BY <1>8 DEF AuditMessage, AuditBag, sourceVars, PairsInv, SessionIds
<1>9. CASE OpenBag
  BY <1>9 DEF OpenBag, sourceVars, PairsInv, SessionIds
<1>10. CASE UNCHANGED recordingVars
  BY <1>10 DEF recordingVars, sourceVars, PairsInv, SessionIds
<1> QED
  BY <1>1, <1>2, <1>3, <1>4, <1>5, <1>6, <1>7, <1>8, <1>9, <1>10
     DEF RecordingNext, ReadMessage, FinishReplay

LEMMA PairsEnough ==
  ASSUME BagTyped, PairsInv
  PROVE  KeyframesArePairs
<1> SUFFICES ASSUME producer = "holoocean", ~failed
             PROVE  /\ {bag[i].id : i \in {k \in DOMAIN bag : bag[k].id[1] = "kf"}}
                         = {KeyframeId(n) : n \in 0 .. keyframeIndex - 1}
                    /\ \A n \in 0 .. keyframeIndex - 1 :
                         LET pair == {i \in OfTopic("left") \cup OfTopic("right") : bag[i].id = KeyframeId(n)} IN
                         /\ {bag[i].topic : i \in pair} = {"left", "right"}
                         /\ Cardinality(pair) = 2
                         /\ \A i \in DOMAIN bag, k \in pair :
                              bag[i].id = KeyframeId(n) => bag[i].log = bag[k].log
  BY DEF KeyframesArePairs
<1>1. DOMAIN bag = 1 .. Len(bag)
  BY DEF BagTyped
<1>2. /\ \A i \in 1 .. Len(bag) : bag[i].id \in SessionIds
      /\ \A n \in 0 .. keyframeIndex - 1 : Pair(bag, n)
  BY DEF PairsInv
<1>3. {bag[i].id : i \in {k \in DOMAIN bag : bag[k].id[1] = "kf"}}
        = {KeyframeId(n) : n \in 0 .. keyframeIndex - 1}
  <2>1. ASSUME NEW i \in DOMAIN bag, bag[i].id[1] = "kf"
        PROVE  bag[i].id \in {KeyframeId(n) : n \in 0 .. keyframeIndex - 1}
    <3>1. \A n : TickId(n)[1] # "kf"
      BY DEF TickId
    <3> QED
      BY <1>1, <1>2, <2>1, <3>1 DEF SessionIds
  <2>2. ASSUME NEW n \in 0 .. keyframeIndex - 1
        PROVE  \E i \in DOMAIN bag : bag[i].id[1] = "kf" /\ bag[i].id = KeyframeId(n)
    <3>1. KeyframeId(n)[1] = "kf"
      BY DEF KeyframeId
    <3> QED
      BY <1>1, <1>2, <3>1 DEF Pair
  <2> QED
    BY <2>1, <2>2
<1>4. ASSUME NEW n \in 0 .. keyframeIndex - 1
      PROVE  LET pair == {i \in OfTopic("left") \cup OfTopic("right") : bag[i].id = KeyframeId(n)} IN
             /\ {bag[i].topic : i \in pair} = {"left", "right"}
             /\ Cardinality(pair) = 2
             /\ \A i \in DOMAIN bag, k \in pair :
                  bag[i].id = KeyframeId(n) => bag[i].log = bag[k].log
  <2> DEFINE pair == {i \in OfTopic("left") \cup OfTopic("right") : bag[i].id = KeyframeId(n)}
  <2>1. PICK l \in 1 .. Len(bag), r \in 1 .. Len(bag) :
          /\ bag[l].topic = "left" /\ bag[r].topic = "right"
          /\ bag[l].id = KeyframeId(n) /\ bag[r].id = KeyframeId(n)
          /\ \A i \in 1 .. Len(bag) : bag[i].id = KeyframeId(n) =>
               /\ bag[i].log = bag[l].log
               /\ bag[i].topic = "left" => i = l
               /\ bag[i].topic = "right" => i = r
    BY <1>2 DEF Pair
  <2>2. pair = {l, r}
    BY <1>1, <2>1 DEF OfTopic
  <2>3. l # r
    BY <2>1
  <2> HIDE DEF pair
  <2>4. Cardinality(pair) = 2
    <3>1. IsFiniteSet({l}) /\ Cardinality({l}) = 1
      BY FS_Singleton
    <3>2. Cardinality({l} \cup {r}) = Cardinality({l}) + 1
      BY <2>3, <3>1, FS_AddElement
    <3>3. pair = {l} \cup {r}
      BY <2>2
    <3> QED
      BY <3>1, <3>2, <3>3
  <2>5. {bag[i].topic : i \in pair} = {"left", "right"}
    BY <2>1, <2>2
  <2>6. \A i \in DOMAIN bag, k \in pair : bag[i].id = KeyframeId(n) => bag[i].log = bag[k].log
    BY <1>1, <2>1, <2>2
  <2> QED
    BY <2>4, <2>5, <2>6 DEF pair
<1> QED
  BY <1>3, <1>4

\* However many ticks a session has and whatever sensors publish on each: a
\* keyframe id is on one stereo pair and on the pose and the depth reading of
\* its instant, and the ids are dense; only an exception in the middle of a
\* tick leaves less. (record_session.py)
THEOREM KeyframesPaired == RecordingSpec => []KeyframesArePairs
<1>1. RecordingInit => BagTyped /\ PairsInv
  BY TypedInit, PairsInit
<1>2. BagTyped /\ PairsInv /\ [RecordingNext]_<<recordingVars, vars>> => (BagTyped /\ PairsInv)'
  BY TypedNext, PairsNext
<1>3. BagTyped /\ PairsInv => KeyframesArePairs
  BY PairsEnough
<1> QED
  BY <1>1, <1>2, <1>3, PTL DEF RecordingSpec

-----------------------------------------------------------------------------
(***************************************************************************)
(* Noise is positional.                                                    *)
(***************************************************************************)
SonarAt(s) == {k \in 1 .. Len(s) : s[k].topic = "sonar"}

SonarBefore(s, i) == {k \in SonarAt(s) : k < i}

\* The noise of a listing written behind c pings is positional.
SoundBehind(s, c) ==
  \A i \in 1 .. Len(s) :
    /\ s[i].topic = "relpose" =>
         s[i].noise = <<"pose", 3 * ((s[i].log - StartTime) \div KeyframePeriod - 1)>>
    /\ s[i].topic = "imu" => s[i].noise = <<"imu", ImuDraws(s[i].id[2])>>
    /\ s[i].topic = "sonar" =>
         s[i].noise = <<"sonar", 2 * (c + Cardinality(SonarBefore(s, i)))>>

\* Such a listing with d pings of its own.
Sounded(s, c, d) ==
  /\ s \in Seq(BagMessages) /\ d \in Nat
  /\ SoundBehind(s, c)
  /\ Cardinality(SonarAt(s)) = d

LEMMA SonarFinite ==
  ASSUME NEW s \in Seq(BagMessages), NEW i
  PROVE  /\ IsFiniteSet(SonarAt(s)) /\ Cardinality(SonarAt(s)) \in Nat
         /\ IsFiniteSet(SonarBefore(s, i)) /\ Cardinality(SonarBefore(s, i)) \in Nat
<1>1. IsFiniteSet(1 .. Len(s))
  <2>1. Len(s) \in Int
    OBVIOUS
  <2> QED
    BY <2>1, FS_Interval
<1>2. SonarAt(s) \in SUBSET (1 .. Len(s)) /\ SonarBefore(s, i) \in SUBSET (1 .. Len(s))
  BY DEF SonarAt, SonarBefore
<1> QED
  BY <1>1, <1>2, FS_Subset, FS_CardinalityType

\* Moving a finite set of naturals by n does not change its size.
LEMMA Shifted ==
  ASSUME NEW n \in Nat, NEW A, A \subseteq Nat, IsFiniteSet(A),
         NEW B, \A x : x \in B <=> \E a \in A : x = n + a
  PROVE  IsFiniteSet(B) /\ Cardinality(B) = Cardinality(A)
<1> DEFINE f == [a \in A |-> n + a]
<1>1. f \in [A -> B]
  OBVIOUS
<1>2. \A x, y \in A : f[x] = f[y] => x = y
  OBVIOUS
<1>3. \A b \in B : \E a \in A : f[a] = b
  OBVIOUS
<1>4. f \in Bijection(A, B)
  BY <1>1, <1>2, <1>3, Fun_IsBij
<1> QED
  BY <1>4, FS_Bijection DEF ExistsBijection

\* The pings of a concatenation.
LEMMA SonarJoined ==
  ASSUME NEW s \in Seq(BagMessages), NEW t \in Seq(BagMessages)
  PROVE  /\ Cardinality(SonarAt(s \o t)) = Cardinality(SonarAt(s)) + Cardinality(SonarAt(t))
         /\ \A i \in 1 .. Len(s) : SonarBefore(s \o t, i) = SonarBefore(s, i)
         /\ \A i \in 1 .. Len(t) :
              Cardinality(SonarBefore(s \o t, Len(s) + i))
                = Cardinality(SonarAt(s)) + Cardinality(SonarBefore(t, i))
<1> DEFINE u == s \o t
           n == Len(s)
<1>1. /\ u \in Seq(BagMessages) /\ Len(u) = n + Len(t) /\ n \in Nat /\ Len(t) \in Nat
      /\ \A i \in 1 .. n : u[i] = s[i] /\ i \in 1 .. Len(u)
      /\ \A i \in 1 .. Len(t) : u[n + i] = t[i] /\ n + i \in 1 .. Len(u)
      /\ \A i \in 1 .. Len(u) :
           \/ i \in 1 .. n /\ u[i] = s[i]
           \/ i \notin 1 .. n /\ i - n \in 1 .. Len(t) /\ u[i] = t[i - n]
  BY Joined
<1> HIDE DEF u, n
<1>2. ASSUME NEW A, A \subseteq SonarAt(t), NEW B,
             \A x : x \in B <=> \E a \in A : x = n + a
      PROVE  /\ IsFiniteSet(B) /\ Cardinality(B) = Cardinality(A)
             /\ SonarAt(s) \cap B = {}
             /\ Cardinality(SonarAt(s) \cup B) = Cardinality(SonarAt(s)) + Cardinality(A)
  <2>1. A \subseteq Nat /\ IsFiniteSet(A)
    <3>1. SonarAt(t) \subseteq Nat /\ A \in SUBSET SonarAt(t)
      BY <1>1, <1>2 DEF SonarAt
    <3> QED
      BY <3>1, SonarFinite, FS_Subset
  <2>2. IsFiniteSet(B) /\ Cardinality(B) = Cardinality(A)
    BY <1>1, <1>2, <2>1, Shifted
  <2>3. SonarAt(s) \cap B = {}
    <3>1. \A x \in SonarAt(s) : x <= n
      BY <1>1 DEF SonarAt, n
    <3>2. \A x \in B : x > n
      BY <1>1, <1>2 DEF SonarAt
    <3>3. \A x \in SonarAt(s) : x \in Nat
      BY DEF SonarAt
    <3> QED
      BY <1>1, <3>1, <3>2, <3>3
  <2>4. IsFiniteSet(SonarAt(s)) /\ Cardinality(SonarAt(s)) \in Nat
    BY SonarFinite
  <2>5. Cardinality(A) \in Nat /\ Cardinality({}) = 0
    BY <2>1, FS_CardinalityType, FS_EmptySet
  <2>6. Cardinality(SonarAt(s) \cup B)
          = Cardinality(SonarAt(s)) + Cardinality(B) - Cardinality(SonarAt(s) \cap B)
    BY <2>2, <2>4, FS_Union
  <2>7. Cardinality(SonarAt(s) \cup B) = Cardinality(SonarAt(s)) + Cardinality(A) - 0
    BY <2>2, <2>3, <2>5, <2>6
  <2> QED
    BY <2>2, <2>3, <2>4, <2>5, <2>7
<1>3. Cardinality(SonarAt(u)) = Cardinality(SonarAt(s)) + Cardinality(SonarAt(t))
  <2> DEFINE B == {k \in SonarAt(u) : k > n}
  <2>1. \A x : x \in B <=> \E a \in SonarAt(t) : x = n + a
    <3>1. ASSUME NEW x \in B PROVE \E a \in SonarAt(t) : x = n + a
      <4>1. x - n \in 1 .. Len(t) /\ u[x] = t[x - n] /\ x = n + (x - n)
        BY <1>1 DEF SonarAt
      <4> QED
        BY <4>1 DEF SonarAt
    <3>2. ASSUME NEW a \in SonarAt(t) PROVE n + a \in B
      BY <1>1 DEF SonarAt
    <3> QED
      BY <3>1, <3>2
  <2>2. SonarAt(u) = SonarAt(s) \cup B
    BY <1>1 DEF SonarAt, n
  <2> HIDE DEF B
  <2> QED
    BY <1>2, <2>1, <2>2
<1>4. ASSUME NEW i \in 1 .. n PROVE SonarBefore(u, i) = SonarBefore(s, i)
  BY <1>1 DEF SonarBefore, SonarAt, n
<1>5. ASSUME NEW i \in 1 .. Len(t)
      PROVE  Cardinality(SonarBefore(u, n + i)) = Cardinality(SonarAt(s)) + Cardinality(SonarBefore(t, i))
  <2> DEFINE B == {k \in SonarBefore(u, n + i) : k > n}
  <2>1. \A x : x \in B <=> \E a \in SonarBefore(t, i) : x = n + a
    <3>1. ASSUME NEW x \in B PROVE \E a \in SonarBefore(t, i) : x = n + a
      <4>1. x - n \in 1 .. Len(t) /\ u[x] = t[x - n] /\ x = n + (x - n) /\ x - n < i
        BY <1>1 DEF SonarBefore, SonarAt
      <4> QED
        BY <4>1 DEF SonarBefore, SonarAt
    <3>2. ASSUME NEW a \in SonarBefore(t, i) PROVE n + a \in B
      BY <1>1 DEF SonarBefore, SonarAt
    <3> QED
      BY <3>1, <3>2
  <2>2. SonarBefore(u, n + i) = SonarAt(s) \cup B
    BY <1>1 DEF SonarBefore, SonarAt, n
  <2>3. SonarBefore(t, i) \subseteq SonarAt(t)
    BY DEF SonarBefore
  <2> HIDE DEF B
  <2> QED
    BY <1>2, <2>1, <2>2, <2>3
<1> QED
  BY <1>3, <1>4, <1>5 DEF u, n

LEMMA JoinSounded ==
  ASSUME NEW s, NEW t, NEW c \in Nat, NEW d, NEW e, Sounded(s, c, d), Sounded(t, c + d, e)
  PROVE  Sounded(s \o t, c, d + e)
<1> DEFINE u == s \o t
           n == Len(s)
<1>1. s \in Seq(BagMessages) /\ t \in Seq(BagMessages) /\ d \in Nat /\ e \in Nat
      /\ Cardinality(SonarAt(s)) = d /\ Cardinality(SonarAt(t)) = e
  BY DEF Sounded
<1>2. /\ u \in Seq(BagMessages)
      /\ \A i \in 1 .. Len(u) :
           \/ i \in 1 .. n /\ u[i] = s[i]
           \/ i \notin 1 .. n /\ i - n \in 1 .. Len(t) /\ u[i] = t[i - n]
      /\ n \in Nat
  BY <1>1, Joined
<1>3. /\ Cardinality(SonarAt(u)) = d + e
      /\ \A i \in 1 .. n : SonarBefore(u, i) = SonarBefore(s, i)
      /\ \A i \in 1 .. Len(t) :
           Cardinality(SonarBefore(u, n + i)) = d + Cardinality(SonarBefore(t, i))
  BY <1>1, SonarJoined
<1> HIDE DEF u, n
<1>4. SoundBehind(u, c)
  <2> SUFFICES ASSUME NEW i \in 1 .. Len(u)
               PROVE  /\ u[i].topic = "relpose" =>
                           u[i].noise = <<"pose", 3 * ((u[i].log - StartTime) \div KeyframePeriod - 1)>>
                      /\ u[i].topic = "imu" => u[i].noise = <<"imu", ImuDraws(u[i].id[2])>>
                      /\ u[i].topic = "sonar" =>
                           u[i].noise = <<"sonar", 2 * (c + Cardinality(SonarBefore(u, i)))>>
    BY DEF SoundBehind
  <2>1. CASE i \in 1 .. n /\ u[i] = s[i]
    BY <1>3, <2>1 DEF Sounded, SoundBehind, n
  <2>2. CASE i - n \in 1 .. Len(t) /\ u[i] = t[i - n]
    <3> DEFINE j == i - n
    <3>1. /\ j \in 1 .. Len(t) /\ u[i] = t[j] /\ n + j = i
      BY <1>2, <2>2
    <3> HIDE DEF j
    <3>2. Cardinality(SonarBefore(u, i)) = d + Cardinality(SonarBefore(t, j))
      BY <1>3, <3>1
    <3>3. Cardinality(SonarBefore(t, j)) \in Nat
      BY <1>1, SonarFinite
    <3>4. (c + d) + Cardinality(SonarBefore(t, j)) = c + Cardinality(SonarBefore(u, i))
      BY <1>1, <3>2, <3>3
    <3>5. /\ t[j].topic = "relpose" =>
               t[j].noise = <<"pose", 3 * ((t[j].log - StartTime) \div KeyframePeriod - 1)>>
          /\ t[j].topic = "imu" => t[j].noise = <<"imu", ImuDraws(t[j].id[2])>>
          /\ t[j].topic = "sonar" =>
               t[j].noise = <<"sonar", 2 * ((c + d) + Cardinality(SonarBefore(t, j)))>>
      BY <3>1 DEF Sounded, SoundBehind
    <3> QED
      BY <3>1, <3>4, <3>5
  <2> QED
    BY <1>2, <2>1, <2>2
<1>5. Sounded(u, c, d + e)
  BY <1>1, <1>2, <1>3, <1>4 DEF Sounded
<1> QED
  BY <1>5 DEF u

\* A listing that draws no noise of the three kinds.
LEMMA Silent ==
  ASSUME NEW s \in Seq(BagMessages), NEW c,
         \A i \in 1 .. Len(s) : s[i].topic \notin {"relpose", "imu", "sonar"}
  PROVE  Sounded(s, c, 0)
<1>1. SonarAt(s) = {}
  BY DEF SonarAt
<1>2. Cardinality(SonarAt(s)) = 0
  BY <1>1, FS_EmptySet
<1> QED
  BY <1>2 DEF Sounded, SoundBehind

LEMMA SilentEmpty ==
  ASSUME NEW c
  PROVE  Sounded(<<>>, c, 0)
<1> DEFINE s == <<>>
<1>1. s \in Seq(BagMessages) /\ Len(s) = 0
  OBVIOUS
<1> HIDE DEF s
<1>2. \A i \in 1 .. Len(s) : s[i].topic \notin {"relpose", "imu", "sonar"}
  BY <1>1
<1>3. Sounded(s, c, 0)
  BY <1>1, <1>2, Silent
<1> QED
  BY <1>3 DEF s

\* What Only writes is silent when the message is.
LEMMA SilentOnly ==
  ASSUME NEW flag \in BOOLEAN, NEW m \in BagMessages, NEW c,
         m.topic \notin {"relpose", "imu", "sonar"}
  PROVE  Sounded(Only(flag, m), c, 0)
<1>1. CASE flag
  <2> DEFINE s == <<m>>
  <2>1. Only(flag, m) = s
    BY <1>1 DEF Only
  <2>2. s \in Seq(BagMessages) /\ Len(s) = 1 /\ s[1] = m
    OBVIOUS
  <2> HIDE DEF s
  <2>3. \A i \in 1 .. Len(s) : s[i].topic \notin {"relpose", "imu", "sonar"}
    BY <2>2
  <2>4. Sounded(s, c, 0)
    BY <2>2, <2>3, Silent
  <2> QED
    BY <2>1, <2>4
<1>2. CASE ~flag
  <2>1. Only(flag, m) = <<>>
    BY <1>2 DEF Only
  <2> QED
    BY <2>1, SilentEmpty
<1> QED
  BY <1>1, <1>2

\* The pings of a keyframe go on where the pings before it ended.
LEMMA PingsSounded ==
  ASSUME NEW n \in Nat, BagTyped, NEW c \in Nat, draws["sonar"] = 2 * c
  PROVE  Sounded(Pings(n), c, n)
<1> DEFINE p == Pings(n)
<1>1. /\ p \in Seq(BagMessages) /\ Len(p) = n
      /\ \A j \in 1 .. n : p[j].topic = "sonar" /\ p[j].noise = <<"sonar", 2 * c + 2 * (j - 1)>>
  BY PingsShape
<1> HIDE DEF p
<1>2. SonarAt(p) = 1 .. n
  BY <1>1 DEF SonarAt
<1>3. Cardinality(SonarAt(p)) = n
  BY <1>2, FS_Interval
<1>4. ASSUME NEW i \in 1 .. n PROVE Cardinality(SonarBefore(p, i)) = i - 1
  <2>1. SonarBefore(p, i) = 1 .. i - 1
    BY <1>2 DEF SonarBefore
  <2>2. Cardinality(1 .. i - 1) = IF 1 > i - 1 THEN 0 ELSE (i - 1) - 1 + 1
    BY FS_Interval
  <2> QED
    BY <2>1, <2>2
<1>5. SoundBehind(p, c)
  BY <1>1, <1>4 DEF SoundBehind
<1> QED
  BY <1>1, <1>3, <1>5 DEF Sounded, p

LEMMA Divided ==
  ASSUME NEW a \in Nat, NEW b \in Nat, b > 0
  PROVE  (a * b) \div b = a
OBVIOUS

\* The pose edge of a keyframe.
LEMMA EdgeSounded ==
  ASSUME BagTyped, NEW c, HasEdge => draws["pose"] = 3 * (keyframeIndex - 1)
  PROVE  Sounded(Only(HasEdge, EdgeMessage), c, 0)
<1>1. CASE HasEdge
  <2> DEFINE m == EdgeMessage
             s == <<m>>
  <2>1. m \in RoundMessages /\ m.topic = "relpose"
    BY <1>1, RoundMessagesTyped
  <2>2. /\ m \in BagMessages /\ m.log = KeyframeTime
        /\ m.noise = <<"pose", 3 * (keyframeIndex - 1)>>
    BY <1>1, <2>1 DEF RoundMessages, Noise
  <2>3. (m.log - StartTime) \div KeyframePeriod = keyframeIndex
    <3>1. m.log - StartTime = keyframeIndex * KeyframePeriod
      BY <2>2, TimeTyped DEF KeyframeTime
    <3>2. (keyframeIndex * KeyframePeriod) \div KeyframePeriod = keyframeIndex
      BY Numbers, Divided DEF BagTyped
    <3> QED
      BY <3>1, <3>2
  <2> HIDE DEF m
  <2>4. s \in Seq(BagMessages) /\ Len(s) = 1 /\ s[1] = m
    BY <2>2
  <2> HIDE DEF s
  <2>5. SonarAt(s) = {}
    BY <2>1, <2>4 DEF SonarAt
  <2>6. Cardinality(SonarAt(s)) = 0
    BY <2>5, FS_EmptySet
  <2>7. \A i \in 1 .. Len(s) : s[i] = m
    BY <2>4
  <2>8. SoundBehind(s, c)
    BY <2>1, <2>2, <2>3, <2>7 DEF SoundBehind
  <2>9. Sounded(s, c, 0)
    BY <2>4, <2>6, <2>8 DEF Sounded
  <2>10. Only(HasEdge, EdgeMessage) = s
    BY <1>1 DEF Only, s, m
  <2> QED
    BY <2>9, <2>10
<1>2. CASE ~HasEdge
  <2>1. Only(HasEdge, EdgeMessage) = <<>>
    BY <1>2 DEF Only
  <2> QED
    BY <2>1, SilentEmpty
<1> QED
  BY <1>1, <1>2

\* A round of synth_bag_gen is sound behind the rounds before it.
LEMMA KeyframeSounded ==
  ASSUME NEW n \in Nat, BagTyped, NEW k \in Nat, draws["sonar"] = 2 * k,
         HasEdge => draws["pose"] = 3 * (keyframeIndex - 1)
  PROVE  Sounded(KeyframeMessages(n), k, n)
<1> DEFINE a == Only(options.imu, BoundaryMessage)
           b == Only(~options.omitGroundTruth, TruthMessage)
           c == Only(HasEdge, EdgeMessage)
           d == Pings(n)
           e == Only(options.cameras, PlainMessage("left"))
           f == Only(options.cameras, PlainMessage("right"))
           g == <<PlainMessage("depth")>>
<1>1. /\ options.imu \in BOOLEAN /\ (~options.omitGroundTruth) \in BOOLEAN
      /\ options.cameras \in BOOLEAN
  BY DEF BagTyped
<1>2. /\ BoundaryMessage \in BagMessages /\ BoundaryMessage.topic = "boundary"
      /\ TruthMessage \in BagMessages /\ TruthMessage.topic = "gt"
      /\ \A topic \in {"left", "right", "depth"} :
           PlainMessage(topic) \in BagMessages /\ PlainMessage(topic).topic = topic
  BY RoundMessagesTyped DEF RoundMessages
<1>3. Sounded(a, k, 0) /\ Sounded(b, k, 0)
  BY <1>1, <1>2, SilentOnly
<1>4. Sounded(c, k, 0)
  BY EdgeSounded
<1>5. Sounded(d, k, n)
  BY PingsSounded
<1>6. Sounded(e, k + n, 0) /\ Sounded(f, k + n, 0)
  BY <1>1, <1>2, SilentOnly
<1>7. Sounded(g, k + n, 0)
  <2>1. Sounded(Only(TRUE, PlainMessage("depth")), k + n, 0)
    BY <1>2, SilentOnly
  <2>2. g = Only(TRUE, PlainMessage("depth"))
    BY DEF Only
  <2> QED
    BY <2>1, <2>2
<1>8. KeyframeMessages(n) = a \o b \o c \o d \o e \o f \o g
  BY DEF KeyframeMessages, BoundaryMessage, TruthMessage, EdgeMessage, PlainMessage
<1> HIDE DEF a, b, c, d, e, f, g
<1>9. k + 0 = k /\ 0 + n = n /\ n + 0 = n /\ 0 + 0 = 0
  OBVIOUS
<1>10. Sounded(a \o b, k, 0)
  BY <1>3, <1>9, JoinSounded
<1>11. Sounded(a \o b \o c, k, 0)
  BY <1>4, <1>9, <1>10, JoinSounded
<1>12. Sounded(a \o b \o c \o d, k, n)
  BY <1>5, <1>9, <1>11, JoinSounded
<1>13. Sounded(a \o b \o c \o d \o e, k, n)
  BY <1>6, <1>9, <1>12, JoinSounded
<1>14. Sounded(a \o b \o c \o d \o e \o f, k, n)
  BY <1>6, <1>9, <1>13, JoinSounded
<1>15. Sounded(a \o b \o c \o d \o e \o f \o g, k, n)
  BY <1>7, <1>9, <1>14, JoinSounded
<1> QED
  BY <1>8, <1>15

\* The block before the keyframes is sound.
LEMMA PreludeSounded == Sounded(Prelude, 0, 0)
<1> DEFINE h == <<Message("targets", NoId, 0, 0)>>
           t == IF options.imu THEN ImuBlock ELSE <<>>
<1>1. Sounded(h, 0, 0)
  <2>1. \A i \in 1 .. Len(h) : h[i].topic \notin {"relpose", "imu", "sonar"}
    BY PreludeTyped
  <2> QED
    BY <2>1, PreludeTyped, Silent
<1>2. Sounded(ImuBlock, 0, 0)
  <2>1. /\ ImuBlock \in Seq(BagMessages)
        /\ \A i \in 1 .. Len(ImuBlock) :
             /\ ImuBlock[i].topic = "imu" /\ ImuBlock[i].id[2] = i - 1
             /\ ImuBlock[i].noise = <<"imu", ImuDraws(i - 1)>>
    BY ImuBlockShape
  <2>2. SonarAt(ImuBlock) = {}
    BY <2>1 DEF SonarAt
  <2>3. Cardinality(SonarAt(ImuBlock)) = 0
    BY <2>2, FS_EmptySet
  <2>4. SoundBehind(ImuBlock, 0)
    BY <2>1 DEF SoundBehind
  <2> QED
    BY <2>1, <2>3, <2>4 DEF Sounded
<1>3. Sounded(<<>>, 0, 0)
  BY SilentEmpty
<1>4. Sounded(t, 0, 0)
  BY <1>2, <1>3
<1> HIDE DEF h, t
<1>5. Sounded(h \o t, 0, 0 + 0)
  <2>1. 0 + 0 = 0
    OBVIOUS
  <2> QED
    BY <1>1, <1>4, <2>1, JoinSounded
<1>6. Prelude = h \o t
  BY DEF Prelude, h, t
<1> QED
  BY <1>5, <1>6

\* The streams have given what the pings and the edges of the bag took.
NoiseInv ==
  producer = "synthetic" =>
     /\ \E c \in Nat : Sounded(bag, 0, c) /\ draws["sonar"] = 2 * c
     /\ keyframeIndex = 0 => draws["pose"] = 0
     /\ keyframeIndex > 0 /\ ~options.omitRelativePose => draws["pose"] = 3 * (keyframeIndex - 1)

LEMMA NoiseInit == RecordingInit => NoiseInv
<1>1. ASSUME RecordingInit PROVE NoiseInv
  <2>1. bag = <<>> /\ keyframeIndex = 0 /\ draws = [s \in Streams |-> 0]
    BY <1>1 DEF RecordingInit
  <2>3. Sounded(bag, 0, 0)
    BY <2>1, SilentEmpty
  <2>4. draws["pose"] = 0 /\ draws["sonar"] = 2 * 0
    BY <2>1 DEF Streams
  <2> QED
    BY <2>1, <2>3, <2>4 DEF NoiseInv
<1> QED
  BY <1>1

\* The pre-roll does not depend on anything a step changes.
LEMMA SoundedKept ==
  ASSUME options' = options, NEW s, NEW c, NEW d, Sounded(s, c, d), bag' = s
  PROVE  Sounded(bag, c, d)'
BY DEF Sounded, SoundBehind, StartTime, SonarAt, SonarBefore, ImuDraws

LEMMA NoiseKept ==
  ASSUME NoiseInv, UNCHANGED <<producer, options, bag, draws, keyframeIndex>>
  PROVE  NoiseInv'
<1> SUFFICES ASSUME producer = "synthetic"
             PROVE  /\ (\E c \in Nat : Sounded(bag, 0, c) /\ draws["sonar"] = 2 * c)'
                    /\ (keyframeIndex = 0 => draws["pose"] = 0)'
                    /\ (keyframeIndex > 0 /\ ~options.omitRelativePose
                          => draws["pose"] = 3 * (keyframeIndex - 1))'
  BY DEF NoiseInv
<1>1. PICK c \in Nat : Sounded(bag, 0, c) /\ draws["sonar"] = 2 * c
  BY DEF NoiseInv
<1>2. Sounded(bag, 0, c)'
  BY <1>1, SoundedKept
<1> QED
  BY <1>1, <1>2 DEF NoiseInv

LEMMA NoiseNext ==
  ASSUME BagTyped, NoiseInv, [RecordingNext]_<<recordingVars, vars>>
  PROVE  NoiseInv'
<1>1. CASE \E sensors \in TickSets : RecordTick(sensors)
  BY <1>1 DEF RecordTick, NoiseInv
<1>2. CASE EndSession
  BY <1>2, NoiseKept DEF EndSession, sourceVars
<1>3. CASE WritePrelude
  <2>1. /\ producer' = producer /\ options' = options /\ bag = <<>> /\ bag' = Prelude
        /\ keyframeIndex' = keyframeIndex /\ producer = "synthetic"
    BY <1>3 DEF WritePrelude, Prelude
  <2>2. draws'["sonar"] = draws["sonar"] /\ draws'["pose"] = draws["pose"]
    <3>1. ImuDraws(ImuSampleCount + 1) \in Nat /\ LandmarkDraws \in Nat
      BY SampleCountTyped, Numbers DEF ImuDraws, LandmarkDraws
    <3>2. draws' = PreludeDraws /\ draws \in [Streams -> Nat]
      BY <1>3 DEF WritePrelude, BagTyped
    <3> QED
      BY <3>1, <3>2, PreludeDrawsTyped
  <2>3. PICK c \in Nat : Sounded(bag, 0, c) /\ draws["sonar"] = 2 * c
    BY <2>1 DEF NoiseInv
  <2>4. c = 0
    <3>1. SonarAt(bag) = {}
      BY <2>1 DEF SonarAt
    <3> QED
      BY <2>3, <3>1, FS_EmptySet DEF Sounded
  <2>5. Sounded(bag, 0, 0)'
    BY <2>1, PreludeSounded, SoundedKept
  <2> QED
    BY <2>1, <2>2, <2>3, <2>4, <2>5 DEF NoiseInv
<1>4. CASE \E inRange \in SUBSET Targets : GenerateKeyframe(inRange)
  <2>1. PICK inRange \in SUBSET Targets : GenerateKeyframe(inRange)
    BY <1>4
  <2>2. PICK n, block : KeyframeStep(n, block)
    BY <2>1, KeyframeSteps
  <2>3. /\ producer = "synthetic" /\ UNCHANGED <<producer, options>>
        /\ keyframeIndex' = keyframeIndex + 1
    BY <2>1 DEF GenerateKeyframe
  <2>4. /\ n \in Nat /\ block = KeyframeMessages(n) /\ bag' = bag \o block
        /\ draws' = Consume(EdgeDraws, "sonar", 2 * n)
    BY <2>2 DEF KeyframeStep
  <2>5. PICK c \in Nat : Sounded(bag, 0, c) /\ draws["sonar"] = 2 * c
    BY <2>3 DEF NoiseInv
  <2>6. HasEdge => draws["pose"] = 3 * (keyframeIndex - 1)
    BY <2>3 DEF NoiseInv, HasEdge
  <2>7. Sounded(block, c, n)
    BY <2>4, <2>5, <2>6, KeyframeSounded
  <2>8. Sounded(bag \o block, 0, c + n)
    <3>1. Sounded(block, 0 + c, n)
      BY <2>7
    <3> QED
      BY <2>5, <3>1, JoinSounded
  <2>9. Sounded(bag, 0, c + n)'
    BY <2>3, <2>4, <2>8, SoundedKept
  <2>10. /\ EdgeDraws \in [Streams -> Nat] /\ EdgeDraws["sonar"] = draws["sonar"]
         /\ EdgeDraws["pose"] = draws["pose"] + (IF HasEdge THEN 3 ELSE 0)
    BY EdgeDrawsTyped
  <2>11. draws'["sonar"] = 2 * (c + n) /\ draws'["pose"] = EdgeDraws["pose"]
    BY <2>4, <2>5, <2>10 DEF Consume, Streams
  <2>12. keyframeIndex \in Nat /\ draws["pose"] \in Nat
    BY DEF BagTyped, Streams
  <2>13. ~options.omitRelativePose => draws'["pose"] = 3 * (keyframeIndex' - 1)
    <3>1. SUFFICES ASSUME ~options.omitRelativePose
                   PROVE  draws'["pose"] = 3 * (keyframeIndex' - 1)
      OBVIOUS
    <3>2. CASE keyframeIndex = 0
      BY <2>3, <2>10, <2>11, <3>2 DEF NoiseInv, HasEdge
    <3>3. CASE keyframeIndex > 0
      BY <2>3, <2>6, <2>10, <2>11, <2>12, <3>1, <3>3 DEF HasEdge
    <3> QED
      BY <2>12, <3>2, <3>3
  <2>14. c + n \in Nat /\ keyframeIndex' # 0
    BY <2>3, <2>4, <2>12
  <2> QED
    BY <2>3, <2>9, <2>11, <2>13, <2>14 DEF NoiseInv
<1>5. CASE CloseSynthetic
  BY <1>5, NoiseKept DEF CloseSynthetic, sourceVars
<1>6. CASE \E keyframe \in KeyframeIds \cup {NoId}, obs \in Ids, sourced \in BOOLEAN,
             time \in BoundaryTimes : ScheduleBoundary(keyframe, obs, sourced, time)
  BY <1>6 DEF ScheduleBoundary, NoiseInv
<1>7. CASE CloseScheduler
  BY <1>7 DEF CloseScheduler, NoiseInv
<1>8. CASE AuditMessage \/ AuditBag
  BY <1>8, NoiseKept DEF AuditMessage, AuditBag, sourceVars
<1>9. CASE OpenBag
  BY <1>9, NoiseKept DEF OpenBag, sourceVars
<1>10. CASE UNCHANGED recordingVars
  BY <1>10, NoiseKept DEF recordingVars, sourceVars
<1> QED
  BY <1>1, <1>2, <1>3, <1>4, <1>5, <1>6, <1>7, <1>8, <1>9, <1>10
     DEF RecordingNext, ReadMessage, FinishReplay

LEMMA NoiseEnough ==
  ASSUME BagTyped, NoiseInv
  PROVE  NoiseIsPositional
<1> SUFFICES ASSUME producer = "synthetic", NEW i \in DOMAIN bag
             PROVE  LET m == bag[i] IN
                    /\ m.topic = "relpose" =>
                         m.noise = <<"pose", 3 * ((m.log - StartTime) \div KeyframePeriod - 1)>>
                    /\ m.topic = "imu" => m.noise = <<"imu", ImuDraws(m.id[2])>>
                    /\ m.topic = "sonar" =>
                         m.noise = <<"sonar", 2 * Cardinality({k \in OfTopic("sonar") : k < i})>>
  BY DEF NoiseIsPositional
<1>1. DOMAIN bag = 1 .. Len(bag) /\ bag \in Seq(BagMessages)
  BY DEF BagTyped
<1>2. {k \in OfTopic("sonar") : k < i} = SonarBefore(bag, i)
  BY <1>1 DEF SonarBefore, SonarAt, OfTopic
<1>3. Cardinality(SonarBefore(bag, i)) \in Nat
  BY <1>1, SonarFinite
<1>4. SoundBehind(bag, 0)
  BY DEF NoiseInv, Sounded
<1>5. 0 + Cardinality(SonarBefore(bag, i)) = Cardinality(SonarBefore(bag, i))
  BY <1>3
<1> QED
  BY <1>1, <1>2, <1>4, <1>5 DEF SoundBehind

\* No stream of noise of synth_bag_gen depends on what another consumed: pose
\* edges, IMU samples and pings carry the noise of their own position, for
\* every choice of flags, targets and lengths. (synth_bag_gen.cpp)
THEOREM NoisePositional == RecordingSpec => []NoiseIsPositional
<1>1. RecordingInit => BagTyped /\ NoiseInv
  BY TypedInit, NoiseInit
<1>2. BagTyped /\ NoiseInv /\ [RecordingNext]_<<recordingVars, vars>> => (BagTyped /\ NoiseInv)'
  BY TypedNext, NoiseNext
<1>3. BagTyped /\ NoiseInv => NoiseIsPositional
  BY NoiseEnough
<1> QED
  BY <1>1, <1>2, <1>3, PTL DEF RecordingSpec

-----------------------------------------------------------------------------
(***************************************************************************)
(* The reader's order of a bag.                                            *)
(***************************************************************************)
Ahead(i) == {j \in DOMAIN bag : Sooner(j, i)}

\* Everything is read once, in the order of the log times.
ReadsAll(list) ==
  /\ list \in [1 .. Len(bag) -> 1 .. Len(bag)]
  /\ \A i \in 1 .. Len(bag) : \E n \in 1 .. Len(bag) : list[n] = i
  /\ \A m, n \in 1 .. Len(bag) : m < n => Sooner(list[m], list[n])

LEMMA BagDomain ==
  ASSUME BagTyped
  PROVE  /\ DOMAIN bag = 1 .. Len(bag) /\ Len(bag) \in Nat
         /\ IsFiniteSet(1 .. Len(bag)) /\ Cardinality(1 .. Len(bag)) = Len(bag)
         /\ \A i \in 1 .. Len(bag) : bag[i] \in BagMessages /\ bag[i].log \in Nat
<1>1. DOMAIN bag = 1 .. Len(bag) /\ Len(bag) \in Nat
      /\ \A i \in 1 .. Len(bag) : bag[i] \in BagMessages
  BY DEF BagTyped
<1>2. 1 \in Int /\ Len(bag) \in Int
  BY <1>1
<1>3. IsFiniteSet(1 .. Len(bag))
  BY <1>2, FS_Interval
<1>4. Cardinality(1 .. Len(bag)) = IF 1 > Len(bag) THEN 0 ELSE Len(bag) - 1 + 1
  BY <1>2, FS_Interval
<1>5. Cardinality(1 .. Len(bag)) = Len(bag)
  BY <1>1, <1>4
<1> QED
  BY <1>1, <1>3, <1>5 DEF BagMessages

\* Sooner is a strict total order of the positions.
LEMMA SoonerOrders ==
  ASSUME BagTyped, NEW i \in 1 .. Len(bag), NEW j \in 1 .. Len(bag)
  PROVE  /\ ~Sooner(i, i)
         /\ i = j \/ Sooner(i, j) \/ Sooner(j, i)
         /\ \A k \in 1 .. Len(bag) : Sooner(i, j) /\ Sooner(j, k) => Sooner(i, k)
BY BagDomain DEF Sooner

LEMMA AheadGrows ==
  ASSUME BagTyped, NEW i \in 1 .. Len(bag), NEW j \in 1 .. Len(bag)
  PROVE  /\ Cardinality(Ahead(i)) \in 0 .. Len(bag) - 1
         /\ Sooner(i, j) => Cardinality(Ahead(i)) < Cardinality(Ahead(j))
<1>1. \A k \in 1 .. Len(bag) : IsFiniteSet(Ahead(k)) /\ Cardinality(Ahead(k)) \in Nat
  <2> TAKE k \in 1 .. Len(bag)
  <2>1. Ahead(k) \in SUBSET (1 .. Len(bag))
    BY BagDomain DEF Ahead
  <2> QED
    BY <2>1, BagDomain, FS_Subset, FS_CardinalityType
<1>2. i \notin Ahead(i)
  BY SoonerOrders DEF Ahead
<1>3. IsFiniteSet(Ahead(i) \cup {i}) /\ Cardinality(Ahead(i) \cup {i}) = Cardinality(Ahead(i)) + 1
  BY <1>1, <1>2, FS_AddElement
<1>4. Cardinality(Ahead(i)) <= Len(bag) - 1
  <2>1. (Ahead(i) \cup {i}) \in SUBSET (1 .. Len(bag))
    BY BagDomain DEF Ahead
  <2>2. Cardinality(Ahead(i) \cup {i}) <= Len(bag)
    BY <2>1, BagDomain, FS_Subset
  <2> QED
    BY <1>1, <1>3, <2>2, BagDomain
<1>5. ASSUME Sooner(i, j) PROVE Cardinality(Ahead(i)) < Cardinality(Ahead(j))
  <2>1. (Ahead(i) \cup {i}) \in SUBSET Ahead(j)
    BY <1>5, BagDomain, SoonerOrders DEF Ahead
  <2>2. Cardinality(Ahead(i) \cup {i}) <= Cardinality(Ahead(j))
    BY <1>1, <2>1, FS_Subset
  <2> QED
    BY <1>1, <1>3, <2>2
<1> QED
  BY <1>1, <1>4, <1>5

\* The n-th message in log-time order exists, and LogTimeOrder finds it.
LEMMA OrderReadsAll ==
  ASSUME BagTyped
  PROVE  ReadsAll(LogTimeOrder)
<1> DEFINE D == 1 .. Len(bag)
           f == [i \in D |-> Cardinality(Ahead(i)) + 1]
<1>1. DOMAIN bag = D /\ Len(bag) \in Nat
  BY BagDomain
<1>2. f \in [D -> D]
  BY <1>1, AheadGrows
<1>3. \A i, j \in D : f[i] = f[j] => i = j
  <2> TAKE i \in D, j \in D
  <2>1. Cardinality(Ahead(i)) \in Nat /\ Cardinality(Ahead(j)) \in Nat
    BY AheadGrows
  <2>2. Sooner(i, j) => f[i] # f[j]
    BY <2>1, AheadGrows
  <2>3. Sooner(j, i) => f[i] # f[j]
    BY <2>1, AheadGrows
  <2> QED
    BY <2>2, <2>3, SoonerOrders
<1>4. \A n \in D : \E i \in D : f[i] = n
  <2>1. f \in Injection(D, D)
    BY <1>2, <1>3, Fun_IsInj
  <2>2. f \in Surjection(D, D)
    BY <2>1, BagDomain, FS_Injection
  <2> QED
    BY <2>2 DEF Surjection
<1>5. \A n \in D : LogTimeOrder[n] \in D /\ f[LogTimeOrder[n]] = n
  <2> TAKE n \in D
  <2>1. LogTimeOrder[n] = CHOOSE i \in D : Cardinality(Ahead(i)) = n - 1
    BY <1>1 DEF LogTimeOrder, Ahead
  <2>2. \E i \in D : Cardinality(Ahead(i)) = n - 1
    <3>1. PICK i \in D : f[i] = n
      BY <1>4
    <3>2. Cardinality(Ahead(i)) \in Nat
      BY AheadGrows
    <3> QED
      BY <1>1, <3>1, <3>2
  <2>3. LogTimeOrder[n] \in D /\ Cardinality(Ahead(LogTimeOrder[n])) = n - 1
    BY <2>1, <2>2
  <2> QED
    BY <1>1, <2>3
<1>6. LogTimeOrder \in [D -> D]
  <2> DEFINE g(n) == CHOOSE i \in DOMAIN bag : Cardinality({j \in DOMAIN bag : Sooner(j, i)}) = n - 1
  <2>0. LogTimeOrder = [n \in DOMAIN bag |-> g(n)]
    BY DEF LogTimeOrder
  <2> HIDE DEF g
  <2>1. LogTimeOrder = [n \in D |-> LogTimeOrder[n]]
    BY <1>1, <2>0
  <2> QED
    BY <1>5, <2>1
<1> HIDE DEF f
<1>7. \A i \in D : \E n \in D : LogTimeOrder[n] = i
  <2> TAKE i \in D
  <2>1. f[i] \in D
    BY <1>2
  <2>2. LogTimeOrder[f[i]] \in D /\ f[LogTimeOrder[f[i]]] = f[i]
    BY <1>5, <2>1
  <2>3. LogTimeOrder[f[i]] = i
    BY <1>3, <2>2
  <2> QED
    BY <2>1, <2>3
<1>8. ASSUME NEW m \in D, NEW n \in D, m < n PROVE Sooner(LogTimeOrder[m], LogTimeOrder[n])
  <2> DEFINE i == LogTimeOrder[m]
             j == LogTimeOrder[n]
  <2>1. i \in D /\ j \in D /\ f[i] = m /\ f[j] = n
    BY <1>5
  <2> HIDE DEF i, j
  <2>2. f[i] = Cardinality(Ahead(i)) + 1 /\ f[j] = Cardinality(Ahead(j)) + 1
    BY <2>1 DEF f
  <2>3. Cardinality(Ahead(i)) \in Nat /\ Cardinality(Ahead(j)) \in Nat
    BY <2>1, AheadGrows
  <2>4. ~Sooner(j, i)
    <3>1. Sooner(j, i) => Cardinality(Ahead(j)) < Cardinality(Ahead(i))
      BY <2>1, AheadGrows
    <3> QED
      BY <1>8, <2>1, <2>2, <2>3, <3>1
  <2>5. i # j
    BY <1>8, <2>1
  <2>6. Sooner(i, j)
    BY <2>1, <2>4, <2>5, SoonerOrders
  <2> QED
    BY <2>6 DEF i, j
<1> QED
  BY <1>6, <1>7, <1>8 DEF ReadsAll

-----------------------------------------------------------------------------
(***************************************************************************)
(* What the ingress makes of a message.                                    *)
(***************************************************************************)
Worded(m) == m.id \in Ids /\ (m.topic = "boundary" => m.keyframe \in KeyframeIds \cup {NoId})

LEMMA Division ==
  ASSUME NEW t \in Nat, NEW n \in Nat, n > 0, NEW q \in Nat, NEW r \in Nat,
         q = t \div n, r = t % n
  PROVE  q * n + r = t
OBVIOUS

LEMMA StampTyped ==
  ASSUME NEW t \in Nat
  PROVE  Stamp(t) \in Stamps /\ Nanos(Stamp(t)) = t
<1> DEFINE q == t \div NanosPerSecond
           r == t % NanosPerSecond
<1>1. NanosPerSecond \in Nat /\ NanosPerSecond > 0
  BY ReplayInputAssumption
<1>2. q \in Nat /\ r \in 0 .. NanosPerSecond - 1 /\ r \in Nat
  BY <1>1
<1>3. q * NanosPerSecond + r = t
  BY <1>1, <1>2, Division
<1>4. Stamp(t) = [seconds |-> q, nanos |-> r]
  BY DEF Stamp
<1> HIDE DEF q, r
<1>5. Stamp(t) \in Stamps /\ Stamp(t).seconds = q /\ Stamp(t).nanos = r
  BY <1>2, <1>4 DEF Stamps
<1> QED
  BY <1>3, <1>5 DEF Nanos

LEMMA SensorsKnown ==
  /\ \A topic \in StampedTopics : SensorOf(topic) \in Sensors
  /\ \A a, b \in StampedTopics : SensorOf(a) = SensorOf(b) => a = b
<1>1. \A topic \in StampedTopics : SensorOf(topic) \in Sensors
  BY VocabularyAssumption
<1>2. /\ SensorOf("left") = "camera_left" /\ SensorOf("right") = "camera_right"
      /\ SensorOf("main") = "camera_main" /\ SensorOf("sonar") = "sonar0"
      /\ SensorOf("imu") = "imu0" /\ SensorOf("dvl") = "dvl0"
      /\ SensorOf("boundary") = "keyframe_scheduler"
  BY DEF SensorOf
<1>3. StampedTopics = {"left", "right", "main", "sonar", "imu", "dvl", "boundary"}
  BY DEF StampedTopics, RawTopics
<1> QED
  BY <1>1, <1>2, <1>3

\* Each topic has its event.
LEMMA EventCases ==
  ASSUME NEW m
  PROVE  /\ m.topic \in {"left", "right", "main"} =>
              Event(m) = [kind |-> "image", sensor |-> SensorOf(m.topic), obs |-> m.id]
         /\ m.topic \in {"sonar", "imu", "dvl"} =>
              Event(m) = [kind |-> m.topic, sensor |-> SensorOf(m.topic), obs |-> m.id]
         /\ m.topic = "boundary" =>
              Event(m) = [kind |-> "boundary", keyframe |-> m.keyframe, time |-> Stamp(m.capture),
                          sensor |-> SensorOf(m.topic), obs |-> m.id]
         /\ m.topic = "depth" => Event(m) = [kind |-> "evidence", sources |-> <<m.id>>]
         /\ m.topic = "relpose" => Event(m) = [kind |-> "evidence", sources |-> <<>>]
         /\ m.topic = "gt" => Event(m) = [kind |-> "reference"]
         /\ m.topic = "targets" => Event(m) = [kind |-> "unknown_topic"]
BY DEF Event

\* Of an event: is it typed, what identifies it, what it is evidence of.
EventFacts(m, e) ==
  /\ e \in AnyMessages
  /\ CarriesIdentity(e) <=> m.topic \in StampedTopics
  /\ m.topic \in StampedTopics => e.sensor = SensorOf(m.topic) /\ e.obs = m.id
  /\ AllowsDuplicate(e.kind) <=> m.topic = "sonar"
  /\ e.kind = "boundary" <=> m.topic = "boundary"
  /\ m.topic = "boundary" => e.keyframe = m.keyframe /\ Nanos(e.time) = m.capture
  /\ e.kind = "evidence" <=> m.topic \in {"depth", "relpose"}
  /\ m.topic = "depth" => e.sources = <<m.id>>
  /\ m.topic = "relpose" => e.sources = <<>>
  /\ e.kind \in SkippedKinds <=> m.topic = "targets"

LEMMA EventShape ==
  ASSUME NEW m \in BagMessages, Worded(m)
  PROVE  EventFacts(m, Event(m))
<1> DEFINE e == Event(m)
<1>1. m.topic \in Topics /\ m.id \in Ids /\ m.capture \in Nat
  BY DEF BagMessages, Worded
<1>2. m.topic \in StampedTopics => SensorOf(m.topic) \in Sensors
  BY SensorsKnown
<1>3. CASE m.topic \in {"left", "right", "main"}
  <2>1. e = [kind |-> "image", sensor |-> SensorOf(m.topic), obs |-> m.id]
    BY <1>3, EventCases
  <2>2. m.topic \in StampedTopics
    BY <1>3 DEF StampedTopics, RawTopics
  <2> HIDE DEF e
  <2>3. e \in RawMessages /\ e.kind = "image" /\ e.sensor = SensorOf(m.topic) /\ e.obs = m.id
    BY <1>1, <1>2, <2>1, <2>2 DEF RawMessages, RawKinds
  <2>4. EventFacts(m, e)
    BY <1>3, <2>2, <2>3 DEF EventFacts, AnyMessages, CarriesIdentity, AllowsDuplicate, RawKinds,
       SkippedKinds
  <2> QED
    BY <2>4 DEF e
<1>4. CASE m.topic \in {"sonar", "imu", "dvl"}
  <2>1. e = [kind |-> m.topic, sensor |-> SensorOf(m.topic), obs |-> m.id]
    BY <1>4, EventCases
  <2>2. m.topic \in StampedTopics
    BY <1>4 DEF StampedTopics, RawTopics
  <2> HIDE DEF e
  <2>3. e \in RawMessages /\ e.kind = m.topic /\ e.sensor = SensorOf(m.topic) /\ e.obs = m.id
    BY <1>1, <1>2, <1>4, <2>1, <2>2 DEF RawMessages, RawKinds
  <2>4. EventFacts(m, e)
    BY <1>4, <2>2, <2>3 DEF EventFacts, AnyMessages, CarriesIdentity, AllowsDuplicate, RawKinds,
       SkippedKinds
  <2> QED
    BY <2>4 DEF e
<1>5. CASE m.topic = "boundary"
  <2>1. e = [kind |-> "boundary", keyframe |-> m.keyframe, time |-> Stamp(m.capture),
             sensor |-> SensorOf(m.topic), obs |-> m.id]
    BY <1>5, EventCases
  <2>2. m.topic \in StampedTopics /\ m.keyframe \in KeyframeIds \cup {NoId}
    BY <1>5 DEF StampedTopics, Worded
  <2>5. Stamp(m.capture) \in Stamps /\ Nanos(Stamp(m.capture)) = m.capture
    BY <1>1, StampTyped
  <2> HIDE DEF e
  <2>3. /\ e \in BoundaryMessages /\ e.kind = "boundary" /\ e.sensor = SensorOf(m.topic)
        /\ e.obs = m.id /\ e.keyframe = m.keyframe /\ e.time = Stamp(m.capture)
    BY <1>1, <1>2, <1>5, <2>1, <2>2, <2>5 DEF BoundaryMessages
  <2>4. EventFacts(m, e)
    BY <1>5, <2>2, <2>3, <2>5 DEF EventFacts, AnyMessages, CarriesIdentity, AllowsDuplicate,
       RawKinds, SkippedKinds
  <2> QED
    BY <2>4 DEF e
<1>6. CASE m.topic = "depth"
  <2>1. e = [kind |-> "evidence", sources |-> <<m.id>>]
    BY <1>6, EventCases
  <2>2. m.topic \notin StampedTopics /\ <<m.id>> \in Seq(Ids)
    BY <1>1, <1>6 DEF StampedTopics, RawTopics
  <2> HIDE DEF e
  <2>3. e \in EvidenceMessages /\ e.kind = "evidence" /\ e.sources = <<m.id>>
    BY <2>1, <2>2 DEF EvidenceMessages
  <2>4. EventFacts(m, e)
    BY <1>6, <2>2, <2>3 DEF EventFacts, AnyMessages, CarriesIdentity, AllowsDuplicate, RawKinds,
       SkippedKinds
  <2> QED
    BY <2>4 DEF e
<1>7. CASE m.topic = "relpose"
  <2>1. e = [kind |-> "evidence", sources |-> <<>>]
    BY <1>7, EventCases
  <2>2. m.topic \notin StampedTopics /\ <<>> \in Seq(Ids)
    BY <1>7 DEF StampedTopics, RawTopics
  <2> HIDE DEF e
  <2>3. e \in EvidenceMessages /\ e.kind = "evidence" /\ e.sources = <<>>
    BY <2>1, <2>2 DEF EvidenceMessages
  <2>4. EventFacts(m, e)
    BY <1>7, <2>2, <2>3 DEF EventFacts, AnyMessages, CarriesIdentity, AllowsDuplicate, RawKinds,
       SkippedKinds
  <2> QED
    BY <2>4 DEF e
<1>8. CASE m.topic = "gt"
  <2>1. e = [kind |-> "reference"]
    BY <1>8, EventCases
  <2>2. m.topic \notin StampedTopics
    BY <1>8 DEF StampedTopics, RawTopics
  <2> HIDE DEF e
  <2>3. e \in OtherMessages /\ e.kind = "reference"
    BY <2>1 DEF OtherMessages, SkippedKinds
  <2>4. EventFacts(m, e)
    BY <1>8, <2>2, <2>3 DEF EventFacts, AnyMessages, CarriesIdentity, AllowsDuplicate, RawKinds,
       SkippedKinds
  <2> QED
    BY <2>4 DEF e
<1>9. CASE m.topic = "targets"
  <2>1. e = [kind |-> "unknown_topic"]
    BY <1>9, EventCases
  <2>2. m.topic \notin StampedTopics
    BY <1>9 DEF StampedTopics, RawTopics
  <2> HIDE DEF e
  <2>3. e \in OtherMessages /\ e.kind = "unknown_topic"
    BY <2>1 DEF OtherMessages, SkippedKinds
  <2>4. EventFacts(m, e)
    BY <1>9, <2>2, <2>3 DEF EventFacts, AnyMessages, CarriesIdentity, AllowsDuplicate, RawKinds,
       SkippedKinds
  <2> QED
    BY <2>4 DEF e
<1> QED
  BY <1>1, <1>3, <1>4, <1>5, <1>6, <1>7, <1>8, <1>9 DEF Topics, AuditedTopics, TimedTopics, StampedTopics, RawTopics

-----------------------------------------------------------------------------
(***************************************************************************)
(* The names the records carry are the ingress's.                          *)
(***************************************************************************)
AllWorded(b) == \A i \in 1 .. Len(b) : Worded(b[i])

\* Every message of the bag is named in the vocabulary of the ingress.
WordInv ==
  /\ producer = "holoocean" => keyframeIndex <= tick /\ tick <= MaxTicks
  /\ producer = "synthetic" => keyframeIndex <= NumKeyframes
  /\ AllWorded(bag)

LEMMA WordsJoined ==
  ASSUME NEW b \in Seq(BagMessages), NEW c \in Seq(BagMessages), AllWorded(b), AllWorded(c)
  PROVE  AllWorded(b \o c)
<1> DEFINE u == b \o c
<1>1. \A i \in 1 .. Len(u) :
        \/ i \in 1 .. Len(b) /\ u[i] = b[i]
        \/ i \notin 1 .. Len(b) /\ i - Len(b) \in 1 .. Len(c) /\ u[i] = c[i - Len(b)]
  BY Joined
<1> HIDE DEF u
<1>2. AllWorded(u)
  BY <1>1 DEF AllWorded
<1> QED
  BY <1>2 DEF u

LEMMA TickWorded ==
  ASSUME BagTyped, WordInv, NEW sensors \in TickSets, RecordTick(sensors), NEW W, NEW block,
         W \subseteq sensors, Part(block, W, TickMessages(sensors, receive'))
  PROVE  AllWorded(block)
<1> SUFFICES ASSUME NEW i \in 1 .. Len(block) PROVE Worded(block[i])
  BY DEF AllWorded
<1>1. receive' \in Int
  BY TickSteps
<1>2. block[i] \in TickMessages(sensors, receive') /\ block[i].topic \in W
  BY DEF Part
<1>3. block[i].id = KeyframeId(keyframeIndex) \/ block[i].id = TickId(tick)
  BY <1>1, <1>2, TickIds
<1>4. tick \in 0 .. MaxTicks - 1 /\ keyframeIndex \in 0 .. MaxTicks - 1
  BY Numbers DEF RecordTick, BagTyped, WordInv
<1>5. KeyframeId(keyframeIndex) \in ObsIds /\ TickId(tick) \in ObsIds
  BY <1>4, VocabularyAssumption
<1>6. block[i].topic # "boundary"
  <2>1. W \subseteq RawTopics \cup {"gt", "depth"}
    BY RecordingAssumption
  <2> QED
    BY <1>2, <2>1 DEF RawTopics
<1> QED
  BY <1>3, <1>5, <1>6 DEF Worded, Ids

LEMMA KeyframeWorded ==
  ASSUME BagTyped, NEW n \in Nat, keyframeIndex < NumKeyframes, NEW block,
         Part(block, KeyframeTopics(n), RoundMessages)
  PROVE  AllWorded(block)
<1> SUFFICES ASSUME NEW i \in 1 .. Len(block) PROVE Worded(block[i])
  BY DEF AllWorded
<1> DEFINE m == block[i]
<1>1. m \in RoundMessages /\ m.topic \in KeyframeTopics(n)
  BY DEF Part
<1>2. keyframeIndex \in 0 .. NumKeyframes - 1
  BY Numbers DEF BagTyped
<1>3. /\ KeyframeId(keyframeIndex) \in ObsIds /\ <<"boundary", keyframeIndex>> \in ObsIds
      /\ KeyframeId(keyframeIndex) \in KeyframeIds
  BY <1>2, VocabularyAssumption
<1>4. m.topic \in {"boundary", "gt", "relpose", "sonar", "left", "right", "depth"}
  BY <1>1 DEF KeyframeTopics
<1>5. m.id \in {KeyframeId(keyframeIndex), <<"boundary", keyframeIndex>>, NoId}
  BY <1>1, <1>4 DEF RoundMessages
<1>6. m.topic = "boundary" => m.keyframe = KeyframeId(keyframeIndex)
  BY <1>1 DEF RoundMessages
<1> QED
  BY <1>3, <1>5, <1>6 DEF Worded, Ids

LEMMA PreludeWorded == AllWorded(Prelude)
<1> DEFINE h == <<Message("targets", NoId, 0, 0)>>
           t == IF options.imu THEN ImuBlock ELSE <<>>
<1>1. AllWorded(h)
  <2>1. \A i \in 1 .. Len(h) : h[i] = Message("targets", NoId, 0, 0)
    BY PreludeTyped
  <2>2. Message("targets", NoId, 0, 0).id = NoId
    BY DEF Message
  <2> HIDE DEF h
  <2> QED
    BY <2>1, <2>2, PreludeTyped DEF AllWorded, Worded, Ids
<1>2. AllWorded(ImuBlock)
  <2>1. \A k \in 1 .. Len(ImuBlock) :
          ImuBlock[k].topic = "imu" /\ ImuBlock[k].id = <<"imu", k - 1>> /\ k - 1 \in 0 .. ImuSampleCount
    BY ImuBlockShape, SampleCountTyped
  <2> QED
    BY <2>1, VocabularyAssumption DEF AllWorded, Worded, Ids
<1>3. AllWorded(<<>>)
  <2>1. 1 .. Len(<<>>) = {}
    OBVIOUS
  <2> QED
    BY <2>1 DEF AllWorded
<1>4. t \in Seq(BagMessages) /\ AllWorded(t)
  BY <1>2, <1>3, ImuBlockShape
<1>5. h \in Seq(BagMessages)
  BY PreludeTyped
<1>6. Prelude = h \o t
  BY DEF Prelude
<1> HIDE DEF h, t
<1> QED
  BY <1>1, <1>4, <1>5, <1>6, WordsJoined

LEMMA WordInit == RecordingInit => WordInv
<1> SUFFICES ASSUME RecordingInit PROVE WordInv
  OBVIOUS
<1>1. bag = <<>> /\ tick = 0 /\ keyframeIndex = 0
  BY DEF RecordingInit
<1>2. 1 .. Len(bag) = {}
  BY <1>1
<1> QED
  BY <1>1, <1>2, Numbers DEF WordInv, AllWorded

LEMMA WordNext ==
  ASSUME BagTyped, WordInv, [RecordingNext]_<<recordingVars, vars>>
  PROVE  WordInv'
<1>0. bag \in Seq(BagMessages) /\ tick \in Nat /\ keyframeIndex \in Nat /\ MaxTicks \in Nat
  BY Numbers DEF BagTyped
<1>1. CASE \E sensors \in TickSets : RecordTick(sensors)
  <2>1. PICK sensors \in TickSets : RecordTick(sensors)
    BY <1>1
  <2>2. PICK block, W : TickStep(sensors, block, W)
    BY <2>1, TickSteps
  <2>3. /\ Part(block, W, TickMessages(sensors, receive')) /\ W \subseteq sensors
        /\ bag' = bag \o block /\ block \in Seq(BagMessages)
    BY <2>2 DEF TickStep, Part
  <2>4. AllWorded(bag')
    BY <1>0, <2>1, <2>3, TickWorded, WordsJoined DEF WordInv
  <2>5. producer' = producer /\ producer = "holoocean" /\ tick' = tick + 1 /\ tick < MaxTicks
    BY <2>1 DEF RecordTick
  <2>6. keyframeIndex' = keyframeIndex \/ keyframeIndex' = keyframeIndex + 1
    BY <1>0, <2>2 DEF TickStep, NextKeyframe
  <2>7. keyframeIndex' <= tick' /\ tick' <= MaxTicks
    BY <1>0, <2>5, <2>6 DEF WordInv
  <2> QED
    BY <2>4, <2>5, <2>7 DEF WordInv, AllWorded
<1>2. CASE EndSession
  BY <1>2 DEF EndSession, sourceVars, WordInv, AllWorded
<1>3. CASE WritePrelude
  <2>1. bag' = Prelude /\ UNCHANGED <<producer, tick, keyframeIndex>>
    BY <1>3 DEF WritePrelude, Prelude
  <2>2. AllWorded(bag')
    BY <2>1, PreludeWorded
  <2> QED
    BY <2>1, <2>2 DEF WordInv, AllWorded
<1>4. CASE \E inRange \in SUBSET Targets : GenerateKeyframe(inRange)
  <2>1. PICK inRange \in SUBSET Targets : GenerateKeyframe(inRange)
    BY <1>4
  <2>2. PICK n, block : KeyframeStep(n, block)
    BY <2>1, KeyframeSteps
  <2>3. /\ n \in Nat /\ Part(block, KeyframeTopics(n), RoundMessages)
        /\ bag' = bag \o block /\ block \in Seq(BagMessages)
    BY <2>2 DEF KeyframeStep, Part
  <2>4. /\ keyframeIndex < NumKeyframes /\ keyframeIndex' = keyframeIndex + 1
        /\ producer = "synthetic" /\ producer' = producer
    BY <2>1 DEF GenerateKeyframe
  <2>5. AllWorded(bag')
    BY <1>0, <2>3, <2>4, KeyframeWorded, WordsJoined DEF WordInv
  <2>6. keyframeIndex' <= NumKeyframes
    BY <1>0, <2>4, Numbers
  <2> QED
    BY <2>4, <2>5, <2>6 DEF WordInv, AllWorded
<1>5. CASE CloseSynthetic
  BY <1>5 DEF CloseSynthetic, sourceVars, WordInv, AllWorded
<1>6. CASE \E keyframe \in KeyframeIds \cup {NoId}, obs \in Ids, sourced \in BOOLEAN,
             time \in BoundaryTimes : ScheduleBoundary(keyframe, obs, sourced, time)
  <2>1. PICK keyframe \in KeyframeIds \cup {NoId}, obs \in Ids, sourced \in BOOLEAN,
             time \in BoundaryTimes : ScheduleBoundary(keyframe, obs, sourced, time)
    BY <1>6
  <2>2. PICK log \in {Len(bag), time} :
          bag' = Append(bag, BoundaryAt(keyframe, obs, sourced, time, log))
    BY <2>1 DEF ScheduleBoundary, BoundaryAt
  <2> DEFINE m == BoundaryAt(keyframe, obs, sourced, time, log)
  <2>3. /\ m \in BagMessages /\ m.id = obs /\ m.keyframe = keyframe
    <3>1. obs \in GivenIds
      BY <2>1 DEF ScheduleBoundary, GivenIds
    <3> QED
      BY <3>1, ScheduledTyped
  <2>5. Worded(m)
    BY <2>3 DEF Worded
  <2> HIDE DEF m
  <2>6. /\ Len(bag') = Len(bag) + 1 /\ \A i \in 1 .. Len(bag) : bag'[i] = bag[i]
        /\ bag'[Len(bag) + 1] = m /\ Len(bag) \in Nat
    BY <1>0, <2>2, <2>3, Appended DEF m
  <2>7. AllWorded(bag')
    <3>1. \A i \in 1 .. Len(bag) + 1 : i \in 1 .. Len(bag) \/ i = Len(bag) + 1
      BY <2>6
    <3> QED
      BY <2>5, <2>6, <3>1 DEF WordInv, AllWorded
  <2>8. UNCHANGED <<tick, keyframeIndex, producer>>
    BY <2>1 DEF ScheduleBoundary, sourceVars
  <2> QED
    BY <2>7, <2>8 DEF WordInv, AllWorded
<1>7. CASE CloseScheduler
  BY <1>7 DEF CloseScheduler, sourceVars, WordInv, AllWorded
<1>8. CASE AuditMessage \/ AuditBag
  BY <1>8 DEF AuditMessage, AuditBag, sourceVars, WordInv, AllWorded
<1>9. CASE OpenBag
  BY <1>9 DEF OpenBag, sourceVars, WordInv, AllWorded
<1>10. CASE UNCHANGED recordingVars
  BY <1>10 DEF recordingVars, sourceVars, WordInv, AllWorded
<1> QED
  BY <1>1, <1>2, <1>3, <1>4, <1>5, <1>6, <1>7, <1>8, <1>9, <1>10
     DEF RecordingNext, ReadMessage, FinishReplay

-----------------------------------------------------------------------------
(***************************************************************************)
(* What the two producers write: identities of their own, boundaries of    *)
(* their own, and depth readings whose source is in the same round.        *)
(***************************************************************************)
Distinct(b) ==
  \A i, j \in 1 .. Len(b) : b[i].topic \in StampedTopics =>
     /\ b[i].id # NoId
     /\ b[j].topic = b[i].topic /\ b[j].id = b[i].id /\ b[i].topic # "sonar" => i = j

BoundariesApart(b) ==
  \A i, j \in 1 .. Len(b) : b[i].topic = "boundary" =>
     /\ b[i].keyframe # NoId /\ b[i].sourced /\ b[i].capture = b[i].log
     /\ b[j].topic = "boundary" /\ i # j => b[i].keyframe # b[j].keyframe /\ b[i].log # b[j].log

Heard(b, id) == \E i \in 1 .. Len(b) : b[i].topic \in StampedTopics /\ b[i].id = id

\* A depth reading's source is in the bag exactly when its round wrote one.
Sourced(b, id, round) == Heard(b, id) <=> round.written \cap RawTopics # {}

DepthSourced(b, rounds) ==
  /\ \A i \in 1 .. Len(b) : b[i].topic = "depth" =>
       /\ b[i].id # NoId
       /\ \E r \in 1 .. Len(rounds) : "depth" \in rounds[r].written /\ Sourced(b, b[i].id, rounds[r])
  /\ \A r \in 1 .. Len(rounds) : "depth" \in rounds[r].written =>
       \E i \in 1 .. Len(b) : b[i].topic = "depth" /\ Sourced(b, b[i].id, rounds[r])

\* The same of the messages of one round.
RoundSourced(c, round) ==
  /\ \A i \in 1 .. Len(c) : c[i].topic = "depth" =>
       c[i].id # NoId /\ "depth" \in round.written /\ Sourced(c, c[i].id, round)
  /\ "depth" \in round.written => \E i \in 1 .. Len(c) : c[i].topic = "depth"

\* No identity of b is used in c.
NewIds(b, c) ==
  \A i \in 1 .. Len(b), j \in 1 .. Len(c) : b[i].id = c[j].id => b[i].id = NoId

LEMMA DistinctJoined ==
  ASSUME NEW b \in Seq(BagMessages), NEW c \in Seq(BagMessages), Distinct(b), Distinct(c), NewIds(b, c)
  PROVE  Distinct(b \o c)
<1> DEFINE u == b \o c
           n == Len(b)
<1>1. \A i \in 1 .. Len(u) :
        \/ i \in 1 .. n /\ u[i] = b[i]
        \/ i \notin 1 .. n /\ i - n \in 1 .. Len(c) /\ u[i] = c[i - n]
  BY Joined
<1>0. n \in Nat
  OBVIOUS
<1> HIDE DEF u
<1>2. ASSUME NEW i \in 1 .. Len(u), NEW j \in 1 .. Len(u), u[i].topic \in StampedTopics
      PROVE  /\ u[i].id # NoId
             /\ u[j].topic = u[i].topic /\ u[j].id = u[i].id /\ u[i].topic # "sonar" => i = j
  <2>1. u[i].id # NoId
    BY <1>1, <1>2 DEF Distinct
  <2>2. CASE i \in 1 .. n /\ j \in 1 .. n
    BY <1>1, <1>2, <2>1, <2>2 DEF Distinct
  <2>3. CASE i \in 1 .. n /\ j \notin 1 .. n
    <3>1. u[i] = b[i] /\ j - n \in 1 .. Len(c) /\ u[j] = c[j - n]
      BY <1>1, <2>3
    <3> QED
      BY <2>1, <2>3, <3>1 DEF NewIds
  <2>4. CASE i \notin 1 .. n /\ j \in 1 .. n
    <3>1. u[j] = b[j] /\ i - n \in 1 .. Len(c) /\ u[i] = c[i - n]
      BY <1>1, <2>4
    <3> QED
      BY <2>1, <2>4, <3>1 DEF NewIds
  <2>5. CASE i \notin 1 .. n /\ j \notin 1 .. n
    <3>1. /\ i - n \in 1 .. Len(c) /\ u[i] = c[i - n]
          /\ j - n \in 1 .. Len(c) /\ u[j] = c[j - n]
      BY <1>1, <2>5
    <3>2. u[j].topic = u[i].topic /\ u[j].id = u[i].id /\ u[i].topic # "sonar" => i - n = j - n
      BY <1>2, <3>1 DEF Distinct
    <3> QED
      BY <1>0, <2>1, <3>2
  <2> QED
    BY <2>2, <2>3, <2>4, <2>5
<1>3. Distinct(u)
  BY <1>2 DEF Distinct
<1> QED
  BY <1>3 DEF u

\* Boundaries of c whose keyframes and log times are none of b's.
NewBoundaries(b, c) ==
  \A i \in 1 .. Len(b), j \in 1 .. Len(c) : b[i].topic = "boundary" /\ c[j].topic = "boundary" =>
     b[i].keyframe # c[j].keyframe /\ b[i].log # c[j].log

LEMMA BoundariesJoined ==
  ASSUME NEW b \in Seq(BagMessages), NEW c \in Seq(BagMessages), BoundariesApart(b),
         BoundariesApart(c), NewBoundaries(b, c)
  PROVE  BoundariesApart(b \o c)
<1> DEFINE u == b \o c
           n == Len(b)
<1>1. \A i \in 1 .. Len(u) :
        \/ i \in 1 .. n /\ u[i] = b[i]
        \/ i \notin 1 .. n /\ i - n \in 1 .. Len(c) /\ u[i] = c[i - n]
  BY Joined
<1>0. n \in Nat
  OBVIOUS
<1> HIDE DEF u
<1>2. ASSUME NEW i \in 1 .. Len(u), NEW j \in 1 .. Len(u), u[i].topic = "boundary"
      PROVE  /\ u[i].keyframe # NoId /\ u[i].sourced /\ u[i].capture = u[i].log
             /\ u[j].topic = "boundary" /\ i # j =>
                  u[i].keyframe # u[j].keyframe /\ u[i].log # u[j].log
  <2>1. u[i].keyframe # NoId /\ u[i].sourced /\ u[i].capture = u[i].log
    <3>1. CASE i \in 1 .. n /\ u[i] = b[i]
      BY <1>2, <3>1, Zenon DEF BoundariesApart
    <3>2. CASE i \notin 1 .. n /\ i - n \in 1 .. Len(c) /\ u[i] = c[i - n]
      BY <1>2, <3>2, Zenon DEF BoundariesApart
    <3> QED
      BY <1>1, <3>1, <3>2
  <2>2. CASE i \in 1 .. n /\ j \in 1 .. n
    BY <1>1, <1>2, <2>1, <2>2 DEF BoundariesApart
  <2>3. CASE i \in 1 .. n /\ j \notin 1 .. n
    <3>1. u[i] = b[i] /\ j - n \in 1 .. Len(c) /\ u[j] = c[j - n]
      BY <1>1, <2>3
    <3> QED
      BY <1>2, <2>1, <2>3, <3>1 DEF NewBoundaries
  <2>4. CASE i \notin 1 .. n /\ j \in 1 .. n
    <3>1. u[j] = b[j] /\ i - n \in 1 .. Len(c) /\ u[i] = c[i - n]
      BY <1>1, <2>4
    <3> QED
      BY <1>2, <2>1, <2>4, <3>1 DEF NewBoundaries
  <2>5. CASE i \notin 1 .. n /\ j \notin 1 .. n
    <3>1. /\ i - n \in 1 .. Len(c) /\ u[i] = c[i - n]
          /\ j - n \in 1 .. Len(c) /\ u[j] = c[j - n]
      BY <1>1, <2>5
    <3>2. i # j => i - n # j - n
      BY <1>0
    <3> QED
      BY <1>2, <2>1, <3>1, <3>2 DEF BoundariesApart
  <2> QED
    BY <2>2, <2>3, <2>4, <2>5
<1>3. BoundariesApart(u)
  BY <1>2 DEF BoundariesApart
<1> QED
  BY <1>3 DEF u

\* Messages with new identities do not change what was heard of the others.
LEMMA HeardJoined ==
  ASSUME NEW b \in Seq(BagMessages), NEW c \in Seq(BagMessages), NEW id
  PROVE  Heard(b \o c, id) <=> Heard(b, id) \/ Heard(c, id)
<1> DEFINE u == b \o c
           n == Len(b)
<1>1. /\ \A i \in 1 .. n : u[i] = b[i] /\ i \in 1 .. Len(u)
      /\ \A i \in 1 .. Len(c) : u[n + i] = c[i] /\ n + i \in 1 .. Len(u)
      /\ \A i \in 1 .. Len(u) :
           \/ i \in 1 .. n /\ u[i] = b[i]
           \/ i \notin 1 .. n /\ i - n \in 1 .. Len(c) /\ u[i] = c[i - n]
  BY Joined
<1> HIDE DEF u, n
<1>2. Heard(u, id) => Heard(b, id) \/ Heard(c, id)
  BY <1>1 DEF Heard, n
<1>3. Heard(b, id) => Heard(u, id)
  BY <1>1 DEF Heard, n
<1>4. Heard(c, id) => Heard(u, id)
  BY <1>1 DEF Heard, n
<1> QED
  BY <1>2, <1>3, <1>4 DEF u

LEMMA DepthJoined ==
  ASSUME NEW b \in Seq(BagMessages), NEW c \in Seq(BagMessages), NEW R, NEW tk \in Seq(R),
         NEW round \in R, DepthSourced(b, tk), RoundSourced(c, round), NewIds(b, c)
  PROVE  DepthSourced(b \o c, Append(tk, round))
<1> DEFINE u == b \o c
           n == Len(b)
           tk2 == Append(tk, round)
           m == Len(tk)
<1>1. /\ \A i \in 1 .. n : u[i] = b[i] /\ i \in 1 .. Len(u)
      /\ \A i \in 1 .. Len(c) : u[n + i] = c[i] /\ n + i \in 1 .. Len(u)
      /\ \A i \in 1 .. Len(u) :
           \/ i \in 1 .. n /\ u[i] = b[i]
           \/ i \notin 1 .. n /\ i - n \in 1 .. Len(c) /\ u[i] = c[i - n]
  BY Joined
<1>2. \A id : Heard(u, id) <=> Heard(b, id) \/ Heard(c, id)
  BY HeardJoined
<1>3. /\ Len(tk2) = m + 1 /\ m \in Nat
      /\ \A r \in 1 .. m : tk2[r] = tk[r] /\ r \in 1 .. Len(tk2)
      /\ tk2[m + 1] = round /\ m + 1 \in 1 .. Len(tk2)
      /\ \A r \in 1 .. Len(tk2) : r \in 1 .. m \/ r = m + 1
  <2>1. /\ Len(tk2) = m + 1 /\ m \in Nat /\ \A r \in 1 .. m : tk2[r] = tk[r]
        /\ tk2[m + 1] = round
    BY Appended
  <2> QED
    BY <2>1
<1> HIDE DEF u, n, tk2, m
<1>4. ASSUME NEW i \in 1 .. n, b[i].id # NoId, NEW r
      PROVE  Sourced(u, b[i].id, r) <=> Sourced(b, b[i].id, r)
  <2>1. ~Heard(c, b[i].id)
    BY <1>4 DEF Heard, NewIds, n
  <2> QED
    BY <1>2, <2>1 DEF Sourced
<1>5. ASSUME NEW i \in 1 .. Len(c), c[i].id # NoId, NEW r
      PROVE  Sourced(u, c[i].id, r) <=> Sourced(c, c[i].id, r)
  <2>1. ~Heard(b, c[i].id)
    BY <1>5 DEF Heard, NewIds, n
  <2> QED
    BY <1>2, <2>1 DEF Sourced
<1>6. ASSUME NEW i \in 1 .. Len(u), u[i].topic = "depth"
      PROVE  /\ u[i].id # NoId
             /\ \E r \in 1 .. Len(tk2) : "depth" \in tk2[r].written /\ Sourced(u, u[i].id, tk2[r])
  <2>1. CASE i \in 1 .. n /\ u[i] = b[i]
    <3>1. PICK r \in 1 .. m : "depth" \in tk[r].written /\ Sourced(b, b[i].id, tk[r])
      BY <1>6, <2>1 DEF DepthSourced, n, m
    <3>2. b[i].id # NoId
      BY <1>6, <2>1 DEF DepthSourced, n
    <3>3. Sourced(u, b[i].id, tk[r])
      BY <1>4, <2>1, <3>1, <3>2
    <3> QED
      BY <1>3, <2>1, <3>1, <3>2, <3>3
  <2>2. CASE i - n \in 1 .. Len(c) /\ u[i] = c[i - n]
    <3>1. c[i - n].id # NoId /\ "depth" \in round.written /\ Sourced(c, c[i - n].id, round)
      BY <1>6, <2>2 DEF RoundSourced
    <3>2. Sourced(u, c[i - n].id, round)
      BY <1>5, <2>2, <3>1
    <3> QED
      BY <1>3, <2>2, <3>1, <3>2
  <2> QED
    BY <1>1, <2>1, <2>2
<1>7. ASSUME NEW r \in 1 .. Len(tk2), "depth" \in tk2[r].written
      PROVE  \E i \in 1 .. Len(u) : u[i].topic = "depth" /\ Sourced(u, u[i].id, tk2[r])
  <2>1. CASE r \in 1 .. m
    <3>1. tk2[r] = tk[r]
      BY <1>3, <2>1
    <3>2. PICK i \in 1 .. n : b[i].topic = "depth" /\ Sourced(b, b[i].id, tk[r])
      BY <1>7, <2>1, <3>1 DEF DepthSourced, n, m
    <3>3. b[i].id # NoId
      BY <3>2 DEF DepthSourced, n
    <3>4. Sourced(u, b[i].id, tk[r])
      BY <1>4, <3>2, <3>3
    <3> QED
      BY <1>1, <3>1, <3>2, <3>4
  <2>2. CASE r = m + 1
    <3>1. tk2[r] = round
      BY <1>3, <2>2
    <3>2. PICK i \in 1 .. Len(c) : c[i].topic = "depth"
      BY <1>7, <3>1 DEF RoundSourced
    <3>3. c[i].id # NoId /\ Sourced(c, c[i].id, round)
      BY <3>2 DEF RoundSourced
    <3>4. Sourced(u, c[i].id, round)
      BY <1>5, <3>3
    <3> QED
      BY <1>1, <3>1, <3>2, <3>4
  <2> QED
    BY <1>3, <2>1, <2>2
<1>8. DepthSourced(u, tk2)
  BY <1>6, <1>7 DEF DepthSourced
<1> QED
  BY <1>8 DEF u, tk2

-----------------------------------------------------------------------------
LEMMA NoIdApart ==
  ASSUME NEW n \in Nat
  PROVE  /\ TickId(n) # NoId /\ KeyframeId(n) # NoId /\ <<"imu", n>> # NoId
         /\ <<"boundary", n>> # NoId
<1>1. \A kind \in {"tick", "kf", "imu", "boundary"} :
        <<kind, n>> \in {"tick", "kf", "imu", "boundary"} \X Nat
  OBVIOUS
<1>2. NoId \notin {"tick", "kf", "imu", "boundary"} \X Nat
  BY RecordingAssumption
<1> QED
  BY <1>1, <1>2 DEF TickId, KeyframeId

\* What one round adds to the bag.
GoodRound(b, c, round) ==
  /\ Distinct(c) /\ BoundariesApart(c) /\ RoundSourced(c, round)
  /\ NewIds(b, c) /\ NewBoundaries(b, c)

LEMMA GoodTick ==
  ASSUME BagTyped, PairsInv, NEW sensors \in TickSets, RecordTick(sensors), NEW block, NEW W,
         TickStep(sensors, block, W)
  PROVE  GoodRound(bag, block, RoundOf(W, tick * TickPeriod, receive'))
<1> DEFINE round == RoundOf(W, tick * TickPeriod, receive')
<1>1. receive' \in Int
  BY TickSteps
<1>2. /\ Part(block, W, TickMessages(sensors, receive')) /\ W \subseteq sensors
      /\ FormsPair(sensors) /\ W # {} => "left" \in W
  BY DEF TickStep
<1>3. W \subseteq RawTopics \cup {"gt", "depth"} /\ "boundary" \notin W
  BY <1>2, RecordingAssumption DEF RawTopics
<1>4. \A i \in 1 .. Len(block) :
        /\ block[i].topic \in W
        /\ block[i].id = KeyframeId(keyframeIndex) \/ block[i].id = TickId(tick)
        /\ FormsPair(sensors) /\ block[i].topic \in {"left", "right", "gt", "depth"}
             => block[i].id = KeyframeId(keyframeIndex)
        /\ ~FormsPair(sensors) => block[i].id = TickId(tick)
  BY <1>1, <1>2, TickIds DEF Part
<1>5. /\ KeyframeId(keyframeIndex) # NoId /\ TickId(tick) # NoId
  BY NoIdApart DEF BagTyped
<1>6. \A i \in 1 .. Len(bag) : bag[i].id # KeyframeId(keyframeIndex) /\ bag[i].id # TickId(tick)
  <2>1. \A i \in 1 .. Len(bag) : bag[i].id \in SessionIds
    BY DEF RecordTick, PairsInv
  <2>2. /\ \A n \in 0 .. keyframeIndex - 1 : n # keyframeIndex
        /\ \A n \in 0 .. tick - 1 : n # tick
    BY DEF BagTyped
  <2> QED
    BY <2>1, <2>2, IdsDiffer DEF SessionIds
<1>7. Distinct(block)
  BY <1>2, <1>4, <1>5 DEF Distinct, Part
<1>8. BoundariesApart(block) /\ NewBoundaries(bag, block)
  BY <1>3, <1>4 DEF BoundariesApart, NewBoundaries
<1>9. NewIds(bag, block)
  BY <1>4, <1>6 DEF NewIds
<1>10. round.written = W
  BY DEF RoundOf
<1> HIDE DEF round
<1>11. ASSUME NEW i \in 1 .. Len(block), block[i].topic = "depth"
       PROVE  block[i].id # NoId /\ "depth" \in round.written /\ Sourced(block, block[i].id, round)
  <2>1. block[i].id # NoId /\ "depth" \in W
    BY <1>4, <1>5, <1>11
  <2>2. CASE FormsPair(sensors)
    <3>1. "left" \in W
      BY <1>2, <2>1, <2>2
    <3>2. PICK l \in 1 .. Len(block) : block[l].topic = "left"
      BY <1>2, <3>1 DEF Part
    <3>3. block[l].id = block[i].id
      BY <1>4, <1>11, <2>2, <3>2
    <3>4. Heard(block, block[i].id)
      BY <3>2, <3>3 DEF Heard, StampedTopics, RawTopics
    <3>5. W \cap RawTopics # {}
      BY <3>1 DEF RawTopics
    <3> QED
      BY <1>10, <2>1, <3>4, <3>5 DEF Sourced
  <2>3. CASE ~FormsPair(sensors)
    <3>1. \A j \in 1 .. Len(block) : block[j].id = block[i].id
      BY <1>4, <2>3
    <3>2. ASSUME Heard(block, block[i].id) PROVE W \cap RawTopics # {}
      <4>1. PICK j \in 1 .. Len(block) : block[j].topic \in StampedTopics
        BY <3>2 DEF Heard
      <4>2. block[j].topic \in W /\ block[j].topic \in RawTopics
        BY <1>3, <1>4, <4>1 DEF StampedTopics
      <4> QED
        BY <4>2
    <3>3. ASSUME W \cap RawTopics # {} PROVE Heard(block, block[i].id)
      <4>1. PICK topic \in W : topic \in RawTopics
        BY <3>3
      <4>2. PICK j \in 1 .. Len(block) : block[j].topic = topic
        BY <1>2, <4>1 DEF Part
      <4> QED
        BY <3>1, <4>1, <4>2 DEF Heard, StampedTopics
    <3> QED
      BY <1>10, <2>1, <3>2, <3>3 DEF Sourced
  <2> QED
    BY <2>2, <2>3
<1>12. "depth" \in round.written => \E i \in 1 .. Len(block) : block[i].topic = "depth"
  BY <1>2, <1>10 DEF Part
<1>13. RoundSourced(block, round)
  BY <1>11, <1>12 DEF RoundSourced
<1> QED
  BY <1>7, <1>8, <1>9, <1>13 DEF GoodRound, round

\* The identities and the boundaries of the keyframes so far.
RunIds ==
  {NoId} \cup ({"imu"} \X Nat) \cup {KeyframeId(n) : n \in 0 .. keyframeIndex - 1}
    \cup {<<"boundary", n>> : n \in 0 .. keyframeIndex - 1}

RunInv ==
  producer = "synthetic" =>
     \A i \in 1 .. Len(bag) :
        /\ bag[i].id \in RunIds
        /\ bag[i].topic = "boundary" =>
             /\ bag[i].keyframe \in {KeyframeId(n) : n \in 0 .. keyframeIndex - 1}
             /\ bag[i].log < KeyframeTime

LEMMA GoodKeyframe ==
  ASSUME BagTyped, RunInv, producer = "synthetic", NEW n, NEW block, KeyframeStep(n, block)
  PROVE  GoodRound(bag, block, RoundOf(KeyframeTopics(n), KeyframeTime, KeyframeTime))
<1> DEFINE W == KeyframeTopics(n)
           round == RoundOf(W, KeyframeTime, KeyframeTime)
           kf == KeyframeId(keyframeIndex)
           bd == <<"boundary", keyframeIndex>>
<1>1. Part(block, W, RoundMessages)
  BY DEF KeyframeStep
<1>2. W \subseteq {"boundary", "gt", "relpose", "sonar", "left", "right", "depth"} /\ "depth" \in W
  BY DEF KeyframeTopics
<1>3. kf # NoId /\ bd # NoId /\ kf # bd
  <2>1. kf # bd
    BY DEF KeyframeId
  <2> QED
    BY <2>1, NoIdApart DEF BagTyped
<1>10. round.written = W
  BY DEF RoundOf
<1> HIDE DEF W, round
<1>4. \A i \in 1 .. Len(block) :
        /\ block[i].topic \in W
        /\ block[i].topic \in {"left", "right", "sonar", "depth", "gt"} => block[i].id = kf
        /\ block[i].topic = "boundary" =>
             /\ block[i].id = bd /\ block[i].keyframe = kf /\ block[i].sourced
             /\ block[i].log = KeyframeTime /\ block[i].capture = KeyframeTime
        /\ block[i].topic = "relpose" => block[i].id = NoId
  BY <1>1 DEF Part, RoundMessages
<1>5. \A i \in 1 .. Len(block) : block[i].id \in {kf, bd, NoId}
  BY <1>2, <1>4
<1>6. \A i \in 1 .. Len(bag) : bag[i].id # kf /\ bag[i].id # bd
  <2>1. kf \notin RunIds /\ bd \notin RunIds
    <3>1. \A m \in 0 .. keyframeIndex - 1 : m # keyframeIndex
      BY DEF BagTyped
    <3>2. /\ \A m \in 0 .. keyframeIndex - 1 : KeyframeId(m) # kf /\ <<"boundary", m>> # kf
          /\ \A m \in 0 .. keyframeIndex - 1 : KeyframeId(m) # bd /\ <<"boundary", m>> # bd
      BY <3>1 DEF KeyframeId
    <3>3. kf \notin {"imu"} \X Nat /\ bd \notin {"imu"} \X Nat
      BY DEF KeyframeId
    <3> HIDE DEF kf, bd
    <3> QED
      BY <1>3, <3>2, <3>3 DEF RunIds
  <2> QED
    BY <2>1 DEF RunInv
<1>7. Distinct(block)
  <2>1. \A i \in 1 .. Len(block) : block[i].topic \in StampedTopics =>
          block[i].topic \in {"boundary", "sonar", "left", "right"}
    BY <1>2, <1>4 DEF StampedTopics, RawTopics
  <2>2. \A i \in 1 .. Len(block) : block[i].topic \in StampedTopics => block[i].id # NoId
    BY <1>3, <1>4, <2>1
  <2> QED
    BY <1>1, <2>2 DEF Distinct, Part
<1>8. BoundariesApart(block)
  <2>1. \A i, j \in 1 .. Len(block) :
          block[i].topic = "boundary" /\ block[j].topic = "boundary" => i = j
    BY <1>1 DEF Part
  <2> QED
    BY <1>3, <1>4, <2>1 DEF BoundariesApart
<1>9. NewIds(bag, block)
  BY <1>5, <1>6 DEF NewIds
<1>11. NewBoundaries(bag, block)
  <2>1. ASSUME NEW i \in 1 .. Len(bag), bag[i].topic = "boundary"
        PROVE  bag[i].keyframe # kf /\ bag[i].log # KeyframeTime
    <3>1. /\ bag[i].keyframe \in {KeyframeId(m) : m \in 0 .. keyframeIndex - 1}
          /\ bag[i].log < KeyframeTime
      BY <2>1 DEF RunInv
    <3>2. \A m \in 0 .. keyframeIndex - 1 : m # keyframeIndex
      BY DEF BagTyped
    <3>3. bag[i].log \in Nat /\ KeyframeTime \in Nat
      BY <2>1, BagDomain, TimeTyped
    <3> QED
      BY <3>1, <3>2, <3>3, IdsDiffer
  <2> QED
    BY <1>4, <2>1 DEF NewBoundaries
<1>12. ASSUME NEW i \in 1 .. Len(block), block[i].topic = "depth"
       PROVE  block[i].id # NoId /\ Sourced(block, block[i].id, round)
  <2>1. block[i].id = kf
    BY <1>4, <1>12
  <2>2. ASSUME Heard(block, kf) PROVE W \cap RawTopics # {}
    <3>1. PICK j \in 1 .. Len(block) : block[j].topic \in StampedTopics /\ block[j].id = kf
      BY <2>2 DEF Heard
    <3>2. block[j].topic \in W /\ block[j].topic # "boundary"
      BY <1>3, <1>4, <3>1
    <3> QED
      BY <3>1, <3>2 DEF StampedTopics
  <2>3. ASSUME W \cap RawTopics # {} PROVE Heard(block, kf)
    <3>1. PICK topic \in W : topic \in RawTopics
      BY <2>3
    <3>2. topic \in {"sonar", "left", "right"}
      BY <1>2, <3>1 DEF RawTopics
    <3>3. PICK j \in 1 .. Len(block) : block[j].topic = topic
      BY <1>1, <3>1 DEF Part
    <3> QED
      BY <1>4, <3>1, <3>2, <3>3 DEF Heard, StampedTopics
  <2> QED
    BY <1>3, <1>10, <2>1, <2>2, <2>3 DEF Sourced
<1>13. \E i \in 1 .. Len(block) : block[i].topic = "depth"
  BY <1>1, <1>2 DEF Part
<1>14. RoundSourced(block, round)
  BY <1>2, <1>10, <1>12, <1>13 DEF RoundSourced
<1> QED
  BY <1>7, <1>8, <1>9, <1>11, <1>14 DEF GoodRound, round, W

\* What stands before the keyframes.
LEMMA PreludeShape ==
  \A i \in 1 .. Len(Prelude) :
     \/ Prelude[i].topic = "targets" /\ Prelude[i].id = NoId
     \/ i > 1 /\ Prelude[i].topic = "imu" /\ Prelude[i].id = <<"imu", i - 2>>
<1> DEFINE h == <<Message("targets", NoId, 0, 0)>>
           t == IF options.imu THEN ImuBlock ELSE <<>>
           u == h \o t
<1>1. /\ h \in Seq(BagMessages) /\ Len(h) = 1 /\ h[1] = Message("targets", NoId, 0, 0)
      /\ h[1].topic = "targets"
  BY PreludeTyped
<1>2. h[1].id = NoId
  BY DEF Message
<1>3. /\ t \in Seq(BagMessages)
      /\ \A i \in 1 .. Len(t) : t[i].topic = "imu" /\ t[i].id = <<"imu", i - 1>>
  <2>1. CASE options.imu
    BY <2>1, ImuBlockShape
  <2>2. CASE ~options.imu
    <3>1. t = <<>> /\ <<>> \in Seq(BagMessages) /\ 1 .. Len(<<>>) = {}
      BY <2>2
    <3> HIDE DEF t
    <3> QED
      BY <3>1
  <2> QED
    BY <2>1, <2>2
<1>4. Prelude = u
  BY DEF Prelude
<1> HIDE DEF h, t
<1>5. \A i \in 1 .. Len(u) :
        \/ i \in 1 .. Len(h) /\ u[i] = h[i]
        \/ i \notin 1 .. Len(h) /\ i - Len(h) \in 1 .. Len(t) /\ u[i] = t[i - Len(h)]
  BY <1>1, <1>3, Joined
<1> HIDE DEF u
<1>6. ASSUME NEW i \in 1 .. Len(u)
      PROVE  \/ u[i].topic = "targets" /\ u[i].id = NoId
             \/ i > 1 /\ u[i].topic = "imu" /\ u[i].id = <<"imu", i - 2>>
  <2>1. CASE i = 1
    BY <1>1, <1>2, <1>5, <2>1
  <2>2. CASE i # 1
    <3>1. i > 1 /\ i - 1 \in 1 .. Len(t) /\ u[i] = t[i - 1]
      BY <1>1, <1>5, <2>2
    <3>2. (i - 1) - 1 = i - 2
      OBVIOUS
    <3> QED
      BY <1>3, <3>1, <3>2
  <2> QED
    BY <2>1, <2>2
<1> QED
  BY <1>4, <1>6

LEMMA RunInit == RecordingInit => RunInv
<1> SUFFICES ASSUME RecordingInit PROVE RunInv
  OBVIOUS
<1>1. bag = <<>>
  BY DEF RecordingInit
<1>2. 1 .. Len(bag) = {}
  BY <1>1
<1> QED
  BY <1>2 DEF RunInv

LEMMA NextTime ==
  ASSUME NEW k \in Nat, NEW p \in Nat, p > 0, NEW s \in Nat
  PROVE  s + k * p < s + (k + 1) * p
<1>1. (k + 1) * p = k * p + p
  OBVIOUS
<1>2. k * p \in Nat
  OBVIOUS
<1> QED
  BY <1>1, <1>2

LEMMA RunKept ==
  ASSUME RunInv, UNCHANGED <<producer, options, bag, keyframeIndex>>
  PROVE  RunInv'
BY DEF RunInv, RunIds, KeyframeTime, StartTime, KeyframeId

LEMMA RunNext ==
  ASSUME BagTyped, RunInv, [RecordingNext]_<<recordingVars, vars>>
  PROVE  RunInv'
<1>1. CASE \E sensors \in TickSets : RecordTick(sensors)
  BY <1>1 DEF RecordTick, RunInv
<1>2. CASE EndSession
  BY <1>2 DEF EndSession, RunInv
<1>3. CASE WritePrelude
  <2>1. bag' = Prelude /\ producer' = producer /\ keyframeIndex' = keyframeIndex
    BY <1>3 DEF WritePrelude, Prelude
  <2>2. \A i \in 1 .. Len(bag') : bag'[i].id \in RunIds' /\ bag'[i].topic # "boundary"
    <3>1. \A i \in 1 .. Len(Prelude) : i > 1 => <<"imu", i - 2>> \in {"imu"} \X Nat
      BY PreludeTyped
    <3> QED
      BY <2>1, <3>1, PreludeShape DEF RunIds
  <2> QED
    BY <2>2 DEF RunInv
<1>4. CASE \E inRange \in SUBSET Targets : GenerateKeyframe(inRange)
  <2>1. PICK inRange \in SUBSET Targets : GenerateKeyframe(inRange)
    BY <1>4
  <2>2. PICK n, block : KeyframeStep(n, block)
    BY <2>1, KeyframeSteps
  <2>3. /\ Part(block, KeyframeTopics(n), RoundMessages) /\ bag' = bag \o block
        /\ block \in Seq(BagMessages) /\ bag \in Seq(BagMessages)
    BY <2>2 DEF KeyframeStep, Part, BagTyped
  <2>4. /\ keyframeIndex' = keyframeIndex + 1 /\ producer = "synthetic"
        /\ options' = options /\ keyframeIndex \in Nat
    BY <2>1 DEF GenerateKeyframe, BagTyped
  <2>5. KeyframeTime' > KeyframeTime /\ KeyframeTime \in Nat /\ KeyframeTime' \in Nat
    <3>1. StartTime' = StartTime /\ StartTime \in Nat
      BY <2>4, TimeTyped DEF StartTime
    <3>2. /\ KeyframeTime = StartTime + keyframeIndex * KeyframePeriod
          /\ KeyframeTime' = StartTime + (keyframeIndex + 1) * KeyframePeriod
      BY <2>4, <3>1 DEF KeyframeTime
    <3>3. (keyframeIndex + 1) * KeyframePeriod \in Nat
      BY <2>4, Numbers, Product
    <3>4. StartTime + keyframeIndex * KeyframePeriod < StartTime + (keyframeIndex + 1) * KeyframePeriod
      BY <2>4, <3>1, Numbers, NextTime
    <3> QED
      BY <3>1, <3>2, <3>3, <3>4, TimeTyped
  <2>6. /\ RunIds \subseteq RunIds' /\ KeyframeId(keyframeIndex) \in RunIds'
        /\ <<"boundary", keyframeIndex>> \in RunIds' /\ NoId \in RunIds'
        /\ \A m \in 0 .. keyframeIndex - 1 : m \in 0 .. keyframeIndex' - 1
        /\ keyframeIndex \in 0 .. keyframeIndex' - 1
    <3>1. /\ \A m \in 0 .. keyframeIndex - 1 : m \in 0 .. keyframeIndex' - 1
          /\ keyframeIndex \in 0 .. keyframeIndex' - 1
      BY <2>4
    <3> QED
      BY <3>1 DEF RunIds, KeyframeId
  <2>8. \A i \in 1 .. Len(bag') :
          \/ i \in 1 .. Len(bag) /\ bag'[i] = bag[i]
          \/ i - Len(bag) \in 1 .. Len(block) /\ bag'[i] = block[i - Len(bag)]
    BY <2>3, Joined
  <2>7. ASSUME NEW i \in 1 .. Len(bag')
        PROVE  /\ bag'[i].id \in RunIds'
               /\ bag'[i].topic = "boundary" =>
                    /\ bag'[i].keyframe \in {KeyframeId(m) : m \in 0 .. keyframeIndex' - 1}
                    /\ bag'[i].log < KeyframeTime'
    <3>1. CASE i \in 1 .. Len(bag) /\ bag'[i] = bag[i]
      <4>1. /\ bag[i].id \in RunIds
            /\ bag[i].topic = "boundary" =>
                 /\ bag[i].keyframe \in {KeyframeId(m) : m \in 0 .. keyframeIndex - 1}
                 /\ bag[i].log < KeyframeTime
        BY <2>4, <3>1 DEF RunInv
      <4>2. bag[i].log \in Nat
        BY <3>1, BagDomain
      <4> QED
        BY <2>5, <2>6, <3>1, <4>1, <4>2
    <3>2. CASE i - Len(bag) \in 1 .. Len(block) /\ bag'[i] = block[i - Len(bag)]
      <4> DEFINE m == block[i - Len(bag)]
      <4>1. m \in RoundMessages /\ m.topic \in KeyframeTopics(n)
        BY <2>3, <3>2 DEF Part
      <4>2. m.topic \in {"boundary", "gt", "relpose", "sonar", "left", "right", "depth"}
        BY <4>1 DEF KeyframeTopics
      <4>3. m.id \in {KeyframeId(keyframeIndex), <<"boundary", keyframeIndex>>, NoId}
        BY <4>1, <4>2 DEF RoundMessages
      <4>4. m.topic = "boundary" => m.keyframe = KeyframeId(keyframeIndex) /\ m.log = KeyframeTime
        BY <4>1 DEF RoundMessages
      <4> QED
        BY <2>5, <2>6, <3>2, <4>3, <4>4
    <3> QED
      BY <2>8, <3>1, <3>2
  <2> QED
    BY <2>7 DEF RunInv
<1>5. CASE CloseSynthetic
  BY <1>5, RunKept DEF CloseSynthetic, sourceVars
<1>6. CASE \E keyframe \in KeyframeIds \cup {NoId}, obs \in Ids, sourced \in BOOLEAN,
             time \in BoundaryTimes : ScheduleBoundary(keyframe, obs, sourced, time)
  BY <1>6 DEF ScheduleBoundary, RunInv
<1>7. CASE CloseScheduler
  BY <1>7 DEF CloseScheduler, RunInv
<1>8. CASE AuditMessage \/ AuditBag
  BY <1>8, RunKept DEF AuditMessage, AuditBag, sourceVars
<1>9. CASE OpenBag
  BY <1>9, RunKept DEF OpenBag, sourceVars
<1>10. CASE UNCHANGED recordingVars
  BY <1>10, RunKept DEF recordingVars, sourceVars
<1> QED
  BY <1>1, <1>2, <1>3, <1>4, <1>5, <1>6, <1>7, <1>8, <1>9, <1>10
     DEF RecordingNext, ReadMessage, FinishReplay

-----------------------------------------------------------------------------
ProducedInv ==
  Recorded => Distinct(bag) /\ BoundariesApart(bag) /\ DepthSourced(bag, taken)

LEMMA ProducedInit == RecordingInit => ProducedInv
<1> SUFFICES ASSUME RecordingInit PROVE ProducedInv
  OBVIOUS
<1>1. bag = <<>> /\ taken = <<>>
  BY DEF RecordingInit
<1>2. 1 .. Len(bag) = {} /\ 1 .. Len(taken) = {}
  BY <1>1
<1> QED
  BY <1>2 DEF ProducedInv, Distinct, BoundariesApart, DepthSourced

LEMMA RoundAdded ==
  ASSUME BagTyped, NEW c \in Seq(BagMessages),
         NEW round \in [written : SUBSET Topics, time : Nat, receive : Int],
         Distinct(bag), BoundariesApart(bag), DepthSourced(bag, taken), GoodRound(bag, c, round)
  PROVE  /\ Distinct(bag \o c) /\ BoundariesApart(bag \o c)
         /\ DepthSourced(bag \o c, Append(taken, round))
<1>1. bag \in Seq(BagMessages) /\ taken \in Seq([written : SUBSET Topics, time : Nat, receive : Int])
  BY DEF BagTyped
<1>2. /\ Distinct(c) /\ BoundariesApart(c) /\ RoundSourced(c, round)
      /\ NewIds(bag, c) /\ NewBoundaries(bag, c)
  BY DEF GoodRound
<1>3. Distinct(bag \o c)
  BY <1>1, <1>2, DistinctJoined
<1>4. BoundariesApart(bag \o c)
  BY <1>1, <1>2, BoundariesJoined
<1>5. DepthSourced(bag \o c, Append(taken, round))
  BY <1>1, <1>2, DepthJoined
<1> QED
  BY <1>3, <1>4, <1>5

LEMMA ProducedKept ==
  ASSUME ProducedInv, UNCHANGED <<producer, bag, taken>>
  PROVE  ProducedInv'
<1>1. Recorded' <=> Recorded
  BY DEF Recorded
<1>2. (Distinct(bag) => Distinct(bag)') /\ (BoundariesApart(bag) => BoundariesApart(bag)')
  BY DEF Distinct, BoundariesApart
<1>3. \A id, round : Sourced(bag, id, round)' <=> Sourced(bag, id, round)
  BY DEF Sourced, Heard
<1>4. DepthSourced(bag, taken) => DepthSourced(bag, taken)'
  BY <1>3 DEF DepthSourced
<1> QED
  BY <1>1, <1>2, <1>4 DEF ProducedInv

LEMMA ProducedStep ==
  ASSUME Distinct(bag'), BoundariesApart(bag'), DepthSourced(bag', taken')
  PROVE  ProducedInv'
BY DEF ProducedInv, Distinct, BoundariesApart, DepthSourced, Sourced, Heard

LEMMA ProducedNext ==
  ASSUME BagTyped, PairsInv, RunInv, ProducedInv, [RecordingNext]_<<recordingVars, vars>>
  PROVE  ProducedInv'
<1>1. CASE \E sensors \in TickSets : RecordTick(sensors)
  <2>1. PICK sensors \in TickSets : RecordTick(sensors)
    BY <1>1
  <2>2. PICK block, W : TickStep(sensors, block, W)
    BY <2>1, TickSteps
  <2> DEFINE round == RoundOf(W, tick * TickPeriod, receive')
  <2>3. /\ block \in Seq(BagMessages) /\ bag' = bag \o block /\ taken' = Append(taken, round)
        /\ W \subseteq sensors
    BY <2>2 DEF TickStep, Part
  <2>4. round \in [written : SUBSET Topics, time : Nat, receive : Int]
    <3>1. W \subseteq Topics
      BY <2>3, RecordingAssumption DEF Topics, AuditedTopics, TimedTopics, StampedTopics
    <3>2. tick * TickPeriod \in Nat /\ receive' \in Int
      BY <2>1, TickSteps, Numbers, Product DEF BagTyped
    <3> QED
      BY <3>1, <3>2, RoundTyped
  <2>5. GoodRound(bag, block, round)
    BY <2>1, <2>2, GoodTick
  <2>6. Distinct(bag) /\ BoundariesApart(bag) /\ DepthSourced(bag, taken)
    BY <2>1 DEF RecordTick, ProducedInv, Recorded
  <2> HIDE DEF round
  <2>7. Distinct(bag') /\ BoundariesApart(bag') /\ DepthSourced(bag', taken')
    BY <2>3, <2>4, <2>5, <2>6, RoundAdded
  <2> QED
    BY <2>7, ProducedStep
<1>2. CASE EndSession
  BY <1>2, ProducedKept DEF EndSession, sourceVars
<1>3. CASE WritePrelude
  <2>1. bag' = Prelude /\ taken' = taken /\ bag = <<>> /\ producer = "synthetic"
    BY <1>3 DEF WritePrelude, Prelude
  <2>2. \A r \in 1 .. Len(taken) : "depth" \notin taken[r].written
    <3>1. 1 .. Len(bag) = {}
      BY <2>1
    <3> QED
      BY <2>1, <3>1 DEF ProducedInv, Recorded, DepthSourced
  <2>3. \A i \in 1 .. Len(Prelude) : Prelude[i].topic \in {"targets", "imu"}
    BY PreludeShape
  <2>4. Distinct(bag')
    <3>1. ASSUME NEW i \in 1 .. Len(Prelude), Prelude[i].topic \in StampedTopics
          PROVE  i > 1 /\ Prelude[i].id = <<"imu", i - 2>> /\ i - 2 \in Nat /\ Prelude[i].id # NoId
      <4>1. Prelude[i].topic # "targets"
        BY <3>1 DEF StampedTopics, RawTopics
      <4>2. i > 1 /\ Prelude[i].id = <<"imu", i - 2>>
        BY <4>1, PreludeShape
      <4>3. i - 2 \in Nat
        BY <4>2, PreludeTyped
      <4> QED
        BY <4>2, <4>3, NoIdApart
    <3>2. ASSUME NEW i \in 1 .. Len(Prelude), NEW j \in 1 .. Len(Prelude),
                 Prelude[i].topic \in StampedTopics, Prelude[j].topic \in StampedTopics,
                 Prelude[i].id = Prelude[j].id
          PROVE  i = j
      <4>1. <<"imu", i - 2>> = <<"imu", j - 2>>
        BY <3>1, <3>2
      <4>2. i - 2 = j - 2 /\ i \in Nat /\ j \in Nat
        BY <4>1
      <4> QED
        BY <4>2
    <3> QED
      BY <2>1, <3>1, <3>2 DEF Distinct
  <2>5. BoundariesApart(bag')
    BY <2>1, <2>3 DEF BoundariesApart
  <2>6. DepthSourced(bag', taken')
    BY <2>1, <2>2, <2>3 DEF DepthSourced
  <2> QED
    BY <2>4, <2>5, <2>6, ProducedStep
<1>4. CASE \E inRange \in SUBSET Targets : GenerateKeyframe(inRange)
  <2>1. PICK inRange \in SUBSET Targets : GenerateKeyframe(inRange)
    BY <1>4
  <2>2. PICK n, block : KeyframeStep(n, block)
    BY <2>1, KeyframeSteps
  <2> DEFINE round == RoundOf(KeyframeTopics(n), KeyframeTime, KeyframeTime)
  <2>3. /\ block \in Seq(BagMessages) /\ bag' = bag \o block /\ taken' = Append(taken, round)
    BY <2>2 DEF KeyframeStep, Part
  <2>4. round \in [written : SUBSET Topics, time : Nat, receive : Int]
    <3>1. KeyframeTopics(n) \subseteq Topics
      BY DEF KeyframeTopics, Topics, AuditedTopics, TimedTopics, StampedTopics, RawTopics
    <3>2. KeyframeTime \in Nat /\ KeyframeTime \in Int
      BY TimeTyped
    <3> QED
      BY <3>1, <3>2, RoundTyped
  <2>5. GoodRound(bag, block, round) /\ producer = "synthetic"
    BY <2>1, <2>2, GoodKeyframe DEF GenerateKeyframe
  <2>6. Distinct(bag) /\ BoundariesApart(bag) /\ DepthSourced(bag, taken)
    BY <2>5 DEF ProducedInv, Recorded
  <2> HIDE DEF round
  <2>7. Distinct(bag') /\ BoundariesApart(bag') /\ DepthSourced(bag', taken')
    BY <2>3, <2>4, <2>5, <2>6, RoundAdded
  <2> QED
    BY <2>7, ProducedStep
<1>5. CASE CloseSynthetic
  BY <1>5, ProducedKept DEF CloseSynthetic, sourceVars
<1>6. CASE \E keyframe \in KeyframeIds \cup {NoId}, obs \in Ids, sourced \in BOOLEAN,
             time \in BoundaryTimes : ScheduleBoundary(keyframe, obs, sourced, time)
  BY <1>6 DEF ScheduleBoundary, ProducedInv, Recorded
<1>7. CASE CloseScheduler
  BY <1>7, ProducedKept DEF CloseScheduler, sourceVars
<1>8. CASE AuditMessage \/ AuditBag
  BY <1>8, ProducedKept DEF AuditMessage, AuditBag, sourceVars
<1>9. CASE OpenBag
  BY <1>9, ProducedKept DEF OpenBag, sourceVars
<1>10. CASE UNCHANGED recordingVars
  BY <1>10, ProducedKept DEF recordingVars, sourceVars
<1> QED
  BY <1>1, <1>2, <1>3, <1>4, <1>5, <1>6, <1>7, <1>8, <1>9, <1>10
     DEF RecordingNext, ReadMessage, FinishReplay

-----------------------------------------------------------------------------
(***************************************************************************)
(* The replay of a bag: what was read so far is what was handed over.      *)
(***************************************************************************)
\* The n-th thing the event source sees.
Seen(n) == Event(bag[order[n]])

\* The history is the part of the bag that was read, without what was skipped.
Handed ==
  /\ \A h \in 1 .. Len(history) : \E n \in 1 .. report.seen : history[h] = Seen(n)
  /\ \A n \in 1 .. report.seen : Seen(n).kind \notin SkippedKinds =>
       \E h \in 1 .. Len(history) : history[h] = Seen(n)

ReadInv ==
  /\ phase # "replay" => pc = "open" /\ report.seen = 0 /\ Len(history) = 0
  /\ phase = "replay" =>
       /\ ReadsAll(order) /\ report.seen <= Len(bag)
       /\ Handed
       /\ status = "completed" => report.seen = Len(bag)
       /\ Recorded => CleanRecords(history)

LEMMA SeenFacts ==
  ASSUME BagTyped, WordInv, ReadsAll(order), NEW n \in 1 .. Len(bag)
  PROVE  /\ order[n] \in 1 .. Len(bag) /\ bag[order[n]] \in BagMessages
         /\ EventFacts(bag[order[n]], Seen(n)) /\ Seen(n) \in AnyMessages
<1>1. order[n] \in 1 .. Len(bag)
  BY DEF ReadsAll
<1>2. bag[order[n]] \in BagMessages
  BY <1>1, BagDomain
<1>3. Worded(bag[order[n]])
  BY <1>1 DEF WordInv, AllWorded
<1>4. EventFacts(bag[order[n]], Event(bag[order[n]]))
  BY <1>2, <1>3, EventShape
<1> QED
  BY <1>1, <1>2, <1>4 DEF Seen, EventFacts

\* A step of the recording is one of the ingress, or none.
LEMMA RecordingIsIngress ==
  ASSUME BagTyped, WordInv, IInv, ReadInv, [RecordingNext]_<<recordingVars, vars>>
  PROVE  [IngressStep]_vars
<1>1. CASE ReadMessage
  <2>1. report.seen \in Nat /\ Len(bag) \in Nat
    BY BagDomain DEF IInv, TypeOK
  <2>2. report.seen + 1 \in 1 .. Len(bag) /\ ReadsAll(order)
    BY <1>1, <2>1 DEF ReadMessage, ReadInv
  <2>3. Seen(report.seen + 1) \in AnyMessages /\ bag[order[report.seen + 1]].log \in Nat
    BY <2>2, SeenFacts DEF BagMessages
  <2> QED
    BY <1>1, <2>3 DEF ReadMessage, Seen, IngressStep
<1>2. CASE FinishReplay
  BY <1>2 DEF FinishReplay, IngressStep
<1>3. CASE OpenBag
  BY <1>3 DEF OpenBag, IngressStep
<1>4. CASE UNCHANGED vars
  BY <1>4
<1>5. CASE \E sensors \in TickSets : RecordTick(sensors)
  BY <1>5 DEF RecordTick
<1>6. CASE \E inRange \in SUBSET Targets : GenerateKeyframe(inRange)
  BY <1>6 DEF GenerateKeyframe
<1>7. CASE \E keyframe \in KeyframeIds \cup {NoId}, obs \in Ids, sourced \in BOOLEAN,
             time \in BoundaryTimes : ScheduleBoundary(keyframe, obs, sourced, time)
  BY <1>7 DEF ScheduleBoundary
<1>8. CASE EndSession \/ WritePrelude \/ CloseSynthetic \/ CloseScheduler \/ AuditMessage \/ AuditBag
  BY <1>8 DEF EndSession, WritePrelude, CloseSynthetic, CloseScheduler, AuditMessage, AuditBag
<1> QED
  BY <1>1, <1>2, <1>3, <1>4, <1>5, <1>6, <1>7, <1>8 DEF RecordingNext

\* The next record of a recorded bag fits those before it.
LEMMA NextIsClean ==
  ASSUME BagTyped, WordInv, ReadsAll(order), Handed, report.seen \in Nat,
         NEW n \in 1 .. Len(bag), n = report.seen + 1,
         Distinct(bag), BoundariesApart(bag)
  PROVE  CleanAfter(history, Seen(n))
<1> DEFINE m == bag[order[n]]
           e == Seen(n)
<1>1. order[n] \in 1 .. Len(bag) /\ m \in BagMessages /\ EventFacts(m, e)
  BY SeenFacts
<1>2. ASSUME NEW h \in 1 .. Len(history)
      PROVE  \E i \in 1 .. Len(bag) :
               /\ EventFacts(bag[i], history[h]) /\ Sooner(i, order[n]) /\ i # order[n]
  <2>1. PICK k \in 1 .. report.seen : history[h] = Seen(k)
    BY DEF Handed
  <2>2. k \in 1 .. Len(bag) /\ k < n
    BY <2>1, BagDomain
  <2>3. order[k] \in 1 .. Len(bag) /\ EventFacts(bag[order[k]], Seen(k))
    BY <2>2, SeenFacts
  <2>4. Sooner(order[k], order[n])
    BY <2>2 DEF ReadsAll
  <2>5. order[k] # order[n]
    BY <1>1, <2>3, <2>4, SoonerOrders
  <2> QED
    BY <2>1, <2>3, <2>4, <2>5
<1> HIDE DEF e
<1>3. ASSUME CarriesIdentity(e)
      PROVE  /\ e.obs # NoId
             /\ AllowsDuplicate(e.kind)
                  \/ \A h \in 1 .. Len(history) :
                       CarriesIdentity(history[h]) => Identity(history[h]) # Identity(e)
  <2>1. m.topic \in StampedTopics /\ e.sensor = SensorOf(m.topic) /\ e.obs = m.id
    BY <1>1, <1>3 DEF EventFacts
  <2>2. m.id # NoId
    BY <1>1, <2>1 DEF Distinct
  <2>3. ASSUME NEW h \in 1 .. Len(history), ~AllowsDuplicate(e.kind),
               CarriesIdentity(history[h]), Identity(history[h]) = Identity(e)
        PROVE  FALSE
    <3>1. PICK i \in 1 .. Len(bag) : EventFacts(bag[i], history[h]) /\ i # order[n]
      BY <1>2
    <3>2. /\ bag[i].topic \in StampedTopics
          /\ history[h].sensor = SensorOf(bag[i].topic) /\ history[h].obs = bag[i].id
      BY <2>3, <3>1 DEF EventFacts
    <3>3. SensorOf(bag[i].topic) = SensorOf(m.topic) /\ bag[i].id = m.id
      BY <2>1, <2>3, <3>2 DEF Identity
    <3>4. bag[i].topic = m.topic
      BY <2>1, <3>2, <3>3, SensorsKnown
    <3>5. m.topic # "sonar"
      BY <1>1, <2>3 DEF EventFacts
    <3> QED
      BY <1>1, <2>1, <3>1, <3>3, <3>4, <3>5 DEF Distinct
  <2> QED
    BY <2>1, <2>2, <2>3
<1>4. ASSUME e.kind = "boundary"
      PROVE  /\ e.keyframe # NoId
             /\ \A h \in 1 .. Len(history) : history[h].kind = "boundary" =>
                  history[h].keyframe # e.keyframe /\ Nanos(history[h].time) < Nanos(e.time)
  <2>1. m.topic = "boundary" /\ e.keyframe = m.keyframe /\ Nanos(e.time) = m.capture
    BY <1>1, <1>4 DEF EventFacts
  <2>2. m.keyframe # NoId /\ m.capture = m.log
    BY <1>1, <2>1 DEF BoundariesApart
  <2>3. ASSUME NEW h \in 1 .. Len(history), history[h].kind = "boundary"
        PROVE  history[h].keyframe # e.keyframe /\ Nanos(history[h].time) < Nanos(e.time)
    <3>1. PICK i \in 1 .. Len(bag) :
            EventFacts(bag[i], history[h]) /\ Sooner(i, order[n]) /\ i # order[n]
      BY <1>2
    <3>2. /\ bag[i].topic = "boundary" /\ history[h].keyframe = bag[i].keyframe
          /\ Nanos(history[h].time) = bag[i].capture
      BY <2>3, <3>1 DEF EventFacts
    <3>3. bag[i].capture = bag[i].log /\ bag[i].keyframe # m.keyframe /\ bag[i].log # m.log
      BY <1>1, <2>1, <3>1, <3>2 DEF BoundariesApart
    <3>4. bag[i].log < m.log
      BY <3>1, <3>3 DEF Sooner
    <3> QED
      BY <2>1, <2>2, <3>2, <3>3, <3>4
  <2> QED
    BY <2>1, <2>2, <2>3
<1>5. CleanAfter(history, e)
  BY <1>3, <1>4 DEF CleanAfter
<1> QED
  BY <1>5 DEF e

LEMMA ReadInit == RecordingInit => ReadInv
<1> SUFFICES ASSUME RecordingInit PROVE ReadInv
  OBVIOUS
<1>1. phase = "recording" /\ pc = "open" /\ report.seen = 0 /\ history = <<>>
  BY DEF RecordingInit, Init
<1> QED
  BY <1>1 DEF ReadInv

LEMMA ReadsKept ==
  ASSUME ReadsAll(order), bag' = bag, order' = order
  PROVE  ReadsAll(order)'
<1>1. \A i, j : Sooner(i, j)' <=> Sooner(i, j)
  BY DEF Sooner
<1> QED
  BY <1>1 DEF ReadsAll

\* Nothing but the status moves.
LEMMA ReadKept ==
  ASSUME ReadInv, phase = "replay", UNCHANGED recordingVars, UNCHANGED <<report, history>>,
         status' = "completed" => status = "completed" \/ report.seen = Len(bag)
  PROVE  ReadInv'
<1>1. UNCHANGED <<producer, phase, bag, order>>
  BY DEF recordingVars
<1>2. ReadsAll(order)' /\ Handed' /\ (report.seen <= Len(bag))'
  <2>1. ReadsAll(order) /\ Handed /\ report.seen <= Len(bag)
    BY DEF ReadInv
  <2>2. ReadsAll(order)'
    BY <1>1, <2>1, ReadsKept
  <2>3. Handed'
    BY <1>1, <2>1 DEF Handed, Seen
  <2> QED
    BY <1>1, <2>1, <2>2, <2>3
<1>3. (status = "completed" => report.seen = Len(bag))' /\ (Recorded => CleanRecords(history))'
  BY <1>1 DEF ReadInv, Recorded
<1> QED
  BY <1>1, <1>2, <1>3 DEF ReadInv

\* One more message of the bag.
LEMMA ReadOne ==
  ASSUME BagTyped, WordInv, ProducedInv, IInv, ReadInv, ReadMessage
  PROVE  ReadInv'
<1> DEFINE n == report.seen + 1
           e == Seen(n)
           log == bag[order[n]].log
<1>1. /\ phase = "replay" /\ ReadsAll(order) /\ Handed
      /\ report.seen \in Nat /\ Len(bag) \in Nat /\ n \in 1 .. Len(bag)
      /\ report'.seen = report.seen + 1
      /\ Skip(e) \/ Emit(e, log)
  <2>1. report.seen \in Nat /\ Len(bag) \in Nat /\ report.seen < Len(bag) /\ phase = "replay"
    BY BagDomain DEF IInv, TypeOK, ReadMessage
  <2>2. Skip(e) \/ Emit(e, log)
    BY DEF ReadMessage, Seen
  <2>3. report \in [seen : Nat, emitted : Nat, unknown : Nat, unparsed : Nat]
    BY DEF IInv, TypeOK
  <2>4. report'.seen = report.seen + 1
    BY <2>2, <2>3 DEF Skip, Emit
  <2> QED
    BY <2>1, <2>2, <2>4 DEF ReadInv
<1>2. UNCHANGED <<producer, phase, bag, order>>
  BY DEF ReadMessage, recordingVars
<1> HIDE DEF log
<1>3. e \in AnyMessages
  BY <1>1, SeenFacts
<1>4. history \in Seq(AnyMessages)
  BY DEF IInv, TypeOK, AnyMessages
<1>5. status # "completed" /\ status' # "completed"
  <2>1. pc = "read"
    BY <1>1 DEF Skip, Emit
  <2>2. status = "open_failed"
    BY <2>1 DEF IInv, StageInv, Reading
  <2> QED
    BY <1>1, <2>2 DEF Skip, Emit
<1>6. \A k : Seen(k)' = Seen(k)
  BY <1>2 DEF Seen
<1>7. ReadsAll(order)' /\ (report.seen <= Len(bag))'
  <2>1. ReadsAll(order)'
    BY <1>1, <1>2, ReadsKept
  <2>2. report'.seen <= Len(bag)
    BY <1>1
  <2> QED
    BY <1>2, <2>1, <2>2
<1>8. \A k : k \in 1 .. report'.seen <=> k \in 1 .. report.seen \/ k = n
  BY <1>1
<1>9. CASE Skip(e)
  <2>1. history' = history /\ e.kind \in SkippedKinds
    BY <1>9 DEF Skip
  <2>2. Handed'
    BY <1>1, <1>6, <1>8, <2>1 DEF Handed
  <2>3. (Recorded => CleanRecords(history))'
    BY <1>1, <1>2, <2>1 DEF ReadInv, Recorded
  <2> QED
    BY <1>2, <1>5, <1>7, <2>2, <2>3, <1>1 DEF ReadInv
<1>10. CASE Emit(e, log)
  <2>1. history' = Append(history, e)
    BY <1>10 DEF Emit
  <2>2. /\ Len(history') = Len(history) + 1 /\ Len(history) \in Nat
        /\ \A h \in 1 .. Len(history) : history'[h] = history[h]
        /\ history'[Len(history) + 1] = e
    BY <1>3, <1>4, <2>1, Appended
  <2>3. \A h : h \in 1 .. Len(history') <=> h \in 1 .. Len(history) \/ h = Len(history) + 1
    BY <2>2
  <2>4. Handed'
    <3>1. \A h \in 1 .. Len(history') : \E k \in 1 .. report'.seen : history'[h] = Seen(k)
      BY <1>1, <1>8, <2>2, <2>3 DEF Handed
    <3>2. \A k \in 1 .. report'.seen : Seen(k).kind \notin SkippedKinds =>
            \E h \in 1 .. Len(history') : history'[h] = Seen(k)
      BY <1>1, <1>8, <2>2, <2>3 DEF Handed
    <3> QED
      BY <1>6, <3>1, <3>2 DEF Handed
  <2>5. ASSUME Recorded PROVE CleanRecords(history')
    <3>1. CleanAfter(history, e)
      BY <1>1, <2>5, NextIsClean DEF ProducedInv
    <3>2. CleanRecords(history)
      BY <1>1, <2>5 DEF ReadInv
    <3> QED
      BY <1>3, <1>4, <2>1, <3>1, <3>2, CleanAppend
  <2>6. (Recorded => CleanRecords(history))'
    BY <1>2, <2>5 DEF Recorded
  <2> QED
    BY <1>1, <1>2, <1>5, <1>7, <2>4, <2>6 DEF ReadInv
<1> QED
  BY <1>1, <1>9, <1>10

LEMMA ReadNext ==
  ASSUME BagTyped, WordInv, ProducedInv, IInv, ReadInv, [RecordingNext]_<<recordingVars, vars>>
  PROVE  ReadInv'
<1>1. CASE ReadMessage
  BY <1>1, ReadOne
<1>2. CASE FinishReplay
  <2>1. /\ phase = "replay" /\ UNCHANGED recordingVars /\ UNCHANGED <<report, history>>
        /\ status' = "completed" => status = "completed" \/ report.seen = Len(bag)
    BY <1>2 DEF FinishReplay, EndOfBag, Pump, Gate, Done, vars
  <2> QED
    BY <2>1, ReadKept
<1>3. CASE OpenBag
  <2>1. /\ pc = "open" /\ report' = report /\ history' = history /\ status' = status
        /\ order' = LogTimeOrder /\ bag' = bag /\ phase = "audited" /\ phase' = "replay"
    BY <1>3 DEF OpenBag, Open
  <2>2. status' # "completed"
    BY <2>1 DEF IInv, StageInv, Reading
  <2>3. report'.seen = 0 /\ Len(history') = 0 /\ Len(bag') \in Nat
    BY <2>1, BagDomain DEF ReadInv
  <2>4. 1 .. report'.seen = {} /\ 1 .. Len(history') = {}
    BY <2>3
  <2>5. ReadsAll(order')
    BY <2>1, OrderReadsAll
  <2>6. ReadsAll(order)'
    BY <2>1, <2>5 DEF ReadsAll, Sooner
  <2>7. Handed' /\ CleanRecords(history')
    BY <2>4 DEF Handed, CleanRecords
  <2> QED
    BY <2>1, <2>2, <2>3, <2>6, <2>7 DEF ReadInv
<1>4. CASE UNCHANGED <<recordingVars, vars>>
  <2>1. UNCHANGED <<recordingVars, phase, pc, status, report, history>>
    BY <1>4 DEF recordingVars, vars
  <2>2. CASE phase = "replay"
    BY <2>1, <2>2, ReadKept
  <2>3. CASE phase # "replay"
    BY <2>1, <2>3 DEF ReadInv
  <2> QED
    BY <2>2, <2>3
<1>5. ASSUME phase # "replay", phase' # "replay", UNCHANGED vars PROVE ReadInv'
  <2>1. UNCHANGED <<pc, report, history>>
    BY <1>5 DEF vars
  <2> QED
    BY <1>5, <2>1 DEF ReadInv
<1>6. CASE \E sensors \in TickSets : RecordTick(sensors)
  BY <1>5, <1>6 DEF RecordTick
<1>7. CASE \E inRange \in SUBSET Targets : GenerateKeyframe(inRange)
  BY <1>5, <1>7 DEF GenerateKeyframe
<1>8. CASE \E keyframe \in KeyframeIds \cup {NoId}, obs \in Ids, sourced \in BOOLEAN,
             time \in BoundaryTimes : ScheduleBoundary(keyframe, obs, sourced, time)
  BY <1>5, <1>8 DEF ScheduleBoundary
<1>9. CASE EndSession \/ WritePrelude \/ CloseSynthetic \/ CloseScheduler \/ AuditMessage \/ AuditBag
  BY <1>5, <1>9 DEF EndSession, WritePrelude, CloseSynthetic, CloseScheduler, AuditMessage, AuditBag
<1> QED
  BY <1>1, <1>2, <1>3, <1>4, <1>6, <1>7, <1>8, <1>9 DEF RecordingNext

-----------------------------------------------------------------------------
\* Once the whole bag was read, an id was observed when the bag holds it.
LEMMA ObservedIsHeard ==
  ASSUME BagTyped, WordInv, ReadsAll(order), Handed, report.seen = Len(bag), NEW id
  PROVE  Observed(history, id) <=> Heard(bag, id)
<1>1. ASSUME Observed(history, id) PROVE Heard(bag, id)
  <2>1. PICK h \in 1 .. Len(history) : CarriesIdentity(history[h]) /\ history[h].obs = id
    BY <1>1 DEF Observed
  <2>2. PICK n \in 1 .. Len(bag) : history[h] = Seen(n)
    BY <2>1 DEF Handed
  <2>3. order[n] \in 1 .. Len(bag) /\ EventFacts(bag[order[n]], history[h])
    BY <2>2, SeenFacts
  <2> QED
    BY <2>1, <2>3 DEF EventFacts, Heard
<1>2. ASSUME Heard(bag, id) PROVE Observed(history, id)
  <2>1. PICK i \in 1 .. Len(bag) : bag[i].topic \in StampedTopics /\ bag[i].id = id
    BY <1>2 DEF Heard
  <2>2. PICK n \in 1 .. Len(bag) : order[n] = i
    BY <2>1 DEF ReadsAll
  <2>3. EventFacts(bag[i], Seen(n))
    BY <2>2, SeenFacts
  <2>4. bag[i].topic # "targets"
    BY <2>1 DEF StampedTopics, RawTopics
  <2>5. Seen(n).kind \notin SkippedKinds
    BY <2>3, <2>4 DEF EventFacts
  <2>6. PICK h \in 1 .. Len(history) : history[h] = Seen(n)
    BY <2>5 DEF Handed
  <2>7. CarriesIdentity(history[h]) /\ history[h].obs = id
    BY <2>1, <2>3, <2>6 DEF EventFacts
  <2> QED
    BY <2>7 DEF Observed
<1> QED
  BY <1>1, <1>2

LEMMA OrphansDecide ==
  ASSUME BagTyped, WordInv, ReadsAll(order), Handed, report.seen = Len(bag),
         DepthSourced(bag, taken)
  PROVE  SourcesObserved(history) <=> \A r \in DOMAIN taken : ~Orphan(r)
<1>0. DOMAIN taken = 1 .. Len(taken)
  BY LenProperties DEF BagTyped
<1>1. ASSUME SourcesObserved(history), NEW r \in DOMAIN taken, Orphan(r) PROVE FALSE
  <2>1. PICK i \in 1 .. Len(bag) : bag[i].topic = "depth" /\ Sourced(bag, bag[i].id, taken[r])
    BY <1>0, <1>1 DEF Orphan, DepthSourced
  <2>2. ~Heard(bag, bag[i].id)
    BY <1>1, <2>1 DEF Orphan, Sourced
  <2>3. PICK n \in 1 .. Len(bag) : order[n] = i
    BY <2>1 DEF ReadsAll
  <2>4. EventFacts(bag[i], Seen(n))
    BY <2>3, SeenFacts
  <2>5. Seen(n).kind \notin SkippedKinds /\ Seen(n).kind = "evidence" /\ Seen(n).sources = <<bag[i].id>>
    BY <2>1, <2>4 DEF EventFacts
  <2>6. PICK h \in 1 .. Len(history) : history[h] = Seen(n)
    BY <2>5 DEF Handed
  <2>7. 1 \in DOMAIN <<bag[i].id>> /\ <<bag[i].id>>[1] = bag[i].id
    OBVIOUS
  <2>8. Observed(history, bag[i].id)
    BY <1>1, <2>5, <2>6, <2>7 DEF SourcesObserved
  <2> QED
    BY <2>2, <2>8, ObservedIsHeard
<1>2. ASSUME \A r \in DOMAIN taken : ~Orphan(r),
             NEW h \in 1 .. Len(history), history[h].kind = "evidence",
             NEW k \in DOMAIN history[h].sources
      PROVE  Observed(history, history[h].sources[k])
  <2>1. PICK n \in 1 .. Len(bag) : history[h] = Seen(n)
    BY DEF Handed
  <2> DEFINE i == order[n]
  <2>2. i \in 1 .. Len(bag) /\ EventFacts(bag[i], history[h])
    BY <2>1, SeenFacts
  <2> HIDE DEF i
  <2>3. bag[i].topic = "depth" /\ history[h].sources = <<bag[i].id>>
    <3>1. bag[i].topic \in {"depth", "relpose"}
      BY <1>2, <2>2 DEF EventFacts
    <3>2. ASSUME bag[i].topic = "relpose" PROVE FALSE
      <4>1. history[h].sources = <<>>
        BY <2>2, <3>2 DEF EventFacts
      <4> QED
        BY <1>2, <4>1
    <3> QED
      BY <2>2, <3>1, <3>2 DEF EventFacts
  <2>4. history[h].sources[k] = bag[i].id
    <3>1. k = 1
      BY <1>2, <2>3
    <3> QED
      BY <2>3, <3>1
  <2>5. PICK r \in 1 .. Len(taken) :
          "depth" \in taken[r].written /\ Sourced(bag, bag[i].id, taken[r])
    BY <2>2, <2>3 DEF DepthSourced
  <2>6. Heard(bag, bag[i].id)
    BY <1>0, <1>2, <2>5 DEF Orphan, Sourced
  <2> QED
    BY <2>4, <2>6, ObservedIsHeard
<1> QED
  BY <1>1, <1>2 DEF SourcesObserved

LEMMA OrphansEnough ==
  BagTyped /\ WordInv /\ ProducedInv /\ IInv /\ GateInv /\ ReadInv => GateRefusesOrphansOnly
<1> SUFFICES ASSUME BagTyped, WordInv, ProducedInv, IInv, GateInv, ReadInv,
                    Recorded, status = "completed", verdict # "pending"
             PROVE  verdict = "accepted" <=> \A r \in DOMAIN taken : ~Orphan(r)
  BY DEF GateRefusesOrphansOnly
<1>1. pc = "exit"
  BY DEF IInv, StageInv
<1>2. phase = "replay"
  BY <1>1 DEF ReadInv
<1>3. ReadsAll(order) /\ Handed /\ report.seen = Len(bag) /\ CleanRecords(history)
  BY <1>2 DEF ReadInv
<1>4. verdict = "accepted" <=> SourcesObserved(history)
  BY <1>3, GateEnough DEF GateExact
<1>5. DepthSourced(bag, taken)
  BY DEF ProducedInv
<1> QED
  BY <1>3, <1>4, <1>5, OrphansDecide

\* All there is to know of a recording and its replay.
RecordingInv ==
  /\ BagTyped /\ PairsInv /\ WordInv /\ RunInv /\ ProducedInv
  /\ IInv /\ GateInv /\ ReadInv

LEMMA RecordingInvariance == RecordingSpec => []RecordingInv
<1>1. RecordingInit => RecordingInv
  <2>1. RecordingInit => Init
    BY DEF RecordingInit
  <2> QED
    BY <2>1, TypedInit, PairsInit, WordInit, RunInit, ProducedInit, InitInvariant, GateStart,
       ReadInit DEF RecordingInv
<1>2. RecordingInv /\ [RecordingNext]_<<recordingVars, vars>> => RecordingInv'
  <2> SUFFICES ASSUME RecordingInv, [RecordingNext]_<<recordingVars, vars>> PROVE RecordingInv'
    OBVIOUS
  <2>1. BagTyped' /\ PairsInv' /\ WordInv' /\ RunInv'
    BY TypedNext, PairsNext, WordNext, RunNext DEF RecordingInv
  <2>2. ProducedInv' /\ ReadInv'
    BY ProducedNext, ReadNext DEF RecordingInv
  <2>3. [IngressStep]_vars
    BY RecordingIsIngress DEF RecordingInv
  <2>4. IInv' /\ GateInv'
    BY <2>3, StepInvariant, GateStep DEF RecordingInv
  <2> QED
    BY <2>1, <2>2, <2>4 DEF RecordingInv
<1> QED
  BY <1>1, <1>2, PTL DEF RecordingSpec

\* How the evidence ev and its times stand to the messages read: f names the
\* message each was read from.
Dated(f, ev, times, n, b, list) ==
  /\ f \in [1 .. Len(ev) -> 1 .. n]
  /\ Len(times) = Len(ev)
  /\ \A i, j \in 1 .. Len(ev) : i < j => f[i] < f[j] /\ times[i] <= times[j]
  /\ \A i \in 1 .. Len(ev) :
       ev[i] = Event(b[list[f[i]]]) /\ times[i] = b[list[f[i]]].log
  /\ \A k \in 1 .. n :
       b[list[k]].topic \in {"depth", "relpose"} => \E i \in 1 .. Len(ev) : f[i] = k

\* Before the replay there is no evidence.
TimesInv ==
  /\ \E f : Dated(f, evidence, logTimes, report.seen, bag, order)
  /\ phase # "replay" => Len(evidence) = 0 /\ Len(logTimes) = 0

LEMMA NothingDated ==
  ASSUME NEW ev, NEW times, NEW b, NEW list, Len(ev) = 0, Len(times) = 0
  PROVE  \E f : Dated(f, ev, times, 0, b, list)
<1> DEFINE f == [i \in {} |-> 0]
<1>1. 1 .. Len(ev) = {} /\ 1 .. 0 = {}
  OBVIOUS
<1>2. f \in [{} -> {}]
  OBVIOUS
<1> HIDE DEF f
<1>3. Dated(f, ev, times, 0, b, list)
  BY <1>1, <1>2 DEF Dated
<1> QED
  BY <1>3

\* A message that is no evidence was read.
LEMMA OtherDated ==
  ASSUME NEW f, NEW ev, NEW times, NEW n \in Nat, NEW b, NEW list, Len(ev) \in Nat,
         Dated(f, ev, times, n, b, list), b[list[n + 1]].topic \notin {"depth", "relpose"}
  PROVE  Dated(f, ev, times, n + 1, b, list)
<1>1. \A k : k \in 1 .. n + 1 <=> k \in 1 .. n \/ k = n + 1
  OBVIOUS
<1>2. f \in [1 .. Len(ev) -> 1 .. n + 1]
  BY <1>1 DEF Dated
<1> QED
  BY <1>1, <1>2 DEF Dated

\* Evidence was read: it is the last, and no time before is later.
LEMMA EvidenceDated ==
  ASSUME NEW S, NEW ev \in Seq(S), NEW times \in Seq(Nat), NEW e \in S, NEW log \in Nat,
         NEW f, NEW n \in Nat, NEW b, NEW list,
         Dated(f, ev, times, n, b, list), e = Event(b[list[n + 1]]), log = b[list[n + 1]].log,
         \A k \in 1 .. n : b[list[k]].log <= log
  PROVE  \E g : Dated(g, Append(ev, e), Append(times, log), n + 1, b, list)
<1> DEFINE m == Len(ev)
           g == [i \in 1 .. m + 1 |-> IF i = m + 1 THEN n + 1 ELSE f[i]]
           es == Append(ev, e)
           ts == Append(times, log)
<1>1. /\ m \in Nat /\ Len(es) = m + 1 /\ es[m + 1] = e /\ \A i \in 1 .. m : es[i] = ev[i]
      /\ Len(times) = m /\ Len(ts) = m + 1 /\ ts[m + 1] = log /\ \A i \in 1 .. m : ts[i] = times[i]
  <2>1. Len(times) = Len(ev)
    BY DEF Dated
  <2> QED
    BY <2>1, Appended
<1>2. /\ g[m + 1] = n + 1 /\ \A i \in 1 .. m : g[i] = f[i] /\ f[i] \in 1 .. n
      /\ g \in [1 .. m + 1 -> 1 .. n + 1]
  <2>1. \A i \in 1 .. m : f[i] \in 1 .. n
    BY DEF Dated
  <2>2. \A k \in 1 .. n : k \in 1 .. n + 1
    OBVIOUS
  <2>3. \A i \in 1 .. m + 1 : i # m + 1 => i \in 1 .. m
    BY <1>1
  <2>4. \A i \in 1 .. m : i \in 1 .. m + 1 /\ i # m + 1
    BY <1>1
  <2>5. m + 1 \in 1 .. m + 1 /\ n + 1 \in 1 .. n + 1
    BY <1>1
  <2> QED
    BY <2>1, <2>2, <2>3, <2>4, <2>5
<1>3. \A i : i \in 1 .. m + 1 <=> i \in 1 .. m \/ i = m + 1
  BY <1>1
<1> HIDE DEF g, es, ts, m
<1>4. \A i \in 1 .. m : ev[i] = Event(b[list[f[i]]]) /\ times[i] = b[list[f[i]]].log
  BY DEF Dated, m
<1>5. \A i, j \in 1 .. m + 1 : i < j => g[i] < g[j] /\ ts[i] <= ts[j]
  <2> SUFFICES ASSUME NEW i \in 1 .. m + 1, NEW j \in 1 .. m + 1, i < j
               PROVE  g[i] < g[j] /\ ts[i] <= ts[j]
    OBVIOUS
  <2>1. i \in 1 .. m
    BY <1>1
  <2>2. CASE j \in 1 .. m
    <3>1. f[i] < f[j] /\ times[i] <= times[j]
      BY <2>1, <2>2 DEF Dated, m
    <3> QED
      BY <1>1, <1>2, <2>1, <2>2, <3>1
  <2>3. CASE j = m + 1
    <3>1. f[i] \in 1 .. n /\ times[i] <= log
      BY <1>2, <1>4, <2>1
    <3>2. f[i] < n + 1
      BY <3>1
    <3> QED
      BY <1>1, <1>2, <2>1, <2>3, <3>1, <3>2
  <2> QED
    BY <1>3, <2>2, <2>3
<1>6. \A i \in 1 .. m + 1 : es[i] = Event(b[list[g[i]]]) /\ ts[i] = b[list[g[i]]].log
  BY <1>1, <1>2, <1>3, <1>4
<1>7. ASSUME NEW k \in 1 .. n + 1, b[list[k]].topic \in {"depth", "relpose"}
      PROVE  \E i \in 1 .. m + 1 : g[i] = k
  <2>1. CASE k = n + 1
    BY <1>2, <1>3, <2>1
  <2>2. CASE k \in 1 .. n
    <3>1. PICK i \in 1 .. m : f[i] = k
      BY <1>7, <2>2 DEF Dated, m
    <3> QED
      BY <1>2, <1>3, <3>1
  <2> QED
    BY <2>1, <2>2
<1>8. Dated(g, es, ts, n + 1, b, list)
  BY <1>1, <1>2, <1>5, <1>6, <1>7 DEF Dated
<1> QED
  BY <1>8 DEF es, ts

\* The reader hands over no message before one that was logged earlier.
LEMMA TimesOrdered ==
  ASSUME BagTyped, ReadsAll(order), NEW n \in Nat, n + 1 \in 1 .. Len(bag)
  PROVE  \A k \in 1 .. n : bag[order[k]].log <= bag[order[n + 1]].log
<1> SUFFICES ASSUME NEW k \in 1 .. n PROVE bag[order[k]].log <= bag[order[n + 1]].log
  OBVIOUS
<1>1. k \in 1 .. Len(bag) /\ k < n + 1
  BY BagDomain
<1>2. Sooner(order[k], order[n + 1])
  BY <1>1 DEF ReadsAll
<1>3. order[k] \in 1 .. Len(bag) /\ order[n + 1] \in 1 .. Len(bag)
  BY <1>1 DEF ReadsAll
<1>4. bag[order[k]].log \in Nat /\ bag[order[n + 1]].log \in Nat
  BY <1>3, BagDomain
<1> QED
  BY <1>2, <1>4 DEF Sooner

LEMMA TimesRead ==
  ASSUME RecordingInv, TimesInv, ReadMessage
  PROVE  TimesInv'
<1> DEFINE n == report.seen
           e == Seen(n + 1)
           log == bag[order[n + 1]].log
<1>1. BagTyped /\ WordInv /\ IInv /\ ReadInv
  BY DEF RecordingInv
<1>2. /\ n \in Nat /\ n + 1 \in 1 .. Len(bag) /\ phase = "replay" /\ ReadsAll(order)
      /\ UNCHANGED <<bag, order, phase>>
      /\ Skip(e) \/ Emit(e, log)
      /\ report \in [seen : Nat, emitted : Nat, unknown : Nat, unparsed : Nat]
      /\ evidence \in Seq(EvidenceMessages) /\ logTimes \in Seq(Nat)
  BY <1>1, BagDomain DEF ReadMessage, Seen, recordingVars, IInv, TypeOK, ReadInv
<1>3. EventFacts(bag[order[n + 1]], e) /\ log \in Nat
  BY <1>1, <1>2, SeenFacts DEF BagMessages
<1>4. log = bag[order[n + 1]].log /\ e = Event(bag[order[n + 1]])
  BY DEF Seen
<1> HIDE DEF n, e, log
<1>5. report'.seen = n + 1
  BY <1>2 DEF Skip, Emit, n
<1>6. PICK f : Dated(f, evidence, logTimes, n, bag, order)
  BY DEF TimesInv, n
<1>7. CASE e.kind = "evidence"
  <2>1. evidence' = Append(evidence, e) /\ logTimes' = Append(logTimes, log)
    BY <1>2, <1>7, EvidenceOnly DEF Skip, SkippedKinds
  <2>2. e \in EvidenceMessages
    BY <1>3, <1>7, MessageKinds DEF EventFacts
  <2>3. \A k \in 1 .. n : bag[order[k]].log <= log
    BY <1>1, <1>2, <1>4, TimesOrdered
  <2>4. \E g : Dated(g, Append(evidence, e), Append(logTimes, log), n + 1, bag, order)
    BY <1>2, <1>3, <1>4, <1>6, <2>2, <2>3, EvidenceDated
  <2> QED
    BY <1>2, <1>5, <2>1, <2>4 DEF TimesInv
<1>8. CASE e.kind # "evidence"
  <2>1. evidence' = evidence /\ logTimes' = logTimes
    BY <1>2, <1>8, OthersLeave DEF Skip, dataVars
  <2>2. bag[order[n + 1]].topic \notin {"depth", "relpose"}
    BY <1>3, <1>8 DEF EventFacts
  <2>3. Len(evidence) \in Nat
    BY <1>2
  <2>4. Dated(f, evidence, logTimes, n + 1, bag, order)
    BY <1>2, <1>6, <2>2, <2>3, OtherDated
  <2> QED
    BY <1>2, <1>5, <2>1, <2>4 DEF TimesInv
<1> QED
  BY <1>7, <1>8

LEMMA TimesNext ==
  ASSUME RecordingInv, TimesInv, [RecordingNext]_<<recordingVars, vars>>
  PROVE  TimesInv'
<1>1. CASE ReadMessage
  BY <1>1, TimesRead
<1>2. CASE FinishReplay
  <2>1. UNCHANGED <<evidence, logTimes, report, bag, order, phase>>
    BY <1>2 DEF FinishReplay, EndOfBag, Pump, Gate, Done, vars, dataVars, recordingVars
  <2> QED
    BY <2>1 DEF TimesInv
<1>3. ASSUME phase # "replay", UNCHANGED <<evidence, logTimes, report>> PROVE TimesInv'
  <2>1. report'.seen = 0 /\ Len(evidence') = 0 /\ Len(logTimes') = 0
    BY <1>3 DEF RecordingInv, ReadInv, TimesInv
  <2> QED
    BY <2>1, NothingDated DEF TimesInv
<1>4. CASE OpenBag
  BY <1>3, <1>4 DEF OpenBag, Open, dataVars
<1>5. CASE UNCHANGED <<recordingVars, vars>>
  <2>1. UNCHANGED <<evidence, logTimes, report, bag, order, phase>>
    BY <1>5 DEF vars, dataVars, recordingVars
  <2> QED
    BY <2>1 DEF TimesInv
<1>6. CASE \E sensors \in TickSets : RecordTick(sensors)
  BY <1>3, <1>6 DEF RecordTick, vars, dataVars
<1>7. CASE \E inRange \in SUBSET Targets : GenerateKeyframe(inRange)
  BY <1>3, <1>7 DEF GenerateKeyframe, vars, dataVars
<1>8. CASE \E keyframe \in KeyframeIds \cup {NoId}, obs \in Ids, sourced \in BOOLEAN,
             time \in BoundaryTimes : ScheduleBoundary(keyframe, obs, sourced, time)
  BY <1>3, <1>8 DEF ScheduleBoundary, vars, dataVars
<1>9. CASE EndSession \/ WritePrelude \/ CloseSynthetic \/ CloseScheduler \/ AuditMessage \/ AuditBag
  BY <1>3, <1>9 DEF EndSession, WritePrelude, CloseSynthetic, CloseScheduler, AuditMessage,
     AuditBag, vars, dataVars
<1> QED
  BY <1>1, <1>2, <1>4, <1>5, <1>6, <1>7, <1>8, <1>9 DEF RecordingNext

\* Of every bag the producers can write: the n-th log time is that of the
\* n-th evidence record, in the reader's order, also when several were logged
\* at one time. (replay_input_accumulator.cpp:116)
THEOREM TimesAligned == RecordingSpec => []LogTimesAligned
<1>1. RecordingInit => TimesInv
  <2> SUFFICES ASSUME RecordingInit PROVE TimesInv
    OBVIOUS
  <2>1. Len(evidence) = 0 /\ Len(logTimes) = 0 /\ report.seen = 0
    BY DEF RecordingInit, Init
  <2> QED
    BY <2>1, NothingDated DEF TimesInv
<1>2. RecordingInv /\ TimesInv /\ [RecordingNext]_<<recordingVars, vars>> => TimesInv'
  BY TimesNext
<1>3. TimesInv => LogTimesAligned
  BY DEF TimesInv, Dated, LogTimesAligned
<1> QED
  BY <1>1, <1>2, <1>3, RecordingInvariance, PTL DEF RecordingSpec

\* Of every bag the two producers can write, of any length and with any
\* clock: read in log-time order, the replay accepts it exactly when every
\* depth reading had a sensor publishing in its round.
\* (record_session.py, synth_bag_gen.cpp, ReplayInputAccumulator)
THEOREM OrphansRefused == RecordingSpec => []GateRefusesOrphansOnly
<1>1. RecordingInv => GateRefusesOrphansOnly
  BY OrphansEnough DEF RecordingInv
<1> QED
  BY <1>1, RecordingInvariance, PTL

\* The gate decides exactly also when the bag comes from a producer, that of
\* an external scheduler included. (ReplayInputAccumulator, RunReplayPipeline)
THEOREM RecordedBagsJudged == RecordingSpec => []GateExact
<1>1. RecordingInv => GateExact
  BY GateEnough DEF RecordingInv
<1> QED
  BY <1>1, RecordingInvariance, PTL
-----------------------------------------------------------------------------
(***************************************************************************)
(* bag_audit: what its statistics say of the messages read so far.         *)
(***************************************************************************)
\* The messages of a topic among the first n of b.
Of(b, t, n) == {i \in 1 .. n : b[i].topic = t}

Stats == [count : Nat, captureEver : BOOLEAN, receiveEver : BOOLEAN, mixed : BOOLEAN,
          captureMonotonic : BOOLEAN, receiveMonotonic : BOOLEAN, strictly : BOOLEAN,
          first : Nat, lastCapture : Nat, lastReceive : Int]

\* What statistics s say of the messages P of b: that one is stamped, that one
\* without a stamp stands after a stamped one, and how the times go.
Ever(b, P, s) ==
  /\ s.captureEver <=> \E i \in P : b[i].capture # 0
  /\ s.receiveEver <=> \E i \in P : b[i].receive # 0

Mixes(b, P, s) ==
  s.mixed <=> \E i, j \in P : /\ i < j
                              /\ \/ b[i].capture # 0 /\ b[j].capture = 0
                                 \/ b[i].receive # 0 /\ b[j].receive = 0

Ordered(b, P, s) ==
  /\ s.captureMonotonic <=> \A i, j \in P : i < j => b[i].capture <= b[j].capture
  /\ s.receiveMonotonic <=> \A i, j \in P : i < j => b[i].receive <= b[j].receive
  /\ s.strictly <=> \A i, j \in P : i < j => b[i].capture < b[j].capture

Ends(b, P, s) ==
  P # {} => /\ \E k \in P : (\A i \in P : k <= i) /\ s.first = b[k].capture
            /\ \E k \in P : /\ \A i \in P : i <= k
                            /\ s.lastCapture = b[k].capture /\ s.lastReceive = b[k].receive

Summed(b, P, s) ==
  /\ s \in Stats /\ IsFiniteSet(P) /\ s.count = Cardinality(P)
  /\ Ever(b, P, s) /\ Mixes(b, P, s) /\ Ordered(b, P, s) /\ Ends(b, P, s)

IdStats ==
  [empty : BOOLEAN, unique : BOOLEAN, sourceless : BOOLEAN, ids : SUBSET (MessageIds \cup KeyframeIds)]

\* The same of the ids of the boundaries P.
Listed(b, P, s) ==
  /\ s.empty <=> \E i \in P : b[i].keyframe = NoId
  /\ s.sourceless <=> \E i \in P : ~b[i].sourced
  /\ s.ids = {b[i].keyframe : i \in {k \in P : b[k].keyframe # NoId}}
  /\ s.unique <=> \A i, j \in P : b[i].keyframe # NoId /\ i # j => b[i].keyframe # b[j].keyframe

\* The statistics sum up the messages read so far, and once the audit has
\* reported, its report is about the whole bag.
StatsInv ==
  /\ scanned \in 0 .. Len(bag)
  /\ phase = "recording" =>
       scanned = 0 /\ headers = [t \in TimedTopics |-> NoHeader] /\ ids = NoIds
  /\ \A t \in TimedTopics : Summed(bag, Of(bag, t, scanned), headers[t])
  /\ ids \in IdStats /\ Listed(bag, Of(bag, "boundary", scanned), ids)
  /\ phase \in {"audited", "replay"} => scanned = Len(bag) /\ audit = AuditReport

LEMMA NoHeaderTyped ==
  /\ NoHeader \in Stats /\ NoHeader.count = 0
  /\ ~NoHeader.captureEver /\ ~NoHeader.receiveEver /\ ~NoHeader.mixed
  /\ NoHeader.captureMonotonic /\ NoHeader.receiveMonotonic /\ NoHeader.strictly
BY DEF NoHeader, Stats

\* Before the first message.
LEMMA NothingSummed ==
  ASSUME NEW b
  PROVE  Summed(b, {}, NoHeader) /\ Listed(b, {}, NoIds)
<1>1. IsFiniteSet({}) /\ Cardinality({}) = 0
  BY FS_EmptySet
<1>2. Ever(b, {}, NoHeader) /\ Mixes(b, {}, NoHeader) /\ Ends(b, {}, NoHeader)
  BY NoHeaderTyped DEF Ever, Mixes, Ends
<1>3. Ordered(b, {}, NoHeader)
  BY NoHeaderTyped DEF Ordered
<1>4. NoIds.empty = FALSE /\ NoIds.unique = TRUE /\ NoIds.sourceless = FALSE /\ NoIds.ids = {}
  BY DEF NoIds
<1>5. Listed(b, {}, NoIds)
  BY <1>4 DEF Listed
<1> QED
  BY <1>1, <1>2, <1>3, <1>5, NoHeaderTyped DEF Summed

\* The next message of a bag.
Following(b, P, k) ==
  /\ b \in Seq(BagMessages) /\ k \in 1 .. Len(b) /\ P \subseteq 1 .. k - 1

LEMMA FieldsOfNext ==
  ASSUME NEW s \in Stats, NEW m \in BagMessages
  PROVE  LET r == AccumulateHeader(s, m) IN
         /\ r \in Stats /\ r.count = s.count + 1
         /\ r.mixed <=> s.mixed \/ (m.capture = 0 /\ s.captureEver) \/ (m.receive = 0 /\ s.receiveEver)
         /\ r.captureEver <=> s.captureEver \/ m.capture # 0
         /\ r.receiveEver <=> s.receiveEver \/ m.receive # 0
         /\ r.captureMonotonic <=>
              s.captureMonotonic /\ (s.count > 0 => m.capture >= s.lastCapture)
         /\ r.receiveMonotonic <=>
              s.receiveMonotonic /\ (s.count > 0 => m.receive >= s.lastReceive)
         /\ r.strictly <=> s.strictly /\ (s.count > 0 => m.capture > s.lastCapture)
         /\ r.first = IF s.count > 0 THEN s.first ELSE m.capture
         /\ r.lastCapture = m.capture /\ r.lastReceive = m.receive
<1> DEFINE r == AccumulateHeader(s, m)
<1>1. /\ s.count \in Nat /\ s.mixed \in BOOLEAN /\ s.captureEver \in BOOLEAN
      /\ s.receiveEver \in BOOLEAN /\ s.captureMonotonic \in BOOLEAN
      /\ s.receiveMonotonic \in BOOLEAN /\ s.strictly \in BOOLEAN /\ s.first \in Nat
      /\ m.capture \in Nat /\ m.receive \in Int
  BY DEF Stats, BagMessages
<1>2. r.count = s.count + 1
  BY DEF AccumulateHeader
<1>3. r.mixed = (s.mixed \/ (m.capture = 0 /\ s.captureEver) \/ (m.receive = 0 /\ s.receiveEver))
  BY DEF AccumulateHeader
<1>4. r.captureEver = (s.captureEver \/ m.capture # 0)
  BY DEF AccumulateHeader
<1>5. r.receiveEver = (s.receiveEver \/ m.receive # 0)
  BY DEF AccumulateHeader
<1>6. r.captureMonotonic =
        (s.captureMonotonic /\ (s.count > 0 => m.capture >= s.lastCapture))
  BY DEF AccumulateHeader
<1>7. r.receiveMonotonic =
        (s.receiveMonotonic /\ (s.count > 0 => m.receive >= s.lastReceive))
  BY DEF AccumulateHeader
<1>8. r.strictly = (s.strictly /\ (s.count > 0 => m.capture > s.lastCapture))
  BY DEF AccumulateHeader
<1>9. /\ r.first = IF s.count > 0 THEN s.first ELSE m.capture
      /\ r.lastCapture = m.capture /\ r.lastReceive = m.receive
  BY DEF AccumulateHeader
<1>12. r.count \in Nat /\ r.first \in Nat /\ r.lastCapture \in Nat /\ r.lastReceive \in Int
  BY <1>1, <1>2, <1>9
<1>13. r.mixed \in BOOLEAN /\ r.captureEver \in BOOLEAN /\ r.receiveEver \in BOOLEAN
  BY <1>3, <1>4, <1>5
<1>14. /\ r.captureMonotonic \in BOOLEAN /\ r.receiveMonotonic \in BOOLEAN
       /\ r.strictly \in BOOLEAN
  BY <1>6, <1>7, <1>8
<1> DEFINE n == r.count
           x == r.mixed
           y == r.captureEver
           z == r.receiveEver
           u == r.captureMonotonic
           v == r.receiveMonotonic
           w == r.strictly
           f == r.first
           l == r.lastCapture
           e == r.lastReceive
<1>10. r = [count |-> n, mixed |-> x, captureEver |-> y, receiveEver |-> z, captureMonotonic |-> u,
            receiveMonotonic |-> v, strictly |-> w, first |-> f, lastCapture |-> l,
            lastReceive |-> e]
  BY DEF AccumulateHeader
<1>15. /\ n \in Nat /\ x \in BOOLEAN /\ y \in BOOLEAN /\ z \in BOOLEAN /\ u \in BOOLEAN
       /\ v \in BOOLEAN /\ w \in BOOLEAN /\ f \in Nat /\ l \in Nat /\ e \in Int
  BY <1>12, <1>13, <1>14
<1> HIDE DEF r, n, x, y, z, u, v, w, f, l, e
<1>11. r \in Stats
  BY <1>10, <1>15 DEF Stats
<1> QED
  BY <1>2, <1>3, <1>4, <1>5, <1>6, <1>7, <1>8, <1>9, <1>11 DEF r

\* One more message: what is said of P is said of P and k.
LEMMA MessageTyping ==
  ASSUME NEW b, NEW P, NEW k, Following(b, P, k)
  PROVE  /\ k \in Nat /\ k \notin P /\ \A i \in P : i \in Nat /\ i < k
         /\ \A i \in P \cup {k} : /\ b[i] \in BagMessages
                                  /\ b[i].capture \in Nat /\ b[i].receive \in Int
<1>1. \A i \in P \cup {k} : i \in 1 .. Len(b)
  BY DEF Following
<1>2. \A i \in 1 .. Len(b) : b[i] \in BagMessages
  BY DEF Following
<1>3. \A i \in P \cup {k} : b[i] \in BagMessages
  BY <1>1, <1>2
<1>4. \A i \in P \cup {k} : b[i].capture \in Nat /\ b[i].receive \in Int
  BY <1>3 DEF BagMessages
<1>5. k \in Nat /\ k \notin P /\ \A i \in P : i \in Nat /\ i < k
  BY DEF Following
<1> QED
  BY <1>3, <1>4, <1>5

LEMMA CountPositive ==
  ASSUME NEW b, NEW P, NEW s, Summed(b, P, s)
  PROVE  s.count > 0 <=> P # {}
BY FS_EmptySet, FS_CardinalityType DEF Summed

LEMMA EverNext ==
  ASSUME NEW b, NEW P, NEW k, Following(b, P, k), NEW s, Summed(b, P, s)
  PROVE  Ever(b, P \cup {k}, AccumulateHeader(s, b[k]))
<1> DEFINE r == AccumulateHeader(s, b[k])
<1>1. b[k] \in BagMessages /\ s \in Stats /\ Ever(b, P, s)
  BY MessageTyping DEF Summed
<1>2. /\ r.captureEver <=> s.captureEver \/ b[k].capture # 0
      /\ r.receiveEver <=> s.receiveEver \/ b[k].receive # 0
  BY <1>1, FieldsOfNext
<1> HIDE DEF r
<1>3. r.captureEver <=> \E i \in P \cup {k} : b[i].capture # 0
  BY <1>1, <1>2 DEF Ever
<1>4. r.receiveEver <=> \E i \in P \cup {k} : b[i].receive # 0
  BY <1>1, <1>2 DEF Ever
<1> QED
  BY <1>3, <1>4 DEF Ever, r

LEMMA MixesNext ==
  ASSUME NEW b, NEW P, NEW k, Following(b, P, k), NEW s, Summed(b, P, s)
  PROVE  Mixes(b, P \cup {k}, AccumulateHeader(s, b[k]))
<1> DEFINE r == AccumulateHeader(s, b[k])
           Q(i, j) == \/ b[i].capture # 0 /\ b[j].capture = 0
                      \/ b[i].receive # 0 /\ b[j].receive = 0
<1>1. b[k] \in BagMessages /\ s \in Stats /\ Ever(b, P, s)
      /\ (s.mixed <=> \E i, j \in P : i < j /\ Q(i, j))
  BY MessageTyping DEF Summed, Mixes
<1>2. r.mixed <=> s.mixed \/ (b[k].capture = 0 /\ s.captureEver) \/ (b[k].receive = 0 /\ s.receiveEver)
  BY <1>1, FieldsOfNext
<1>3. (b[k].capture = 0 /\ s.captureEver) \/ (b[k].receive = 0 /\ s.receiveEver)
        <=> \E i \in P : Q(i, k)
  BY <1>1 DEF Ever
<1> HIDE DEF r, Q
<1>4. \A i \in P : i < k /\ ~(k < i)
  BY MessageTyping
<1>5. ~(k < k)
  BY MessageTyping
<1>6. (\E i, j \in P \cup {k} : i < j /\ Q(i, j))
        <=> (\E i, j \in P : i < j /\ Q(i, j)) \/ \E i \in P : Q(i, k)
  BY <1>4, <1>5
<1>7. r.mixed <=> \E i, j \in P \cup {k} : i < j /\ Q(i, j)
  BY <1>1, <1>2, <1>3, <1>6
<1> QED
  BY <1>7 DEF Mixes, r, Q

Rises(P, f) == \A i, j \in P : i < j => f[i] <= f[j]
Climbs(P, f) == \A i, j \in P : i < j => f[i] < f[j]

\* The last of P stands for all of them.
LEMMA LastDecides ==
  ASSUME NEW P, NEW k \in Nat, \A i \in P : i \in Nat /\ i < k, NEW f,
         \A i \in P \cup {k} : f[i] \in Int, NEW l \in P, \A i \in P : i <= l
  PROVE  /\ Rises(P \cup {k}, f) <=> Rises(P, f) /\ f[k] >= f[l]
         /\ Climbs(P \cup {k}, f) <=> Climbs(P, f) /\ f[k] > f[l]
<1>1. l < k /\ \A i \in P : i < l \/ i = l
  OBVIOUS
<1>2. (\A i, j \in P : i < j => f[i] <= f[j]) /\ f[k] >= f[l]
        => \A i, j \in P \cup {k} : i < j => f[i] <= f[j]
  <2> SUFFICES ASSUME \A i, j \in P : i < j => f[i] <= f[j], f[k] >= f[l],
                      NEW i \in P \cup {k}, NEW j \in P \cup {k}, i < j
               PROVE  f[i] <= f[j]
    OBVIOUS
  <2>1. i \in P
    OBVIOUS
  <2>2. f[i] <= f[l]
    BY <1>1, <2>1
  <2> QED
    BY <2>1, <2>2
<1>3. (\A i, j \in P : i < j => f[i] < f[j]) /\ f[k] > f[l]
        => \A i, j \in P \cup {k} : i < j => f[i] < f[j]
  <2> SUFFICES ASSUME \A i, j \in P : i < j => f[i] < f[j], f[k] > f[l],
                      NEW i \in P \cup {k}, NEW j \in P \cup {k}, i < j
               PROVE  f[i] < f[j]
    OBVIOUS
  <2>1. i \in P
    OBVIOUS
  <2>2. f[i] < f[l] \/ i = l
    BY <1>1, <2>1
  <2> QED
    BY <2>1, <2>2
<1>4. (\A i, j \in P \cup {k} : i < j => f[i] <= f[j]) => f[k] >= f[l]
  BY <1>1
<1>5. (\A i, j \in P \cup {k} : i < j => f[i] < f[j]) => f[k] > f[l]
  BY <1>1
<1> QED
  BY <1>2, <1>3, <1>4, <1>5 DEF Rises, Climbs

LEMMA OrderedNext ==
  ASSUME NEW b, NEW P, NEW k, Following(b, P, k), NEW s, Summed(b, P, s)
  PROVE  Ordered(b, P \cup {k}, AccumulateHeader(s, b[k]))
<1> DEFINE r == AccumulateHeader(s, b[k])
           Q == P \cup {k}
<1>0. PICK c, w : c = [i \in Q |-> b[i].capture] /\ w = [i \in Q |-> b[i].receive]
  OBVIOUS
<1>1. b[k] \in BagMessages /\ s \in Stats /\ Ordered(b, P, s) /\ Ends(b, P, s)
  BY MessageTyping DEF Summed
<1>2. /\ r.captureMonotonic <=> s.captureMonotonic /\ (P # {} => b[k].capture >= s.lastCapture)
      /\ r.receiveMonotonic <=> s.receiveMonotonic /\ (P # {} => b[k].receive >= s.lastReceive)
      /\ r.strictly <=> s.strictly /\ (P # {} => b[k].capture > s.lastCapture)
  BY <1>1, FieldsOfNext, CountPositive
<1> HIDE DEF r
<1>3. k \in Nat /\ (\A i \in P : i \in Nat /\ i < k) /\ \A i \in Q : c[i] \in Int /\ w[i] \in Int
  BY <1>0, MessageTyping
<1>4. \A i \in Q : c[i] = b[i].capture /\ w[i] = b[i].receive
  BY <1>0
<1>5. /\ s.captureMonotonic <=> Rises(P, c)
      /\ s.receiveMonotonic <=> Rises(P, w)
      /\ s.strictly <=> Climbs(P, c)
  BY <1>1, <1>4 DEF Ordered, Rises, Climbs
<1>6. CASE P = {}
  <2>1. \A i, j \in Q : ~(i < j)
    BY <1>3, <1>6
  <2>2. r.captureMonotonic /\ r.receiveMonotonic /\ r.strictly
    BY <1>2, <1>5, <1>6 DEF Rises, Climbs
  <2>3. Ordered(b, Q, r)
    BY <2>1, <2>2 DEF Ordered
  <2> QED
    BY <2>3 DEF r
<1>7. CASE P # {}
  <2>1. PICK l \in P : /\ \A i \in P : i <= l
                       /\ s.lastCapture = b[l].capture /\ s.lastReceive = b[l].receive
    BY <1>1, <1>7 DEF Ends
  <2>2. /\ s.lastCapture = c[l] /\ s.lastReceive = w[l] /\ b[k].capture = c[k]
        /\ b[k].receive = w[k]
    BY <1>4, <2>1
  <2>3. Rises(Q, c) <=> Rises(P, c) /\ c[k] >= c[l]
    BY <1>3, <2>1, LastDecides
  <2>4. Climbs(Q, c) <=> Climbs(P, c) /\ c[k] > c[l]
    BY <1>3, <2>1, LastDecides
  <2>5. Rises(Q, w) <=> Rises(P, w) /\ w[k] >= w[l]
    BY <1>3, <2>1, LastDecides
  <2>6. /\ r.captureMonotonic <=> Rises(Q, c)
        /\ r.receiveMonotonic <=> Rises(Q, w)
        /\ r.strictly <=> Climbs(Q, c)
    BY <1>2, <1>5, <1>7, <2>2, <2>3, <2>4, <2>5
  <2>7. Ordered(b, Q, r)
    BY <1>4, <2>6 DEF Ordered, Rises, Climbs
  <2> QED
    BY <2>7 DEF r
<1> QED
  BY <1>6, <1>7

LEMMA EndsNext ==
  ASSUME NEW b, NEW P, NEW k, Following(b, P, k), NEW s, Summed(b, P, s)
  PROVE  Ends(b, P \cup {k}, AccumulateHeader(s, b[k]))
<1> DEFINE r == AccumulateHeader(s, b[k])
           Q == P \cup {k}
<1>1. b[k] \in BagMessages /\ s \in Stats /\ Ends(b, P, s)
  BY MessageTyping DEF Summed
<1>2. /\ r.first = IF P # {} THEN s.first ELSE b[k].capture
      /\ r.lastCapture = b[k].capture /\ r.lastReceive = b[k].receive
  BY <1>1, FieldsOfNext, CountPositive
<1> HIDE DEF r
<1>3. k \in Nat /\ \A i \in P : i \in Nat /\ i < k
  BY MessageTyping
<1>4. \E l \in Q : /\ \A i \in Q : i <= l
                   /\ r.lastCapture = b[l].capture /\ r.lastReceive = b[l].receive
  BY <1>2, <1>3
<1>5. \E h \in Q : (\A i \in Q : h <= i) /\ r.first = b[h].capture
  <2>1. CASE P = {}
    BY <1>2, <1>3, <2>1
  <2>2. CASE P # {}
    <3>1. PICK h \in P : (\A i \in P : h <= i) /\ s.first = b[h].capture
      BY <1>1, <2>2 DEF Ends
    <3>2. h \in Q /\ (\A i \in Q : h <= i) /\ r.first = b[h].capture
      BY <1>2, <1>3, <2>2, <3>1
    <3> QED
      BY <3>2
  <2> QED
    BY <2>1, <2>2
<1>6. Ends(b, Q, r)
  BY <1>4, <1>5 DEF Ends
<1> QED
  BY <1>6 DEF r

\* AccumulateHeader goes from the sum over P to the sum over P and k.
LEMMA SummedNext ==
  ASSUME NEW b, NEW P, NEW k, Following(b, P, k), NEW s, Summed(b, P, s)
  PROVE  Summed(b, P \cup {k}, AccumulateHeader(s, b[k]))
<1>1. b[k] \in BagMessages /\ s \in Stats /\ IsFiniteSet(P) /\ s.count = Cardinality(P) /\ k \notin P
  BY MessageTyping DEF Summed
<1>2. AccumulateHeader(s, b[k]) \in Stats /\ AccumulateHeader(s, b[k]).count = s.count + 1
  BY <1>1, FieldsOfNext
<1>3. IsFiniteSet(P \cup {k}) /\ Cardinality(P \cup {k}) = Cardinality(P) + 1
  BY <1>1, FS_AddElement
<1> QED
  BY <1>1, <1>2, <1>3, EverNext, MixesNext, OrderedNext, EndsNext DEF Summed

LEMMA ListedNext ==
  ASSUME NEW b, NEW P, NEW k, Following(b, P, k), NEW s \in IdStats, Listed(b, P, s)
  PROVE  /\ Listed(b, P \cup {k}, AccumulateKeyframeIds(s, b[k]))
         /\ AccumulateKeyframeIds(s, b[k]) \in IdStats
<1> DEFINE r == AccumulateKeyframeIds(s, b[k])
           Q == P \cup {k}
<1>1. /\ r.empty = (s.empty \/ b[k].keyframe = NoId)
      /\ r.unique = (s.unique /\ b[k].keyframe \notin s.ids)
      /\ r.sourceless = (s.sourceless \/ ~b[k].sourced)
      /\ r.ids = (s.ids \cup {b[k].keyframe}) \ {NoId}
  BY DEF AccumulateKeyframeIds
<1>2. r \in IdStats
  <2>1. b[k].keyframe \in MessageIds \cup KeyframeIds
    BY MessageTyping DEF BagMessages
  <2>2. (s.ids \cup {b[k].keyframe}) \ {NoId} \in SUBSET (MessageIds \cup KeyframeIds)
    BY <2>1 DEF IdStats
  <2>3. /\ (s.empty \/ b[k].keyframe = NoId) \in BOOLEAN
        /\ (s.unique /\ b[k].keyframe \notin s.ids) \in BOOLEAN
        /\ (s.sourceless \/ ~b[k].sourced) \in BOOLEAN
    OBVIOUS
  <2> QED
    BY <2>2, <2>3 DEF AccumulateKeyframeIds, IdStats
<1>3. k \notin P
  BY MessageTyping
<1> HIDE DEF r
<1>4. r.empty <=> \E i \in Q : b[i].keyframe = NoId
  BY <1>1 DEF Listed
<1>5. r.sourceless <=> \E i \in Q : ~b[i].sourced
  BY <1>1 DEF Listed
<1>6. r.ids = {b[i].keyframe : i \in {i \in Q : b[i].keyframe # NoId}}
  BY <1>1 DEF Listed
<1>7. b[k].keyframe \notin s.ids <=>
        (b[k].keyframe # NoId => \A i \in P : b[i].keyframe # b[k].keyframe)
  BY DEF Listed
<1>8. r.unique <=> \A i, j \in Q : b[i].keyframe # NoId /\ i # j => b[i].keyframe # b[j].keyframe
  BY <1>1, <1>3, <1>7 DEF Listed
<1>9. Listed(b, Q, r)
  BY <1>4, <1>5, <1>6, <1>8 DEF Listed
<1> QED
  BY <1>2, <1>9 DEF r

LEMMA NoIdsTyped == NoIds \in IdStats
BY DEF NoIds, IdStats

LEMMA NoneRead ==
  ASSUME NEW b, NEW t
  PROVE  Of(b, t, 0) = {}
BY DEF Of

\* Until the bag is closed nothing has been summed up.
LEMMA StatsUnread ==
  ASSUME NEW b, NEW n, n = 0, NEW h, h = [t \in TimedTopics |-> NoHeader]
  PROVE  /\ \A t \in TimedTopics : Summed(b, Of(b, t, n), h[t])
         /\ Listed(b, Of(b, "boundary", n), NoIds)
<1>1. ASSUME NEW t \in TimedTopics PROVE Summed(b, Of(b, t, n), h[t])
  <2>1. h[t] = NoHeader /\ Of(b, t, n) = {}
    BY NoneRead
  <2> QED
    BY <2>1, NothingSummed
<1> QED
  BY <1>1, NoneRead, NothingSummed

\* The report only looks at the bag and its statistics.
LEMMA ReportKept ==
  ASSUME UNCHANGED <<bag, headers, ids>>
  PROVE  AuditReport' = AuditReport
BY DEF AuditReport, PresenceFaults, PairingFaults, KeyedFaults, BoundaryFaults, TimeFaults,
       FrameFaults, PreRollSamples, HasStereo, OfTopic, KeyframeKeyed

LEMMA StatsKept ==
  ASSUME StatsInv, UNCHANGED <<bag, scanned, headers, ids>>,
         phase' = "recording" => phase = "recording",
         phase' \in {"audited", "replay"} => scanned = Len(bag) /\ audit' = AuditReport
  PROVE  StatsInv'
<1>1. phase' \in {"audited", "replay"} => scanned' = Len(bag') /\ audit' = AuditReport'
  BY ReportKept
<1> HIDE DEF AuditReport
<1> QED
  BY <1>1 DEF StatsInv

LEMMA NextOf ==
  ASSUME BagTyped, scanned \in 0 .. Len(bag) - 1, NEW t
  PROVE  /\ Following(bag, Of(bag, t, scanned), scanned + 1)
         /\ bag[scanned + 1].topic = t =>
              Of(bag, t, scanned + 1) = Of(bag, t, scanned) \cup {scanned + 1}
         /\ bag[scanned + 1].topic # t => Of(bag, t, scanned + 1) = Of(bag, t, scanned)
<1>1. 1 .. scanned + 1 = (1 .. scanned) \cup {scanned + 1}
  OBVIOUS
<1>2. bag \in Seq(BagMessages) /\ scanned + 1 \in 1 .. Len(bag) /\ (scanned + 1) - 1 = scanned
  BY DEF BagTyped
<1>3. Of(bag, t, scanned) \subseteq 1 .. scanned
  BY DEF Of
<1> QED
  BY <1>1, <1>2, <1>3 DEF Following, Of

LEMMA StatsScan ==
  ASSUME BagTyped, StatsInv, AuditMessage
  PROVE  StatsInv'
<1> DEFINE n == scanned + 1
           m == bag[n]
<1>1. /\ phase = "closed" /\ phase' = "closed" /\ bag' = bag /\ scanned' = n
      /\ scanned \in 0 .. Len(bag) - 1
  BY DEF AuditMessage, StatsInv, BagTyped
<1>2. ASSUME NEW t \in TimedTopics PROVE Summed(bag, Of(bag, t, n), headers'[t])
  <2>1. Summed(bag, Of(bag, t, scanned), headers[t])
    BY DEF StatsInv
  <2>2. headers'[t] = IF t = m.topic THEN AccumulateHeader(headers[t], m) ELSE headers[t]
    BY DEF AuditMessage
  <2>3. CASE m.topic = t
    <3>1. /\ Following(bag, Of(bag, t, scanned), n)
          /\ Of(bag, t, n) = Of(bag, t, scanned) \cup {n}
      BY <1>1, <2>3, NextOf
    <3> QED
      BY <2>1, <2>2, <2>3, <3>1, SummedNext
  <2>4. CASE m.topic # t
    <3>1. Of(bag, t, n) = Of(bag, t, scanned)
      BY <1>1, <2>4, NextOf
    <3> QED
      BY <2>1, <2>2, <2>4, <3>1
  <2> QED
    BY <2>3, <2>4
<1>3. ids' \in IdStats /\ Listed(bag, Of(bag, "boundary", n), ids')
  <2>1. ids \in IdStats /\ Listed(bag, Of(bag, "boundary", scanned), ids)
    BY DEF StatsInv
  <2>2. ids' = IF m.topic = "boundary" THEN AccumulateKeyframeIds(ids, m) ELSE ids
    BY DEF AuditMessage
  <2>3. CASE m.topic = "boundary"
    <3>1. /\ Following(bag, Of(bag, "boundary", scanned), n)
          /\ Of(bag, "boundary", n) = Of(bag, "boundary", scanned) \cup {n}
      BY <1>1, <2>3, NextOf
    <3> QED
      BY <2>1, <2>2, <2>3, <3>1, ListedNext
  <2>4. CASE m.topic # "boundary"
    <3>1. Of(bag, "boundary", n) = Of(bag, "boundary", scanned)
      BY <1>1, <2>4, NextOf
    <3> QED
      BY <2>1, <2>2, <2>4, <3>1
  <2> QED
    BY <2>3, <2>4
<1>4. n \in 0 .. Len(bag)
  BY <1>1
<1> HIDE DEF n, m
<1> QED
  BY <1>1, <1>2, <1>3, <1>4 DEF StatsInv

LEMMA StatsInit == RecordingInit => StatsInv
<1> SUFFICES ASSUME RecordingInit PROVE StatsInv
  OBVIOUS
<1>1. /\ scanned = 0 /\ headers = [t \in TimedTopics |-> NoHeader] /\ ids = NoIds
      /\ phase = "recording"
  BY DEF RecordingInit
<1>2. scanned \in 0 .. Len(bag)
  BY <1>1, TypedInit DEF BagTyped
<1>3. /\ \A t \in TimedTopics : Summed(bag, Of(bag, t, scanned), headers[t])
      /\ Listed(bag, Of(bag, "boundary", scanned), ids)
  BY <1>1, StatsUnread
<1> QED
  BY <1>1, <1>2, <1>3, NoIdsTyped DEF StatsInv

LEMMA StatsNext ==
  ASSUME BagTyped, StatsInv, [RecordingNext]_<<recordingVars, vars>>
  PROVE  StatsInv'
<1>1. BagTyped'
  BY TypedNext
<1>2. ASSUME phase = "recording", UNCHANGED statsVars, phase' \in {"recording", "closed"}
      PROVE  StatsInv'
  <2>1. /\ scanned' = 0 /\ headers' = [t \in TimedTopics |-> NoHeader] /\ ids' = NoIds
    BY <1>2 DEF statsVars, StatsInv
  <2>2. scanned' \in 0 .. Len(bag')
    BY <1>1, <2>1 DEF BagTyped
  <2>3. /\ \A t \in TimedTopics : Summed(bag', Of(bag', t, scanned'), headers'[t])
        /\ Listed(bag', Of(bag', "boundary", scanned'), ids')
    BY <2>1, StatsUnread
  <2> QED
    BY <1>2, <2>1, <2>2, <2>3, NoIdsTyped DEF StatsInv
<1>3. CASE \E sensors \in TickSets : RecordTick(sensors)
  <2>1. phase = "recording" /\ UNCHANGED statsVars /\ phase' \in {"recording", "closed"}
    BY <1>3 DEF RecordTick
  <2> QED
    BY <1>2, <2>1
<1>4. CASE \E inRange \in SUBSET Targets : GenerateKeyframe(inRange)
  <2>1. phase = "recording" /\ UNCHANGED statsVars /\ phase' \in {"recording", "closed"}
    BY <1>4 DEF GenerateKeyframe
  <2> QED
    BY <1>2, <2>1
<1>5. CASE \E keyframe \in KeyframeIds \cup {NoId}, obs \in Ids, sourced \in BOOLEAN,
             time \in BoundaryTimes : ScheduleBoundary(keyframe, obs, sourced, time)
  <2>1. phase = "recording" /\ UNCHANGED statsVars /\ phase' \in {"recording", "closed"}
    BY <1>5 DEF ScheduleBoundary
  <2> QED
    BY <1>2, <2>1
<1>6. CASE EndSession \/ WritePrelude \/ CloseSynthetic \/ CloseScheduler
  <2>1. phase = "recording" /\ UNCHANGED statsVars /\ phase' \in {"recording", "closed"}
    BY <1>6 DEF EndSession, WritePrelude, CloseSynthetic, CloseScheduler
  <2> QED
    BY <1>2, <2>1
<1>7. CASE AuditMessage
  BY <1>7, StatsScan
<1>8. CASE AuditBag
  <2>1. /\ UNCHANGED <<bag, scanned, headers, ids>> /\ phase' = "audited"
        /\ scanned = Len(bag) /\ audit' = AuditReport
    BY <1>8 DEF AuditBag, statsVars
  <2> QED
    BY <2>1, StatsKept
<1>9. CASE OpenBag
  <2>1. /\ UNCHANGED <<bag, scanned, headers, ids>> /\ phase' = "replay"
        /\ scanned = Len(bag) /\ audit' = AuditReport
    BY <1>9 DEF OpenBag, statsVars, StatsInv
  <2> QED
    BY <2>1, StatsKept
<1>10. CASE UNCHANGED recordingVars
  <2>1. UNCHANGED <<bag, scanned, headers, ids>> /\ phase' = phase
    BY <1>10 DEF recordingVars, statsVars
  <2>2. phase' \in {"audited", "replay"} => scanned = Len(bag) /\ audit' = AuditReport
    BY <1>10 DEF recordingVars, StatsInv
  <2> QED
    BY <2>1, <2>2, StatsKept
<1> QED
  BY <1>3, <1>4, <1>5, <1>6, <1>7, <1>8, <1>9, <1>10
     DEF RecordingNext, ReadMessage, FinishReplay

-----------------------------------------------------------------------------
(***************************************************************************)
(* The messages of a recorded bag and the rounds that wrote them.          *)
(***************************************************************************)
\* Generated without cameras.
Blind == producer = "synthetic" /\ ~options.cameras

\* A message of a round has the round's times; a pose or a depth reading with
\* a keyframe's id has a left image beside it.
OfRound(m, round) ==
  /\ m.topic \in round.written
  /\ m.topic \in StampedTopics => m.capture = round.time /\ m.receive = round.receive
  /\ m.topic \in {"gt", "depth"} /\ IsKeyframeKeyed(m) => "left" \in round.written \/ Blind

\* f gives each message the round that wrote it, and 0 to what stands before
\* the first round.
Traced(b, rounds, f) ==
  /\ f \in [1 .. Len(b) -> 0 .. Len(rounds)]
  /\ \A i, j \in 1 .. Len(b) : i < j => f[i] <= f[j]
  /\ \A i \in 1 .. Len(b) :
       f[i] = 0 => b[i].topic = "targets" \/ (b[i].topic = "imu" /\ options.imu)
  /\ \A i \in 1 .. Len(b) : f[i] # 0 => OfRound(b[i], rounds[f[i]])
  /\ \A r \in 1 .. Len(rounds) : \A t \in rounds[r].written :
       \E i \in 1 .. Len(b) : f[i] = r /\ b[i].topic = t
  /\ \A i, j \in 1 .. Len(b) :
       f[i] = f[j] /\ f[i] # 0 /\ b[i].topic = b[j].topic /\ b[i].topic # "sonar" => i = j

RoundsInv == Recorded => \E f : Traced(bag, taken, f)

\* The times of the rounds grow, and a round without a receive time is at time
\* zero; the generator's first keyframe ends the pre-roll.
ClockInv ==
  /\ producer # "synthetic" => ~options.imu
  /\ Recorded =>
       /\ \A i, j \in 1 .. Len(taken) : i < j => taken[i].time < taken[j].time
       /\ \A i \in 1 .. Len(taken) : taken[i].receive = 0 => taken[i].time = 0
  /\ producer = "holoocean" =>
       /\ \A i \in 1 .. Len(taken) : taken[i].time < tick * TickPeriod
       /\ tick <= MaxTicks /\ receive + tick >= MaxTicks + 1
  /\ producer = "synthetic" =>
       /\ \A i \in 1 .. Len(taken) :
            /\ taken[i].time < KeyframeTime
            /\ options.imu => "boundary" \in taken[i].written
            /\ ~options.cameras => "left" \notin taken[i].written
       /\ Len(bag) = 0 => Len(taken) = 0
       /\ Len(taken) = 0 => keyframeIndex = 0
       /\ Len(taken) > 0 => taken[1].time = StartTime
       /\ \A i \in 1 .. Len(bag) :
            bag[i].topic = "imu" => bag[i].motion = Motion(bag[i].capture)

\* The messages of one more round.
OneRound(block, round) ==
  /\ block \in Seq(BagMessages)
  /\ \A i \in 1 .. Len(block) : OfRound(block[i], round)
  /\ \A t \in round.written : \E i \in 1 .. Len(block) : block[i].topic = t
  /\ \A i, j \in 1 .. Len(block) :
       block[i].topic = block[j].topic /\ block[i].topic # "sonar" => i = j

LEMMA TracedRound ==
  ASSUME NEW b \in Seq(BagMessages), NEW S, NEW rounds \in Seq(S), NEW round \in S,
         NEW f, Traced(b, rounds, f), NEW block, OneRound(block, round)
  PROVE  \E g : Traced(b \o block, Append(rounds, round), g)
<1>0. PICK u, n, q, v, g :
        /\ u = b \o block /\ n = Len(b) /\ q = Len(rounds) + 1 /\ v = Append(rounds, round)
        /\ g = [i \in 1 .. Len(u) |-> IF i \in 1 .. n THEN f[i] ELSE q]
  OBVIOUS
<1>1. /\ block \in Seq(BagMessages) /\ n \in Nat /\ Len(block) \in Nat
      /\ \A i \in 1 .. n : u[i] = b[i] /\ i \in 1 .. Len(u)
      /\ \A i \in 1 .. Len(block) : u[n + i] = block[i] /\ n + i \in 1 .. Len(u)
      /\ \A i \in 1 .. Len(u) :
           \/ i \in 1 .. n /\ u[i] = b[i]
           \/ i \notin 1 .. n /\ i - n \in 1 .. Len(block) /\ u[i] = block[i - n]
  <2>1. block \in Seq(BagMessages)
    BY DEF OneRound
  <2> QED
    BY <1>0, <2>1, Joined
<1>2. /\ Len(rounds) \in Nat /\ q \in Nat /\ q # 0 /\ Len(v) = q
      /\ \A r \in 1 .. Len(rounds) : v[r] = rounds[r]
      /\ v[q] = round
  BY <1>0
<1>3. /\ \A i \in 1 .. n : f[i] \in 0 .. Len(rounds)
      /\ \A i, j \in 1 .. n : i < j => f[i] <= f[j]
  BY <1>0 DEF Traced
<1>4. /\ \A i \in 1 .. n : g[i] = f[i] /\ g[i] < q
      /\ \A i \in 1 .. Len(u) : i \notin 1 .. n => g[i] = q
  BY <1>0, <1>1, <1>2, <1>3
<1>5. g \in [1 .. Len(u) -> 0 .. Len(v)]
  BY <1>0, <1>2, <1>3
<1>6. ASSUME NEW i \in 1 .. Len(u), NEW j \in 1 .. Len(u), i < j PROVE g[i] <= g[j]
  <2>1. CASE j \in 1 .. n
    <3>1. i \in 1 .. n
      BY <1>1, <1>6, <2>1
    <3> QED
      BY <1>3, <1>4, <1>6, <2>1, <3>1
  <2>2. CASE j \notin 1 .. n
    <3>1. g[j] = q /\ g[i] \in 0 .. q
      BY <1>2, <1>4, <1>5, <2>2
    <3> QED
      BY <1>2, <3>1
  <2> QED
    BY <2>1, <2>2
<1>7. ASSUME NEW i \in 1 .. Len(u), g[i] = 0
      PROVE  u[i].topic = "targets" \/ (u[i].topic = "imu" /\ options.imu)
  <2>1. i \in 1 .. n /\ f[i] = 0 /\ u[i] = b[i]
    BY <1>1, <1>2, <1>4, <1>7
  <2> QED
    BY <1>0, <2>1 DEF Traced
<1>8. ASSUME NEW i \in 1 .. Len(u), g[i] # 0 PROVE OfRound(u[i], v[g[i]])
  <2>1. CASE i \in 1 .. n
    <3>0. u[i] = b[i] /\ g[i] = f[i] /\ f[i] # 0 /\ f[i] \in 1 .. Len(rounds)
      BY <1>1, <1>3, <1>4, <1>8, <2>1
    <3>1. v[g[i]] = rounds[f[i]]
      BY <1>2, <3>0
    <3>2. OfRound(b[i], rounds[f[i]])
      BY <1>0, <2>1, <3>0 DEF Traced
    <3> QED
      BY <3>0, <3>1, <3>2
  <2>2. CASE i \notin 1 .. n
    <3>1. g[i] = q /\ i - n \in 1 .. Len(block) /\ u[i] = block[i - n]
      BY <1>1, <1>4, <2>2
    <3>2. OfRound(block[i - n], round)
      BY <3>1 DEF OneRound
    <3> QED
      BY <1>2, <3>1, <3>2
  <2> QED
    BY <2>1, <2>2
<1>9. ASSUME NEW r \in 1 .. Len(v), NEW t \in v[r].written
      PROVE  \E i \in 1 .. Len(u) : g[i] = r /\ u[i].topic = t
  <2>1. CASE r \in 1 .. Len(rounds)
    <3>1. PICK i \in 1 .. n : f[i] = r /\ b[i].topic = t
      BY <1>0, <1>2, <1>9, <2>1 DEF Traced
    <3> QED
      BY <1>1, <1>4, <3>1
  <2>2. CASE r \notin 1 .. Len(rounds)
    <3>1. r = q /\ t \in round.written
      BY <1>0, <1>2, <1>9, <2>2
    <3>2. PICK i \in 1 .. Len(block) : block[i].topic = t
      BY <3>1 DEF OneRound
    <3>3. n + i \in 1 .. Len(u) /\ u[n + i].topic = t /\ n + i \notin 1 .. n
      BY <1>1, <3>2
    <3> QED
      BY <1>4, <3>1, <3>3
  <2> QED
    BY <2>1, <2>2
<1>10. ASSUME NEW i \in 1 .. Len(u), NEW j \in 1 .. Len(u),
              g[i] = g[j], g[i] # 0, u[i].topic = u[j].topic, u[i].topic # "sonar"
       PROVE  i = j
  <2>1. CASE i \in 1 .. n
    <3>1. j \in 1 .. n
      BY <1>2, <1>4, <1>10, <2>1
    <3>2. /\ f[i] = f[j] /\ f[i] # 0 /\ b[i].topic = b[j].topic /\ b[i].topic # "sonar"
      BY <1>1, <1>4, <1>10, <2>1, <3>1
    <3> QED
      BY <1>0, <2>1, <3>1, <3>2 DEF Traced
  <2>2. CASE i \notin 1 .. n
    <3>1. j \notin 1 .. n
      BY <1>2, <1>4, <1>10, <2>2
    <3>2. /\ i - n \in 1 .. Len(block) /\ j - n \in 1 .. Len(block)
          /\ block[i - n].topic = block[j - n].topic /\ block[i - n].topic # "sonar"
      BY <1>1, <1>10, <2>2, <3>1
    <3>3. i - n = j - n
      BY <3>2 DEF OneRound
    <3> QED
      BY <1>1, <3>3
  <2> QED
    BY <2>1, <2>2
<1>11. Traced(u, v, g)
  BY <1>5, <1>6, <1>7, <1>8, <1>9, <1>10 DEF Traced
<1> QED
  BY <1>0, <1>11

\* A tick's messages are one round.
LEMMA TickMessage ==
  ASSUME BagTyped, NEW sensors, NEW wall \in Int, NEW m \in TickMessages(sensors, wall)
  PROVE  /\ m.capture = tick * TickPeriod /\ m.receive = wall
         /\ m.topic \in {"gt", "depth"} /\ IsKeyframeKeyed(m) => FormsPair(sensors)
<1>1. PICK topic \in Topics : m = Written(topic, sensors, wall)
  BY DEF TickMessages
<1>2. m.topic = topic /\ m.id = IdOf(topic, sensors) /\ m.receive = wall
  BY <1>1, WrittenTyped
<1>3. m.capture = tick * TickPeriod
  BY <1>1 DEF Written, Message
<1>4. ASSUME topic \in {"gt", "depth"}, ~FormsPair(sensors) PROVE ~IsKeyframeKeyed(m)
  <2>1. m.id = <<"tick", tick>>
    BY <1>2, <1>4 DEF IdOf, CameraId, TickId
  <2> QED
    BY <2>1 DEF IsKeyframeKeyed
<1> QED
  BY <1>2, <1>3, <1>4

LEMMA TickIsRound ==
  ASSUME BagTyped, NEW sensors, receive' \in Int, NEW block, NEW W, TickStep(sensors, block, W)
  PROVE  OneRound(block, RoundOf(W, tick * TickPeriod, receive'))
<1> DEFINE round == RoundOf(W, tick * TickPeriod, receive')
<1>1. /\ Part(block, W, TickMessages(sensors, receive'))
      /\ FormsPair(sensors) /\ W # {} => "left" \in W
  BY DEF TickStep
<1>2. round.written = W /\ round.time = tick * TickPeriod /\ round.receive = receive'
  BY DEF RoundOf
<1> HIDE DEF round
<1>3. ASSUME NEW i \in 1 .. Len(block) PROVE OfRound(block[i], round)
  <2>1. block[i].topic \in W /\ block[i] \in TickMessages(sensors, receive')
    BY <1>1 DEF Part
  <2>2. /\ block[i].capture = tick * TickPeriod /\ block[i].receive = receive'
        /\ block[i].topic \in {"gt", "depth"} /\ IsKeyframeKeyed(block[i]) => FormsPair(sensors)
    BY <2>1, TickMessage
  <2>3. block[i].topic \in {"gt", "depth"} /\ IsKeyframeKeyed(block[i]) => "left" \in W
    BY <1>1, <2>1, <2>2
  <2> QED
    BY <1>2, <2>1, <2>2, <2>3 DEF OfRound
<1>4. OneRound(block, round)
  BY <1>1, <1>2, <1>3 DEF OneRound, Part
<1> QED
  BY <1>4 DEF round

\* A keyframe's messages are one round.
LEMMA KeyframeIsRound ==
  ASSUME BagTyped, producer = "synthetic", NEW n, NEW block, KeyframeStep(n, block)
  PROVE  OneRound(block, RoundOf(KeyframeTopics(n), KeyframeTime, KeyframeTime))
<1> DEFINE W == KeyframeTopics(n)
           round == RoundOf(W, KeyframeTime, KeyframeTime)
<1>1. Part(block, W, RoundMessages)
  BY DEF KeyframeStep
<1>2. round.written = W /\ round.time = KeyframeTime /\ round.receive = KeyframeTime
  BY DEF RoundOf
<1>3. /\ W \cap StampedTopics \subseteq {"left", "right", "sonar", "boundary"}
      /\ "left" \in W \/ Blind
  BY DEF KeyframeTopics, StampedTopics, RawTopics, Blind
<1> HIDE DEF round, W
<1>4. ASSUME NEW i \in 1 .. Len(block) PROVE OfRound(block[i], round)
  <2>1. block[i].topic \in W /\ block[i] \in RoundMessages
    BY <1>1 DEF Part
  <2>2. /\ block[i].receive = KeyframeTime
        /\ block[i].topic \in {"left", "right", "sonar", "boundary"} => block[i].capture = KeyframeTime
    BY <2>1 DEF RoundMessages
  <2> QED
    BY <1>2, <1>3, <2>1, <2>2 DEF OfRound
<1>5. OneRound(block, round)
  BY <1>1, <1>2, <1>4 DEF OneRound, Part
<1> QED
  BY <1>5 DEF round, W

\* Nothing has been written yet, or the generator's block before the keyframes.
LEMMA TracedBefore ==
  ASSUME NEW b, NEW rounds, Len(rounds) = 0, Len(b) \in Nat,
         \A i \in 1 .. Len(b) : b[i].topic = "targets" \/ (b[i].topic = "imu" /\ options.imu)
  PROVE  \E f : Traced(b, rounds, f)
<1>1. PICK f : f = [i \in 1 .. Len(b) |-> 0]
  OBVIOUS
<1>2. \A i \in 1 .. Len(b) : f[i] = 0
  BY <1>1
<1>3. f \in [1 .. Len(b) -> 0 .. Len(rounds)]
  BY <1>1
<1>4. Traced(b, rounds, f)
  BY <1>2, <1>3 DEF Traced
<1> QED
  BY <1>4

LEMMA RoundsKept ==
  ASSUME RoundsInv, UNCHANGED <<producer, options, bag, taken>>
  PROVE  RoundsInv'
BY DEF RoundsInv, Recorded, Traced, OfRound, Blind

\* The tracing of a later state, as long as producer and options are the same.
LEMMA RoundsStep ==
  ASSUME UNCHANGED <<producer, options>>, NEW f, Traced(bag', taken', f)
  PROVE  RoundsInv'
<1>1. (\E g : Traced(bag, taken, g))' <=> \E g : Traced(bag', taken', g)
  BY DEF Traced, OfRound, Blind
<1> QED
  BY <1>1 DEF RoundsInv

\* The generator's block: the targets and, if asked for, IMU samples.
LEMMA PreludeMoves ==
  \A i \in 1 .. Len(Prelude) :
     \/ Prelude[i].topic = "targets"
     \/ /\ Prelude[i].topic = "imu" /\ options.imu
        /\ Prelude[i].motion = Motion(Prelude[i].capture)
<1>0. PICK h, t, u : /\ h = <<Message("targets", NoId, 0, 0)>>
                     /\ t = (IF options.imu THEN ImuBlock ELSE <<>>) /\ u = h \o t
  OBVIOUS
<1>1. h \in Seq(BagMessages) /\ Len(h) = 1 /\ h[1].topic = "targets"
  <2>1. h[1] = Message("targets", NoId, 0, 0)
    BY <1>0
  <2> QED
    BY <1>0, <2>1, PreludeTyped
<1>3. /\ t \in Seq(BagMessages)
      /\ \A i \in 1 .. Len(t) : /\ t[i].topic = "imu" /\ options.imu
                                /\ t[i].motion = Motion(t[i].capture)
  <2>1. CASE options.imu
    <3>1. t = ImuBlock
      BY <1>0, <2>1
    <3>2. ImuBlock \in Seq(BagMessages)
      BY ImuBlockShape
    <3>3. ASSUME NEW i \in 1 .. Len(ImuBlock)
          PROVE  /\ ImuBlock[i].topic = "imu"
                 /\ ImuBlock[i].motion = Motion(ImuBlock[i].capture)
      <4>1. /\ ImuBlock[i].topic = "imu" /\ ImuBlock[i].capture = ImuBlock[i].log
            /\ ImuBlock[i].motion = Motion(ImuBlock[i].log)
        BY ImuBlockShape
      <4> QED
        BY <4>1
    <3> QED
      BY <2>1, <3>1, <3>2, <3>3
  <2>2. CASE ~options.imu
    <3>1. t = <<>> /\ <<>> \in Seq(BagMessages) /\ 1 .. Len(<<>>) = {}
      BY <1>0, <2>2
    <3> QED
      BY <3>1
  <2> QED
    BY <2>1, <2>2
<1>4. Prelude = u
  BY <1>0 DEF Prelude
<1>5. \A i \in 1 .. Len(u) :
        \/ i \in 1 .. Len(h) /\ u[i] = h[i]
        \/ i \notin 1 .. Len(h) /\ i - Len(h) \in 1 .. Len(t) /\ u[i] = t[i - Len(h)]
  BY <1>0, <1>1, <1>3, Joined
<1>6. ASSUME NEW i \in 1 .. Len(u)
      PROVE  \/ u[i].topic = "targets"
             \/ u[i].topic = "imu" /\ options.imu /\ u[i].motion = Motion(u[i].capture)
  <2>1. CASE i = 1
    BY <1>1, <1>5, <2>1
  <2>2. CASE i # 1
    <3>1. i - 1 \in 1 .. Len(t) /\ u[i] = t[i - 1]
      BY <1>1, <1>5, <2>2
    <3> QED
      BY <1>3, <3>1
  <2> QED
    BY <2>1, <2>2
<1> QED
  BY <1>4, <1>6

LEMMA RoundsInit == RecordingInit => RoundsInv
<1> SUFFICES ASSUME RecordingInit PROVE RoundsInv
  OBVIOUS
<1>1. bag = <<>> /\ taken = <<>>
  BY DEF RecordingInit
<1>2. Len(taken) = 0 /\ Len(bag) \in Nat /\ 1 .. Len(bag) = {}
  BY <1>1
<1>3. \E f : Traced(bag, taken, f)
  BY <1>2, TracedBefore
<1> QED
  BY <1>3 DEF RoundsInv

LEMMA RoundsNext ==
  ASSUME BagTyped, ClockInv, RoundsInv, [RecordingNext]_<<recordingVars, vars>>
  PROVE  RoundsInv'
<1>0. bag \in Seq(BagMessages) /\ taken \in Seq([written : SUBSET Topics, time : Nat, receive : Int])
  BY DEF BagTyped
<1>1. CASE \E sensors \in TickSets : RecordTick(sensors)
  <2>1. PICK sensors \in TickSets : RecordTick(sensors)
    BY <1>1
  <2>2. PICK block, W : TickStep(sensors, block, W)
    BY <2>1, TickSteps
  <2>3. PICK round : round = RoundOf(W, tick * TickPeriod, receive')
    OBVIOUS
  <2>4. receive' \in Int
    BY <2>1, TickSteps
  <2>5. round \in [written : SUBSET Topics, time : Nat, receive : Int]
    <3>1. W \subseteq Topics
      BY <2>2, RecordingAssumption DEF TickStep, Topics, AuditedTopics, TimedTopics, StampedTopics
    <3>2. tick * TickPeriod \in Nat
      BY Numbers, Product DEF BagTyped
    <3> QED
      BY <2>3, <2>4, <3>1, <3>2, RoundTyped
  <2>6. OneRound(block, round)
    BY <2>2, <2>3, <2>4, TickIsRound
  <2>7. /\ bag' = bag \o block /\ taken' = Append(taken, round)
        /\ UNCHANGED <<producer, options>> /\ Recorded
    BY <2>1, <2>2, <2>3 DEF TickStep, RecordTick, Recorded
  <2>8. PICK f : Traced(bag, taken, f)
    BY <2>7 DEF RoundsInv
  <2>9. PICK g : Traced(bag', taken', g)
    BY <1>0, <2>5, <2>6, <2>7, <2>8, TracedRound
  <2> QED
    BY <2>7, <2>9, RoundsStep
<1>2. CASE EndSession
  BY <1>2, RoundsKept DEF EndSession, sourceVars
<1>3. CASE WritePrelude
  <2>1. /\ bag' = Prelude /\ taken' = taken /\ Len(taken) = 0
        /\ UNCHANGED <<producer, options>>
    <3>1. /\ bag' = Prelude /\ taken' = taken /\ bag = <<>> /\ producer = "synthetic"
          /\ UNCHANGED <<producer, options>>
      BY <1>3 DEF WritePrelude, Prelude
    <3> QED
      BY <3>1 DEF ClockInv
  <2>2. Prelude \in Seq(BagMessages)
    BY PreludeTyped
  <2>3. PICK f : Traced(Prelude, taken, f)
    BY <2>1, <2>2, PreludeMoves, TracedBefore
  <2> QED
    BY <2>1, <2>3, RoundsStep
<1>4. CASE \E inRange \in SUBSET Targets : GenerateKeyframe(inRange)
  <2>1. PICK inRange \in SUBSET Targets : GenerateKeyframe(inRange)
    BY <1>4
  <2>2. PICK n, block : KeyframeStep(n, block)
    BY <2>1, KeyframeSteps
  <2>3. PICK round : round = RoundOf(KeyframeTopics(n), KeyframeTime, KeyframeTime)
    OBVIOUS
  <2>4. /\ producer = "synthetic" /\ UNCHANGED <<producer, options>> /\ Recorded
    BY <2>1 DEF GenerateKeyframe, Recorded
  <2>5. round \in [written : SUBSET Topics, time : Nat, receive : Int]
    <3>1. KeyframeTopics(n) \subseteq Topics
      BY DEF KeyframeTopics, Topics, AuditedTopics, TimedTopics, StampedTopics, RawTopics
    <3>2. KeyframeTime \in Nat
      BY TimeTyped
    <3> QED
      BY <2>3, <3>1, <3>2, RoundTyped
  <2>6. OneRound(block, round)
    BY <2>2, <2>3, <2>4, KeyframeIsRound
  <2>7. bag' = bag \o block /\ taken' = Append(taken, round)
    BY <2>2, <2>3 DEF KeyframeStep
  <2>8. PICK f : Traced(bag, taken, f)
    BY <2>4 DEF RoundsInv
  <2>9. PICK g : Traced(bag', taken', g)
    BY <1>0, <2>5, <2>6, <2>7, <2>8, TracedRound
  <2> QED
    BY <2>4, <2>9, RoundsStep
<1>5. CASE CloseSynthetic
  BY <1>5, RoundsKept DEF CloseSynthetic, sourceVars
<1>6. CASE \E keyframe \in KeyframeIds \cup {NoId}, obs \in Ids, sourced \in BOOLEAN,
             time \in BoundaryTimes : ScheduleBoundary(keyframe, obs, sourced, time)
  BY <1>6 DEF ScheduleBoundary, RoundsInv, Recorded
<1>7. CASE CloseScheduler
  BY <1>7 DEF CloseScheduler, RoundsInv, Recorded
<1>8. CASE AuditMessage \/ AuditBag
  BY <1>8, RoundsKept DEF AuditMessage, AuditBag, sourceVars
<1>9. CASE OpenBag
  BY <1>9, RoundsKept DEF OpenBag, sourceVars
<1>10. CASE UNCHANGED recordingVars
  BY <1>10, RoundsKept DEF recordingVars, sourceVars
<1> QED
  BY <1>1, <1>2, <1>3, <1>4, <1>5, <1>6, <1>7, <1>8, <1>9, <1>10
     DEF RecordingNext, ReadMessage, FinishReplay

\* One more round, later than all before.
LEMMA LaterRound ==
  ASSUME NEW rounds \in Seq([written : SUBSET Topics, time : Nat, receive : Int]),
         NEW round \in [written : SUBSET Topics, time : Nat, receive : Int],
         \A i, j \in 1 .. Len(rounds) : i < j => rounds[i].time < rounds[j].time,
         \A i \in 1 .. Len(rounds) : rounds[i].receive = 0 => rounds[i].time = 0,
         \A i \in 1 .. Len(rounds) : rounds[i].time < round.time,
         round.receive = 0 => round.time = 0,
         NEW later, later = Append(rounds, round)
  PROVE  /\ Len(rounds) \in Nat /\ Len(later) = Len(rounds) + 1
         /\ \A i \in 1 .. Len(rounds) : later[i] = rounds[i]
         /\ later[Len(rounds) + 1] = round
         /\ \A i \in 1 .. Len(later) : i \in 1 .. Len(rounds) \/ i = Len(rounds) + 1
         /\ \A i, j \in 1 .. Len(later) : i < j => later[i].time < later[j].time
         /\ \A i \in 1 .. Len(later) : later[i].receive = 0 => later[i].time = 0
<1>1. /\ Len(rounds) \in Nat /\ Len(later) = Len(rounds) + 1
      /\ \A i \in 1 .. Len(rounds) : later[i] = rounds[i]
      /\ later[Len(rounds) + 1] = round
  OBVIOUS
<1>2. \A i \in 1 .. Len(later) : i \in 1 .. Len(rounds) \/ i = Len(rounds) + 1
  BY <1>1
<1>3. ASSUME NEW i \in 1 .. Len(later), NEW j \in 1 .. Len(later), i < j
      PROVE  later[i].time < later[j].time
  <2>1. i \in 1 .. Len(rounds)
    BY <1>1, <1>3
  <2>2. CASE j \in 1 .. Len(rounds)
    BY <1>1, <1>3, <2>1, <2>2
  <2>3. CASE j = Len(rounds) + 1
    BY <1>1, <2>1, <2>3
  <2> QED
    BY <1>2, <2>2, <2>3
<1>4. ASSUME NEW i \in 1 .. Len(later), later[i].receive = 0 PROVE later[i].time = 0
  BY <1>1, <1>2, <1>4
<1> QED
  BY <1>1, <1>2, <1>3, <1>4

LEMMA RoundTimes ==
  ASSUME BagTyped
  PROVE  \A i \in 1 .. Len(taken) : taken[i].time \in Nat /\ taken[i].receive \in Int
<1>0. taken \in Seq([written : SUBSET Topics, time : Nat, receive : Int])
  BY DEF BagTyped
<1>1. \A i \in 1 .. Len(taken) : taken[i] \in [written : SUBSET Topics, time : Nat, receive : Int]
  BY <1>0, ElementOfSeq
<1> QED
  BY <1>1

LEMMA ClockKept ==
  ASSUME ClockInv, UNCHANGED <<producer, options, bag, tick, receive, keyframeIndex, taken>>
  PROVE  ClockInv'
BY DEF ClockInv, Recorded, KeyframeTime, StartTime, Motion

LEMMA ClockInit == RecordingInit => ClockInv
<1> SUFFICES ASSUME RecordingInit PROVE ClockInv
  OBVIOUS
<1>1. /\ bag = <<>> /\ taken = <<>> /\ tick = 0 /\ receive = MaxTicks + 1 /\ keyframeIndex = 0
      /\ producer # "synthetic" => options = [imu |-> FALSE, cameras |-> FALSE,
           omitRelativePose |-> FALSE, omitGroundTruth |-> FALSE, groundTruthOffset |-> 0]
  BY DEF RecordingInit
<1>2. Len(bag) = 0 /\ Len(taken) = 0 /\ 1 .. Len(bag) = {} /\ 1 .. Len(taken) = {}
  BY <1>1
<1>3. producer # "synthetic" => ~options.imu
  BY <1>1
<1>4. tick <= MaxTicks /\ receive + tick >= MaxTicks + 1
  BY <1>1, Numbers
<1> QED
  BY <1>1, <1>2, <1>3, <1>4 DEF ClockInv

\* A tick's receive time stays above zero: the wall clock loses at most one
\* unit for each tick.
LEMMA ClockTick ==
  ASSUME BagTyped, ClockInv, NEW sensors \in TickSets, RecordTick(sensors)
  PROVE  ClockInv'
<1>1. PICK block, W : TickStep(sensors, block, W)
  BY TickSteps
<1>2. PICK round : round = RoundOf(W, tick * TickPeriod, receive')
  OBVIOUS
<1>3. /\ producer = "holoocean" /\ tick < MaxTicks /\ tick' = tick + 1
      /\ UNCHANGED <<producer, options>> /\ taken' = Append(taken, round)
  BY <1>1, <1>2 DEF RecordTick, TickStep
<1>4. /\ tick \in Nat /\ MaxTicks \in Nat /\ receive \in Int /\ receive' \in Int
      /\ receive' >= receive - 1
  BY TickSteps, Numbers DEF RecordTick, WallClock, BagTyped
<1>5. tick' <= MaxTicks /\ receive' + tick' >= MaxTicks + 1 /\ receive' > 0
  BY <1>3, <1>4 DEF ClockInv
<1>6. tick * TickPeriod \in Nat /\ tick * TickPeriod < (tick + 1) * TickPeriod
  <2>1. TickPeriod \in Nat /\ TickPeriod > 0
    BY RecordingAssumption
  <2>2. 0 + tick * TickPeriod < 0 + (tick + 1) * TickPeriod
    BY <1>4, <2>1, NextTime
  <2>3. tick * TickPeriod \in Nat /\ (tick + 1) * TickPeriod \in Nat
    BY <1>4, <2>1, Product
  <2> QED
    BY <2>2, <2>3
<1>7. /\ round \in [written : SUBSET Topics, time : Nat, receive : Int]
      /\ round.time = tick * TickPeriod /\ round.receive = receive'
  <2>1. W \subseteq Topics
    BY <1>1, RecordingAssumption DEF TickStep, Topics, AuditedTopics, TimedTopics, StampedTopics
  <2>2. round \in [written : SUBSET Topics, time : Nat, receive : Int]
    BY <1>2, <1>4, <1>6, <2>1, RoundTyped
  <2> QED
    BY <1>2, <2>2 DEF RoundOf
<1>8. /\ taken \in Seq([written : SUBSET Topics, time : Nat, receive : Int])
      /\ \A i, j \in 1 .. Len(taken) : i < j => taken[i].time < taken[j].time
      /\ \A i \in 1 .. Len(taken) : taken[i].receive = 0 => taken[i].time = 0
      /\ \A i \in 1 .. Len(taken) : taken[i].time < round.time
      /\ round.receive = 0 => round.time = 0
  BY <1>3, <1>5, <1>7 DEF ClockInv, BagTyped, Recorded
<1>9. /\ Len(taken) \in Nat /\ Len(taken') = Len(taken) + 1
      /\ \A i \in 1 .. Len(taken) : taken'[i] = taken[i]
      /\ taken'[Len(taken) + 1] = round
      /\ \A i \in 1 .. Len(taken') : i \in 1 .. Len(taken) \/ i = Len(taken) + 1
      /\ \A i, j \in 1 .. Len(taken') : i < j => taken'[i].time < taken'[j].time
      /\ \A i \in 1 .. Len(taken') : taken'[i].receive = 0 => taken'[i].time = 0
  BY <1>3, <1>7, <1>8, LaterRound
<1>10. \A i \in 1 .. Len(taken) : taken[i].time \in Nat /\ taken[i].time < tick * TickPeriod
  BY <1>3, RoundTimes DEF ClockInv
<1>11. \A i \in 1 .. Len(taken') : taken'[i].time < (tick + 1) * TickPeriod
  <2>1. (tick + 1) * TickPeriod \in Nat
    BY <1>4, RecordingAssumption, Product
  <2> TAKE i \in 1 .. Len(taken')
  <2>2. CASE i \in 1 .. Len(taken)
    BY <1>6, <1>9, <1>10, <2>1, <2>2
  <2>3. CASE i = Len(taken) + 1
    BY <1>6, <1>7, <1>9, <2>3
  <2> QED
    BY <1>9, <2>2, <2>3
<1>12. ~options.imu
  BY <1>3 DEF ClockInv
<1> QED
  BY <1>3, <1>5, <1>9, <1>11, <1>12 DEF ClockInv

LEMMA ClockKeyframe ==
  ASSUME BagTyped, ClockInv, NEW inRange \in SUBSET Targets, GenerateKeyframe(inRange)
  PROVE  ClockInv'
<1>1. PICK n, block : KeyframeStep(n, block)
  BY KeyframeSteps
<1>2. PICK W, time, round : /\ W = KeyframeTopics(n) /\ time = KeyframeTime
                            /\ round = RoundOf(W, time, time)
  OBVIOUS
<1>3. /\ producer = "synthetic" /\ keyframeIndex' = keyframeIndex + 1
      /\ UNCHANGED <<producer, options>> /\ taken' = Append(taken, round)
      /\ bag' = bag \o block /\ Part(block, W, RoundMessages)
  BY <1>1, <1>2 DEF GenerateKeyframe, KeyframeStep
<1>4. keyframeIndex \in Nat /\ StartTime \in Nat /\ time \in Nat
      /\ time = StartTime + keyframeIndex * KeyframePeriod
  BY <1>2, TimeTyped DEF KeyframeTime, BagTyped
<1>5. StartTime' = StartTime
  BY <1>3 DEF StartTime
<1>6. KeyframeTime' \in Nat /\ time < KeyframeTime'
  <2>1. KeyframeTime' = StartTime + (keyframeIndex + 1) * KeyframePeriod
    BY <1>3, <1>5 DEF KeyframeTime
  <2>2. (keyframeIndex + 1) * KeyframePeriod \in Nat
    BY <1>4, Numbers, Product
  <2>3. time < StartTime + (keyframeIndex + 1) * KeyframePeriod
    BY <1>4, Numbers, NextTime
  <2> QED
    BY <1>4, <2>1, <2>2, <2>3
<1>7. /\ round \in [written : SUBSET Topics, time : Nat, receive : Int]
      /\ round.written = W /\ round.time = time /\ round.receive = time
  <2>1. W \subseteq Topics
    BY <1>2 DEF KeyframeTopics, Topics, AuditedTopics, TimedTopics, StampedTopics, RawTopics
  <2>2. round \in [written : SUBSET Topics, time : Nat, receive : Int]
    BY <1>2, <1>4, <2>1, RoundTyped
  <2> QED
    BY <1>2, <2>2 DEF RoundOf
<1>8. /\ taken \in Seq([written : SUBSET Topics, time : Nat, receive : Int])
      /\ \A i, j \in 1 .. Len(taken) : i < j => taken[i].time < taken[j].time
      /\ \A i \in 1 .. Len(taken) : taken[i].receive = 0 => taken[i].time = 0
      /\ \A i \in 1 .. Len(taken) : taken[i].time < round.time
      /\ round.receive = 0 => round.time = 0
  BY <1>2, <1>3, <1>7 DEF ClockInv, BagTyped, Recorded
<1>9. /\ Len(taken) \in Nat /\ Len(taken') = Len(taken) + 1
      /\ \A i \in 1 .. Len(taken) : taken'[i] = taken[i]
      /\ taken'[Len(taken) + 1] = round
      /\ \A i \in 1 .. Len(taken') : i \in 1 .. Len(taken) \/ i = Len(taken) + 1
      /\ \A i, j \in 1 .. Len(taken') : i < j => taken'[i].time < taken'[j].time
      /\ \A i \in 1 .. Len(taken') : taken'[i].receive = 0 => taken'[i].time = 0
  BY <1>3, <1>7, <1>8, LaterRound
<1>10. /\ options.imu => "boundary" \in W
       /\ ~options.cameras => "left" \notin W
       /\ "imu" \notin W /\ "depth" \in W
  BY <1>2 DEF KeyframeTopics
<1>11. \A i \in 1 .. Len(taken) : /\ taken[i].time < time /\ taken[i].time \in Nat
                                  /\ options.imu => "boundary" \in taken[i].written
                                  /\ ~options.cameras => "left" \notin taken[i].written
  BY <1>2, <1>3, RoundTimes DEF ClockInv
<1>12. ASSUME NEW i \in 1 .. Len(taken')
       PROVE  /\ taken'[i].time < KeyframeTime'
              /\ options.imu => "boundary" \in taken'[i].written
              /\ ~options.cameras => "left" \notin taken'[i].written
  <2>1. CASE i \in 1 .. Len(taken)
    BY <1>4, <1>6, <1>9, <1>11, <2>1
  <2>2. CASE i = Len(taken) + 1
    BY <1>6, <1>7, <1>9, <1>10, <2>2
  <2> QED
    BY <1>9, <2>1, <2>2
<1>13. taken'[1].time = StartTime
  <2>1. CASE Len(taken) = 0
    <3>1. time = StartTime
      BY <1>3, <1>4, <2>1, Numbers DEF ClockInv
    <3> QED
      BY <1>7, <1>9, <2>1, <3>1
  <2>2. CASE Len(taken) # 0
    <3>1. taken[1].time = StartTime /\ 1 \in 1 .. Len(taken)
      BY <1>3, <1>9, <2>2 DEF ClockInv
    <3> QED
      BY <1>9, <3>1
  <2> QED
    BY <2>1, <2>2
<1>14. /\ Len(bag') # 0
       /\ \A i \in 1 .. Len(bag') : bag'[i].topic = "imu" => bag'[i].motion = Motion(bag'[i].capture)
  <2>1. bag \in Seq(BagMessages) /\ block \in Seq(BagMessages)
    BY <1>3 DEF BagTyped, Part
  <2>2. /\ Len(bag) \in Nat /\ Len(block) \in Nat /\ Len(bag') = Len(bag) + Len(block)
        /\ \A i \in 1 .. Len(bag') :
             \/ i \in 1 .. Len(bag) /\ bag'[i] = bag[i]
             \/ i - Len(bag) \in 1 .. Len(block) /\ bag'[i] = block[i - Len(bag)]
    BY <1>3, <2>1, Joined
  <2>3. (\E i \in 1 .. Len(block) : block[i].topic = "depth")
         /\ \A i \in 1 .. Len(block) : block[i].topic # "imu"
    BY <1>3, <1>10 DEF Part
  <2>4. \A i \in 1 .. Len(bag) : bag[i].topic = "imu" => bag[i].motion = Motion(bag[i].capture)
    BY <1>3 DEF ClockInv
  <2> QED
    BY <2>2, <2>3, <2>4
<1>16. Len(taken') # 0
  BY <1>9
<1> QED
  BY <1>3, <1>5, <1>9, <1>12, <1>13, <1>14, <1>16 DEF ClockInv

LEMMA ClockNext ==
  ASSUME BagTyped, ClockInv, [RecordingNext]_<<recordingVars, vars>>
  PROVE  ClockInv'
<1>1. CASE \E sensors \in TickSets : RecordTick(sensors)
  BY <1>1, ClockTick
<1>2. CASE EndSession
  BY <1>2, ClockKept DEF EndSession, sourceVars
<1>3. CASE WritePrelude
  <2>1. /\ bag' = Prelude /\ bag = <<>> /\ producer = "synthetic"
        /\ UNCHANGED <<producer, options, keyframeIndex, taken>>
    BY <1>3 DEF WritePrelude, Prelude
  <2>2. Len(taken) = 0 /\ 1 .. Len(taken) = {} /\ keyframeIndex = 0
    <3>1. Len(bag) = 0
      BY <2>1
    <3> QED
      BY <2>1, <3>1 DEF ClockInv
  <2>3. \A i \in 1 .. Len(bag') : bag'[i].topic = "imu" => bag'[i].motion = Motion(bag'[i].capture)
    BY <2>1, PreludeMoves
  <2> QED
    BY <2>1, <2>2, <2>3 DEF ClockInv
<1>4. CASE \E inRange \in SUBSET Targets : GenerateKeyframe(inRange)
  BY <1>4, ClockKeyframe
<1>5. CASE CloseSynthetic
  BY <1>5, ClockKept DEF CloseSynthetic, sourceVars
<1>6. CASE \E keyframe \in KeyframeIds \cup {NoId}, obs \in Ids, sourced \in BOOLEAN,
             time \in BoundaryTimes : ScheduleBoundary(keyframe, obs, sourced, time)
  BY <1>6 DEF ScheduleBoundary, ClockInv, Recorded
<1>7. CASE CloseScheduler
  BY <1>7 DEF CloseScheduler, ClockInv, Recorded
<1>8. CASE AuditMessage \/ AuditBag
  BY <1>8, ClockKept DEF AuditMessage, AuditBag, sourceVars
<1>9. CASE OpenBag
  BY <1>9, ClockKept DEF OpenBag, sourceVars
<1>10. CASE UNCHANGED recordingVars
  BY <1>10, ClockKept DEF recordingVars, sourceVars
<1> QED
  BY <1>1, <1>2, <1>3, <1>4, <1>5, <1>6, <1>7, <1>8, <1>9, <1>10
     DEF RecordingNext, ReadMessage, FinishReplay

-----------------------------------------------------------------------------
(***************************************************************************)
(* What the audit reports of a recorded bag.                               *)
(***************************************************************************)
Judged == phase \in {"audited", "replay"}

\* The topics whose messages are all written in rounds.
InRounds(t) == t \in Topics \ {"targets"} /\ (t = "imu" => ~options.imu)

\* When the audit has reported, the statistics are about the whole bag.
LEMMA WholeBag ==
  ASSUME BagTyped, StatsInv, Judged, NEW t \in TimedTopics
  PROVE  /\ Summed(bag, OfTopic(t), headers[t]) /\ Listed(bag, OfTopic("boundary"), ids)
         /\ audit = AuditReport
<1>1. scanned = Len(bag) /\ audit = AuditReport
  BY DEF StatsInv, Judged
<1>2. DOMAIN bag = 1 .. Len(bag)
  BY BagDomain
<1>3. Of(bag, t, scanned) = OfTopic(t) /\ Of(bag, "boundary", scanned) = OfTopic("boundary")
  BY <1>1, <1>2 DEF Of, OfTopic
<1>4. Summed(bag, Of(bag, t, scanned), headers[t])
  BY DEF StatsInv
<1>5. Listed(bag, Of(bag, "boundary", scanned), ids)
  BY DEF StatsInv
<1> QED
  BY <1>1, <1>3, <1>4, <1>5

LEMMA TopicPositions ==
  ASSUME BagTyped, NEW t
  PROVE  /\ OfTopic(t) \subseteq 1 .. Len(bag) /\ OfTopic(t) \subseteq Nat
         /\ IsFiniteSet(OfTopic(t))
         /\ \A i \in OfTopic(t) : /\ bag[i].topic = t /\ bag[i].capture \in Nat
                                  /\ bag[i].receive \in Int
<1>1. OfTopic(t) \in SUBSET (1 .. Len(bag)) /\ IsFiniteSet(1 .. Len(bag))
  BY BagDomain DEF OfTopic
<1>2. IsFiniteSet(OfTopic(t))
  BY <1>1, FS_Subset
<1>3. \A i \in OfTopic(t) : bag[i] \in BagMessages /\ bag[i].topic = t
  BY <1>1, BagDomain DEF OfTopic
<1> QED
  BY <1>1, <1>2, <1>3 DEF BagMessages

\* The messages of a topic and the rounds that wrote one.
LEMMA TopicRounds ==
  ASSUME BagTyped, NEW f, Traced(bag, taken, f), NEW t, InRounds(t)
  PROVE  /\ Rounds(t) \subseteq 1 .. Len(taken)
         /\ \A i \in OfTopic(t) : f[i] \in Rounds(t)
         /\ \A r \in Rounds(t) : \E i \in OfTopic(t) : f[i] = r
         /\ \A i, j \in OfTopic(t) : i < j => f[i] <= f[j]
         /\ t # "sonar" => \A i, j \in OfTopic(t) : f[i] = f[j] => i = j
         /\ t \in StampedTopics =>
              \A i \in OfTopic(t) : /\ bag[i].capture = taken[f[i]].time
                                    /\ bag[i].receive = taken[f[i]].receive
<1>1. OfTopic(t) \subseteq 1 .. Len(bag) /\ \A i \in 1 .. Len(bag) : i \in OfTopic(t) <=> bag[i].topic = t
  BY BagDomain DEF OfTopic
<1>2. Len(taken) \in Nat /\ DOMAIN taken = 1 .. Len(taken)
  BY DEF BagTyped
<1>3. Rounds(t) = {r \in 1 .. Len(taken) : t \in taken[r].written}
  BY <1>2 DEF Rounds
<1>4. \A i \in OfTopic(t) : f[i] \in 1 .. Len(taken) /\ OfRound(bag[i], taken[f[i]])
  <2> TAKE i \in OfTopic(t)
  <2>1. i \in 1 .. Len(bag) /\ bag[i].topic = t
    BY <1>1
  <2>2. f[i] # 0
    BY <2>1 DEF Traced, InRounds
  <2>3. f[i] \in 0 .. Len(taken)
    BY <2>1 DEF Traced
  <2>4. OfRound(bag[i], taken[f[i]])
    BY <2>1, <2>2 DEF Traced
  <2> QED
    BY <1>2, <2>2, <2>3, <2>4
<1>5. \A i \in OfTopic(t) : f[i] \in Rounds(t)
  BY <1>1, <1>3, <1>4 DEF OfRound
<1>6. \A r \in Rounds(t) : \E i \in OfTopic(t) : f[i] = r
  BY <1>1, <1>3 DEF Traced
<1>7. \A i, j \in OfTopic(t) : i < j => f[i] <= f[j]
  BY <1>1 DEF Traced
<1>8. t # "sonar" => \A i, j \in OfTopic(t) : f[i] = f[j] => i = j
  BY <1>1, <1>4 DEF Traced
<1>9. t \in StampedTopics => \A i \in OfTopic(t) : /\ bag[i].capture = taken[f[i]].time
                                                   /\ bag[i].receive = taken[f[i]].receive
  BY <1>1, <1>4 DEF OfRound
<1> QED
  BY <1>3, <1>5, <1>6, <1>7, <1>8, <1>9

\* The capture times of a topic never go back, and where time zero is not the
\* receive time is not zero either.
LEMMA TimesRise ==
  ASSUME BagTyped, ClockInv, Recorded, NEW f, Traced(bag, taken, f),
         NEW t \in StampedTopics, InRounds(t)
  PROVE  /\ \A i, j \in OfTopic(t) : i < j => bag[i].capture <= bag[j].capture
         /\ \A i \in OfTopic(t) : bag[i].receive = 0 => bag[i].capture = 0
         /\ \A i, j \in OfTopic(t) : i < j /\ bag[i].receive # 0 => bag[j].receive # 0
         /\ t # "sonar" => \A i, j \in OfTopic(t) : i < j => bag[i].capture < bag[j].capture
<1>0. /\ \A i \in OfTopic(t) : /\ f[i] \in 1 .. Len(taken) /\ bag[i].capture = taken[f[i]].time
                               /\ bag[i].receive = taken[f[i]].receive
      /\ \A i, j \in OfTopic(t) : i < j => f[i] <= f[j]
      /\ t # "sonar" => \A i, j \in OfTopic(t) : f[i] = f[j] => i = j
  BY TopicRounds
<1>1. /\ \A r, s \in 1 .. Len(taken) : r < s => taken[r].time < taken[s].time
      /\ \A r \in 1 .. Len(taken) : taken[r].receive = 0 => taken[r].time = 0
  BY DEF ClockInv
<1>2. \A r \in 1 .. Len(taken) : taken[r].time \in Nat /\ taken[r].receive \in Int
  BY RoundTimes
<1>3. ASSUME NEW i \in OfTopic(t), NEW j \in OfTopic(t), i < j
      PROVE  \/ f[i] = f[j] /\ bag[i].capture = bag[j].capture /\ bag[i].receive = bag[j].receive
             \/ f[i] < f[j] /\ bag[i].capture < bag[j].capture
  <2>1. f[i] <= f[j] /\ f[i] \in Int /\ f[j] \in Int
    BY <1>0, <1>3
  <2>2. CASE f[i] = f[j]
    BY <1>0, <2>2
  <2>3. CASE f[i] < f[j]
    BY <1>0, <1>1, <2>3
  <2> QED
    BY <2>1, <2>2, <2>3
<1>4. \A i \in OfTopic(t) : /\ bag[i].receive = 0 => bag[i].capture = 0
                            /\ bag[i].capture \in Nat /\ i \in Nat
  BY <1>0, <1>1, TopicPositions
<1>5. ASSUME NEW i \in OfTopic(t), NEW j \in OfTopic(t), i < j
      PROVE  /\ bag[i].capture <= bag[j].capture
             /\ bag[i].receive # 0 => bag[j].receive # 0
             /\ t # "sonar" => bag[i].capture < bag[j].capture
  <2>1. CASE f[i] = f[j] /\ bag[i].capture = bag[j].capture /\ bag[i].receive = bag[j].receive
    <3>1. i # j
      BY <1>4, <1>5
    <3> QED
      BY <1>0, <1>4, <2>1, <3>1
  <2>2. CASE f[i] < f[j] /\ bag[i].capture < bag[j].capture
    <3>1. bag[j].capture # 0
      BY <1>4, <2>2
    <3>2. bag[j].receive # 0
      BY <1>4, <3>1
    <3> QED
      BY <1>4, <2>2, <3>2
  <2> QED
    BY <1>3, <1>5, <2>1, <2>2
<1> QED
  BY <1>4, <1>5

\* A stream is at fault when it only holds time zero, or when the wall clock
\* went back between two of its rounds.
LEMMA TimeJudged ==
  ASSUME BagTyped, StatsInv, ClockInv, Recorded, Judged, NEW f, Traced(bag, taken, f),
         NEW t \in StampedTopics, InRounds(t)
  PROVE  TimeFault(headers[t]) <=>
           /\ Rounds(t) # {}
           /\ \/ \A i \in Rounds(t) : taken[i].time = 0
              \/ \E i, j \in Rounds(t) : i < j /\ taken[j].receive < taken[i].receive
<1> DEFINE P == OfTopic(t)
           s == headers[t]
<1>1. Summed(bag, P, s)
  BY WholeBag DEF TimedTopics
<1>2. s.count > 0 <=> P # {}
  BY <1>1, CountPositive
<1>3. /\ \A i \in P : f[i] \in Rounds(t) /\ bag[i].capture = taken[f[i]].time
                                         /\ bag[i].receive = taken[f[i]].receive
      /\ \A r \in Rounds(t) : \E i \in P : f[i] = r
      /\ \A i, j \in P : i < j => f[i] <= f[j]
      /\ Rounds(t) \subseteq 1 .. Len(taken)
  BY TopicRounds
<1>4. /\ \A i, j \in P : i < j => bag[i].capture <= bag[j].capture
      /\ \A i \in P : bag[i].receive = 0 => bag[i].capture = 0
      /\ \A i, j \in P : i < j /\ bag[i].receive # 0 => bag[j].receive # 0
  BY TimesRise
<1>5. \A i \in P : i \in Nat /\ bag[i].capture \in Nat /\ bag[i].receive \in Int
  BY TopicPositions
<1>6. ~s.mixed /\ s.captureMonotonic
  <2>1. \A i, j \in P : i < j /\ bag[i].capture # 0 => bag[j].capture # 0
    BY <1>4, <1>5
  <2> QED
    BY <1>1, <1>4, <2>1 DEF Summed, Mixes, Ordered
<1>7. ~s.captureEver <=> \A r \in Rounds(t) : taken[r].time = 0
  BY <1>1, <1>3 DEF Summed, Ever
<1>8. ~s.receiveEver => ~s.captureEver
  BY <1>1, <1>4 DEF Summed, Ever
<1>9. ~s.receiveMonotonic <=> \E i, j \in Rounds(t) : i < j /\ taken[j].receive < taken[i].receive
  <2>1. ~s.receiveMonotonic <=> \E i, j \in P : i < j /\ bag[j].receive < bag[i].receive
    <3>1. s.receiveMonotonic <=> \A i, j \in P : i < j => bag[i].receive <= bag[j].receive
      BY <1>1 DEF Summed, Ordered
    <3> QED
      BY <1>5, <3>1
  <2>2. ASSUME NEW i \in P, NEW j \in P, i < j, bag[j].receive < bag[i].receive
        PROVE  f[i] \in Rounds(t) /\ f[j] \in Rounds(t) /\ f[i] < f[j]
                 /\ taken[f[j]].receive < taken[f[i]].receive
    <3>1. /\ f[i] \in Rounds(t) /\ f[j] \in Rounds(t) /\ f[i] <= f[j]
          /\ taken[f[j]].receive < taken[f[i]].receive
      BY <1>3, <2>2
    <3>2. f[i] # f[j]
      BY <1>5, <1>3, <2>2
    <3>3. f[i] \in Int /\ f[j] \in Int
      BY <1>3, <3>1
    <3> QED
      BY <3>1, <3>2, <3>3
  <2>3. ASSUME NEW q \in Rounds(t), NEW r \in Rounds(t), q < r, taken[r].receive < taken[q].receive
        PROVE  \E i, j \in P : i < j /\ bag[j].receive < bag[i].receive
    <3>1. PICK i \in P : f[i] = q
      BY <1>3
    <3>2. PICK j \in P : f[j] = r
      BY <1>3
    <3>3. q \in Int /\ r \in Int
      BY <1>3
    <3>4. ~(j < i) /\ i # j
      BY <1>3, <2>3, <3>1, <3>2, <3>3
    <3>5. i < j
      BY <1>5, <3>4
    <3> QED
      BY <1>3, <2>3, <3>1, <3>2, <3>5
  <2> QED
    BY <2>1, <2>2, <2>3
<1>10. P # {} <=> Rounds(t) # {}
  BY <1>3
<1>11. TimeFault(s) <=> /\ s.count > 0
                        /\ \/ s.mixed
                           \/ ~s.captureEver \/ ~s.captureMonotonic
                           \/ ~s.receiveEver \/ ~s.receiveMonotonic
  BY DEF TimeFault
<1> HIDE DEF s, P
<1>12. TimeFault(s) <=> Rounds(t) # {} /\ (~s.captureEver \/ ~s.receiveMonotonic)
  BY <1>2, <1>6, <1>8, <1>10, <1>11
<1>13. TimeFault(s) <=> /\ Rounds(t) # {}
                        /\ \/ \A i \in Rounds(t) : taken[i].time = 0
                           \/ \E i, j \in Rounds(t) : i < j /\ taken[j].receive < taken[i].receive
  BY <1>7, <1>9, <1>12
<1> QED
  BY <1>13 DEF s

\* A round writes one message of a topic, pings apart.
LEMMA TopicCounted ==
  ASSUME BagTyped, NEW f, Traced(bag, taken, f), NEW t, InRounds(t), t # "sonar"
  PROVE  /\ IsFiniteSet(Rounds(t)) /\ Cardinality(OfTopic(t)) = Cardinality(Rounds(t))
         /\ OfTopic(t) # {} <=> Rounds(t) # {}
<1>1. PICK g : g = [i \in OfTopic(t) |-> f[i]]
  OBVIOUS
<1>2. /\ \A i \in OfTopic(t) : f[i] \in Rounds(t)
      /\ \A r \in Rounds(t) : \E i \in OfTopic(t) : f[i] = r
      /\ \A i, j \in OfTopic(t) : f[i] = f[j] => i = j
  BY TopicRounds
<1>3. g \in [OfTopic(t) -> Rounds(t)]
  BY <1>1, <1>2
<1>4. g \in Surjection(OfTopic(t), Rounds(t))
  BY <1>1, <1>2, <1>3 DEF Surjection
<1>5. g \in Injection(OfTopic(t), Rounds(t))
  BY <1>1, <1>2, <1>3 DEF Injection, IsInjective
<1>6. IsFiniteSet(OfTopic(t))
  BY TopicPositions
<1>7. IsFiniteSet(Rounds(t)) /\ Cardinality(Rounds(t)) = Cardinality(OfTopic(t))
  BY <1>4, <1>5, <1>6, FS_Surjection
<1> QED
  BY <1>2, <1>7

\* Where left images were recorded, a pose or a depth reading with the id of a
\* keyframe has one beside it.
LEMMA KeyedBesideLeft ==
  ASSUME BagTyped, ClockInv, NEW f, Traced(bag, taken, f), OfTopic("left") # {},
         NEW t \in {"gt", "depth"}
  PROVE  Cardinality(KeyframeKeyed(t)) <= Cardinality(OfTopic("left"))
<1> DEFINE K == KeyframeKeyed(t)
           L == Rounds("left")
<1>0. InRounds("left") /\ InRounds(t) /\ t # "sonar" /\ "left" # "sonar"
  BY DEF InRounds, Topics, AuditedTopics, TimedTopics, StampedTopics, RawTopics
<1>1. IsFiniteSet(L) /\ Cardinality(OfTopic("left")) = Cardinality(L) /\ L # {}
  BY <1>0, TopicCounted
<1>2. ~Blind
  <2>1. PICK r \in L : TRUE
    BY <1>1
  <2>2. r \in 1 .. Len(taken) /\ "left" \in taken[r].written
    BY <2>1 DEF Rounds, BagTyped
  <2> QED
    BY <2>2 DEF Blind, ClockInv
<1>3. K \subseteq OfTopic(t) /\ \A i \in K : IsKeyframeKeyed(bag[i])
  BY DEF KeyframeKeyed
<1>4. \A i \in OfTopic(t) : i \in 1 .. Len(bag) /\ bag[i].topic = t
  BY TopicPositions
<1>5. ASSUME NEW i \in K PROVE f[i] \in L
  <2>1. f[i] \in Rounds(t) /\ Rounds(t) \subseteq 1 .. Len(taken)
    BY <1>0, <1>3, TopicRounds
  <2>2. OfRound(bag[i], taken[f[i]])
    BY <1>3, <1>4, <2>1 DEF Traced
  <2>3. "left" \in taken[f[i]].written
    BY <1>2, <1>3, <1>4, <2>2 DEF OfRound
  <2> QED
    BY <2>1, <2>3 DEF Rounds, BagTyped
<1>6. \A i, j \in K : f[i] = f[j] => i = j
  BY <1>0, <1>3, TopicRounds
<1>7. PICK g : g = [i \in K |-> f[i]]
  OBVIOUS
<1>8. g \in Injection(K, L)
  BY <1>5, <1>6, <1>7 DEF Injection, IsInjective
<1>9. Cardinality(K) <= Cardinality(L)
  BY <1>1, <1>8, FS_Injection
<1> QED
  BY <1>1, <1>9

\* The boundaries of a producer are never at fault.
LEMMA BoundariesFaultless ==
  ASSUME BagTyped, StatsInv, ClockInv, Recorded, ProducedInv, Judged, NEW f, Traced(bag, taken, f)
  PROVE  BoundaryFaults = {}
<1> DEFINE P == OfTopic("boundary")
<1>0. "boundary" \in StampedTopics /\ "boundary" \in TimedTopics /\ InRounds("boundary")
  BY DEF InRounds, Topics, AuditedTopics, TimedTopics, StampedTopics
<1>1. Summed(bag, P, headers["boundary"]) /\ Listed(bag, P, ids)
  BY <1>0, WholeBag
<1>2. \A i \in P : i \in 1 .. Len(bag) /\ bag[i].topic = "boundary"
  BY TopicPositions
<1>3. /\ \A i \in P : bag[i].keyframe # NoId /\ bag[i].sourced
      /\ \A i, j \in P : i # j => bag[i].keyframe # bag[j].keyframe
  BY <1>2 DEF ProducedInv, BoundariesApart
<1>4. ~ids.empty /\ ids.unique /\ ~ids.sourceless
  BY <1>1, <1>3 DEF Listed
<1>5. \A i, j \in P : i < j => bag[i].capture < bag[j].capture
  BY <1>0, TimesRise
<1>6. headers["boundary"].strictly
  BY <1>1, <1>5 DEF Summed, Ordered
<1> QED
  BY <1>4, <1>6 DEF BoundaryFaults

\* The pre-roll the audit measures is the time at rest.
LEMMA PreRollAtRest ==
  ASSUME BagTyped, StatsInv, ClockInv, Judged, NEW f, Traced(bag, taken, f), Recorded,
         options.imu, Rounds("boundary") # {}, NumKeyframes > 1
  PROVE  PreRollSamples = {i \in OfTopic("imu") : bag[i].motion = "rest"}
<1> DEFINE P == OfTopic("boundary")
           s == headers["boundary"]
<1>0. "boundary" \in StampedTopics /\ "boundary" \in TimedTopics /\ InRounds("boundary")
      /\ "boundary" # "sonar"
  BY DEF InRounds, Topics, AuditedTopics, TimedTopics, StampedTopics
<1>1. Summed(bag, P, s) /\ P # {}
  BY <1>0, WholeBag, TopicCounted
<1>2. PICK k \in P : (\A i \in P : k <= i) /\ s.first = bag[k].capture
  BY <1>1 DEF Summed, Ends
<1>3. /\ \A i \in P : f[i] \in Rounds("boundary") /\ bag[i].capture = taken[f[i]].time
      /\ \A r \in Rounds("boundary") : \E i \in P : f[i] = r
      /\ \A i, j \in P : i < j => f[i] <= f[j]
      /\ Rounds("boundary") \subseteq 1 .. Len(taken)
  BY <1>0, TopicRounds
<1>4. producer = "synthetic"
  BY DEF ClockInv
<1>5. f[k] = 1 /\ Len(taken) > 0
  <2>1. f[k] \in 1 .. Len(taken) /\ Len(taken) \in Nat
    BY <1>2, <1>3 DEF BagTyped
  <2>2. 1 \in 1 .. Len(taken)
    BY <2>1
  <2>3. 1 \in Rounds("boundary")
    BY <1>4, <2>2 DEF ClockInv, Rounds, BagTyped
  <2>4. PICK i \in P : f[i] = 1
    BY <1>3, <2>3
  <2>5. k \in Nat /\ i \in Nat /\ k <= i
    BY <1>2, TopicPositions
  <2>6. f[k] <= 1
    BY <1>2, <1>3, <2>4, <2>5
  <2> QED
    BY <2>1, <2>6
<1>6. s.first = PreRoll /\ bag[k].capture = PreRoll
  BY <1>2, <1>3, <1>4, <1>5 DEF ClockInv, StartTime
<1>7. PreRoll \in Nat /\ PreRoll # 0
  BY RecordingAssumption
<1>8. s.captureEver
  BY <1>1, <1>2, <1>6, <1>7 DEF Summed, Ever
<1>9. ASSUME NEW i \in OfTopic("imu")
      PROVE  bag[i].capture <= PreRoll <=> bag[i].motion = "rest"
  <2>1. i \in 1 .. Len(bag) /\ bag[i].topic = "imu"
    BY TopicPositions
  <2>2. bag[i].motion = Motion(bag[i].capture)
    BY <1>4, <2>1 DEF ClockInv
  <2>3. NumKeyframes # 1
    BY Numbers
  <2> QED
    BY <2>2, <2>3 DEF Motion
<1> QED
  BY <1>6, <1>8, <1>9 DEF PreRollSamples

\* Each set of faults has a tag of its own.
LEMMA FaultTags ==
  /\ \A x \in PresenceFaults : x[1] = "missing"
  /\ \A x \in PairingFaults : x[1] = "pairing"
  /\ \A x \in KeyedFaults : x[1] = "keyed"
  /\ \A x \in TimeFaults : x[1] = "time"
  /\ \A x \in FrameFaults : x[1] = "frame"
BY DEF PresenceFaults, PairingFaults, KeyedFaults, TimeFaults, FrameFaults

LEMMA ReportedFaults ==
  AuditReport.faults = PresenceFaults \cup PairingFaults \cup KeyedFaults
                         \cup {<<"boundary", fault>> : fault \in BoundaryFaults}
                         \cup TimeFaults \cup FrameFaults
BY DEF AuditReport

LEMMA TagsOfReport ==
  /\ \A x \in AuditReport.faults : x[1] = "keyed" => x \in KeyedFaults
  /\ (\E x \in AuditReport.faults : x[1] = "boundary") <=> BoundaryFaults # {}
  /\ \A y : <<"pairing", y>> \in AuditReport.faults <=> <<"pairing", y>> \in PairingFaults
  /\ \A y : <<"time", y>> \in AuditReport.faults <=> <<"time", y>> \in TimeFaults
  /\ \A y : <<"missing", y>> \in AuditReport.faults <=> <<"missing", y>> \in PresenceFaults
  /\ \A y : <<"boundary", y>> \in AuditReport.faults <=> y \in BoundaryFaults
<1>1. \A x \in {<<"boundary", fault>> : fault \in BoundaryFaults} : x[1] = "boundary"
  OBVIOUS
<1>2. \A y : <<"pairing", y>>[1] = "pairing" /\ <<"time", y>>[1] = "time"
  OBVIOUS
<1>3. \A x \in AuditReport.faults : x[1] = "keyed" => x \in KeyedFaults
  BY <1>1, FaultTags, ReportedFaults
<1>4. (\E x \in AuditReport.faults : x[1] = "boundary") <=> BoundaryFaults # {}
  <2>1. ASSUME NEW x \in AuditReport.faults, x[1] = "boundary" PROVE BoundaryFaults # {}
    <3>1. x \in {<<"boundary", fault>> : fault \in BoundaryFaults}
      BY <2>1, FaultTags, ReportedFaults
    <3> QED
      BY <3>1
  <2>2. ASSUME NEW fault \in BoundaryFaults
        PROVE  <<"boundary", fault>> \in AuditReport.faults /\ <<"boundary", fault>>[1] = "boundary"
    BY <2>2, ReportedFaults
  <2> QED
    BY <2>1, <2>2
<1>5. \A y : <<"pairing", y>> \in AuditReport.faults <=> <<"pairing", y>> \in PairingFaults
  <2> TAKE y
  <2>1. PICK x : x = <<"pairing", y>>
    OBVIOUS
  <2>2. x[1] = "pairing"
    BY <2>1
  <2>3. x \in AuditReport.faults <=> x \in PairingFaults
    BY <1>1, <2>2, FaultTags, ReportedFaults
  <2> QED
    BY <2>1, <2>3
<1>6. \A y : <<"time", y>> \in AuditReport.faults <=> <<"time", y>> \in TimeFaults
  <2> TAKE y
  <2>1. PICK x : x = <<"time", y>>
    OBVIOUS
  <2>2. x[1] = "time"
    BY <2>1
  <2>3. x \in AuditReport.faults <=> x \in TimeFaults
    BY <1>1, <2>2, FaultTags, ReportedFaults
  <2> QED
    BY <2>1, <2>3
<1>7. \A y : <<"missing", y>> \in AuditReport.faults <=> <<"missing", y>> \in PresenceFaults
  <2> TAKE y
  <2>1. PICK x : x = <<"missing", y>>
    OBVIOUS
  <2>2. x[1] = "missing"
    BY <2>1
  <2>3. x \in AuditReport.faults <=> x \in PresenceFaults
    BY <1>1, <2>2, FaultTags, ReportedFaults
  <2> QED
    BY <2>1, <2>3
<1>8. \A y : <<"boundary", y>> \in AuditReport.faults <=> y \in BoundaryFaults
  <2> TAKE y
  <2>1. PICK x : x = <<"boundary", y>>
    OBVIOUS
  <2>2. x[1] = "boundary"
    BY <2>1
  <2>3. x \in AuditReport.faults <=> x \in {<<"boundary", fault>> : fault \in BoundaryFaults}
    BY <2>2, FaultTags, ReportedFaults
  <2>4. \A fault : x = <<"boundary", fault>> <=> y = fault
    BY <2>1
  <2> QED
    BY <2>1, <2>3, <2>4
<1> QED
  BY <1>3, <1>4, <1>5, <1>6, <1>7, <1>8

LEMMA FaultsMeant ==
  /\ \A t \in StampedTopics : <<"time", t>> \in TimeFaults <=> TimeFault(headers[t])
  /\ <<"pairing", "left">> \in PairingFaults <=>
       HasStereo /\ headers["left"].count # headers["right"].count
  /\ KeyedFaults # {} =>
       \E t \in {"gt", "depth"} : HasStereo /\ Cardinality(KeyframeKeyed(t)) > headers["left"].count
  /\ \A t \in AuditedTopics :
       <<"missing", t>> \in PresenceFaults <=> t \in Required /\ OfTopic(t) = {}
<1>1. ASSUME NEW t \in StampedTopics PROVE <<"time", t>> \in TimeFaults <=> TimeFault(headers[t])
  <2>1. t \in TimedTopics /\ t # "gt"
    BY DEF TimedTopics, StampedTopics, RawTopics
  <2>2. \A u : <<"time", u>> = <<"time", t>> <=> u = t
    OBVIOUS
  <2>3. <<"time", t>> \in TimeFaults <=>
          t \in {u \in TimedTopics : IF u = "gt" THEN ~headers[u].captureMonotonic
                                     ELSE TimeFault(headers[u])}
    BY <2>2 DEF TimeFaults
  <2> QED
    BY <2>1, <2>3
<1>2. <<"pairing", "left">> \in PairingFaults <=>
        HasStereo /\ headers["left"].count # headers["right"].count
  BY DEF PairingFaults
<1>3. KeyedFaults # {} =>
        \E t \in {"gt", "depth"} : HasStereo /\ Cardinality(KeyframeKeyed(t)) > headers["left"].count
  BY DEF KeyedFaults
<1>4. ASSUME NEW t \in AuditedTopics
      PROVE  <<"missing", t>> \in PresenceFaults <=> t \in Required /\ OfTopic(t) = {}
  <2>1. \A u : <<"missing", u>> = <<"missing", t>> <=> u = t
    OBVIOUS
  <2>2. <<"missing", t>> \in PresenceFaults <=>
          t \in {r \in Required \cap AuditedTopics : OfTopic(r) = {}}
    BY <2>1 DEF PresenceFaults
  <2> QED
    BY <2>2
<1> QED
  BY <1>1, <1>2, <1>3, <1>4

-----------------------------------------------------------------------------
\* All there is to know of the audit.
AuditedInv == StatsInv /\ RoundsInv /\ ClockInv

LEMMA AuditedInvariance == RecordingSpec => []AuditedInv
<1>1. RecordingInit => AuditedInv
  BY StatsInit, RoundsInit, ClockInit DEF AuditedInv
<1>2. RecordingInv /\ AuditedInv /\ [RecordingNext]_<<recordingVars, vars>> => AuditedInv'
  <2> SUFFICES ASSUME BagTyped, StatsInv, RoundsInv, ClockInv,
                      [RecordingNext]_<<recordingVars, vars>>
               PROVE  StatsInv' /\ RoundsInv' /\ ClockInv'
    BY DEF RecordingInv, AuditedInv
  <2> QED
    BY StatsNext, RoundsNext, ClockNext
<1> QED
  BY <1>1, <1>2, RecordingInvariance, PTL DEF RecordingSpec

LEMMA AuditEnough ==
  BagTyped /\ AuditedInv /\ ProducedInv => AuditJudgesSession
<1> SUFFICES ASSUME BagTyped, StatsInv, RoundsInv, ClockInv, ProducedInv, Recorded, Judged
             PROVE
     /\ \A topic \in StampedTopics \ (IF options.imu THEN {"imu"} ELSE {}) :
          <<"time", topic>> \in audit.faults <=>
             /\ Rounds(topic) # {}
             /\ \/ \A i \in Rounds(topic) : taken[i].time = 0
                \/ \E i, j \in Rounds(topic) : i < j /\ taken[j].receive < taken[i].receive
     /\ \A topic \in AuditedTopics \ (IF options.imu THEN {"imu"} ELSE {}) :
          <<"missing", topic>> \in audit.faults <=> topic \in Required /\ Rounds(topic) = {}
     /\ Rounds("left") # {} /\ Rounds("right") # {} =>
          (<<"pairing", "left">> \in audit.faults <=>
             Cardinality(Rounds("left")) # Cardinality(Rounds("right")))
     /\ \A fault \in audit.faults : fault[1] \notin {"keyed", "boundary"}
     /\ options.imu /\ Rounds("boundary") # {} /\ NumKeyframes > 1 =>
          audit.preRoll = Cardinality({i \in OfTopic("imu") : bag[i].motion = "rest"})
  BY DEF AuditJudgesSession, AuditedInv, Judged
<1>1. PICK f : Traced(bag, taken, f)
  BY DEF RoundsInv
<1>2. audit = AuditReport
  BY DEF StatsInv, Judged
<1>3. ASSUME NEW topic \in StampedTopics \ (IF options.imu THEN {"imu"} ELSE {})
      PROVE  <<"time", topic>> \in audit.faults <=>
               /\ Rounds(topic) # {}
               /\ \/ \A i \in Rounds(topic) : taken[i].time = 0
                  \/ \E i, j \in Rounds(topic) : i < j /\ taken[j].receive < taken[i].receive
  <2>1. topic \in StampedTopics /\ (topic = "imu" => ~options.imu)
    OBVIOUS
  <2>2. InRounds(topic)
    BY <2>1 DEF InRounds, Topics, AuditedTopics, TimedTopics, StampedTopics, RawTopics
  <2>3. <<"time", topic>> \in audit.faults <=> TimeFault(headers[topic])
    BY <1>2, <2>1, TagsOfReport, FaultsMeant
  <2>4. TimeFault(headers[topic]) <=>
               /\ Rounds(topic) # {}
               /\ \/ \A i \in Rounds(topic) : taken[i].time = 0
                  \/ \E i, j \in Rounds(topic) : i < j /\ taken[j].receive < taken[i].receive
    BY <1>1, <2>1, <2>2, TimeJudged
  <2> QED
    BY <2>3, <2>4
<1>4. \A t \in {"left", "right"} : /\ headers[t].count = Cardinality(OfTopic(t))
                                   /\ headers[t].count > 0 <=> OfTopic(t) # {}
                                   /\ Cardinality(OfTopic(t)) = Cardinality(Rounds(t))
                                   /\ OfTopic(t) # {} <=> Rounds(t) # {}
  <2> TAKE t \in {"left", "right"}
  <2>1. InRounds(t) /\ t # "sonar" /\ t \in TimedTopics
    BY DEF InRounds, Topics, AuditedTopics, TimedTopics, StampedTopics, RawTopics
  <2>2. Summed(bag, OfTopic(t), headers[t])
    BY <2>1, WholeBag
  <2>3. headers[t].count > 0 <=> OfTopic(t) # {}
    BY <2>2, CountPositive
  <2>4. headers[t].count = Cardinality(OfTopic(t))
    BY <2>2 DEF Summed
  <2> QED
    BY <1>1, <2>1, <2>3, <2>4, TopicCounted
<1>5. ASSUME Rounds("left") # {}, Rounds("right") # {}
      PROVE  <<"pairing", "left">> \in audit.faults <=>
               Cardinality(Rounds("left")) # Cardinality(Rounds("right"))
  <2>1. <<"pairing", "left">> \in audit.faults <=> <<"pairing", "left">> \in PairingFaults
    BY <1>2, TagsOfReport
  <2>2. <<"pairing", "left">> \in PairingFaults <=>
          HasStereo /\ headers["left"].count # headers["right"].count
    BY FaultsMeant
  <2> QED
    BY <1>4, <1>5, <2>1, <2>2 DEF HasStereo
<1>6. KeyedFaults = {}
  <2> SUFFICES ASSUME KeyedFaults # {} PROVE FALSE
    OBVIOUS
  <2>1. PICK t \in {"gt", "depth"} : HasStereo /\ Cardinality(KeyframeKeyed(t)) > headers["left"].count
    BY FaultsMeant
  <2>2. OfTopic("left") # {} /\ headers["left"].count = Cardinality(OfTopic("left"))
    BY <1>4, <2>1 DEF HasStereo
  <2>3. Cardinality(KeyframeKeyed(t)) <= Cardinality(OfTopic("left"))
    BY <1>1, <2>2, KeyedBesideLeft
  <2>4. Cardinality(OfTopic("left")) \in Nat /\ Cardinality(KeyframeKeyed(t)) \in Nat
    <3>1. IsFiniteSet(OfTopic("left")) /\ IsFiniteSet(OfTopic(t))
      BY TopicPositions
    <3>2. IsFiniteSet(KeyframeKeyed(t))
      BY <3>1, FS_Subset DEF KeyframeKeyed
    <3> QED
      BY <3>1, <3>2, FS_CardinalityType
  <2> QED
    BY <2>1, <2>2, <2>3, <2>4
<1>7. \A fault \in audit.faults : fault[1] \notin {"keyed", "boundary"}
  BY <1>1, <1>2, <1>6, TagsOfReport, BoundariesFaultless
<1>8. ASSUME options.imu, Rounds("boundary") # {}, NumKeyframes > 1
      PROVE  audit.preRoll = Cardinality({i \in OfTopic("imu") : bag[i].motion = "rest"})
  <2>1. audit.preRoll = Cardinality(PreRollSamples)
    BY <1>2 DEF AuditReport
  <2> QED
    BY <1>1, <1>8, <2>1, PreRollAtRest
<1>9. ASSUME NEW topic \in AuditedTopics \ (IF options.imu THEN {"imu"} ELSE {})
      PROVE  <<"missing", topic>> \in audit.faults <=> topic \in Required /\ Rounds(topic) = {}
  <2>1. topic \in AuditedTopics /\ (topic = "imu" => ~options.imu)
    OBVIOUS
  <2>2. InRounds(topic)
    BY <2>1 DEF InRounds, Topics, AuditedTopics, TimedTopics, StampedTopics, RawTopics
  <2>3. OfTopic(topic) # {} <=> Rounds(topic) # {}
    BY <1>1, <2>2, TopicRounds
  <2> QED
    BY <1>2, <2>1, <2>3, TagsOfReport, FaultsMeant
<1> QED
  BY <1>3, <1>5, <1>7, <1>8, <1>9

\* Whatever a producer recorded, for any number of messages, sensors and clock
\* steps: bag_audit faults a stream exactly when the stream only holds time
\* zero or the wall clock went back between two of its rounds, two cameras that
\* were both recorded exactly when not equally often, and a required topic
\* exactly when no round wrote it; it never faults the ids of poses, depth
\* readings and boundaries, and the pre-roll it measures is the time at rest
\* of a vehicle that is then moved. (bag_audit.cpp, bag_audit_checks.cpp)
THEOREM SessionsJudged == RecordingSpec => []AuditJudgesSession
<1>1. RecordingInv /\ AuditedInv => AuditJudgesSession
  BY AuditEnough DEF RecordingInv
<1> QED
  BY <1>1, RecordingInvariance, AuditedInvariance, PTL

-----------------------------------------------------------------------------
(***************************************************************************)
(* The boundaries of an external scheduler: what bag_audit makes of them   *)
(* and what the ingress makes of them.                                     *)
(***************************************************************************)
Scheduled(b) == \A i \in 1 .. Len(b) : b[i].topic = "boundary"

\* A scheduled bag holds boundaries only, so that the ingress is handed every
\* message of it, in the order of the reader.
SchedulerInv ==
  producer = "scheduler" =>
     /\ Scheduled(bag)
     /\ Len(history) = report.seen
     /\ \A h \in 1 .. Len(history) : history[h] = Seen(h)

LEMMA SchedulerInit == RecordingInit => SchedulerInv
<1> SUFFICES ASSUME RecordingInit PROVE SchedulerInv
  OBVIOUS
<1>1. bag = <<>> /\ history = <<>> /\ report.seen = 0
  BY DEF RecordingInit, Init
<1>2. 1 .. Len(bag) = {} /\ 1 .. Len(history) = {} /\ Len(history) = 0
  BY <1>1
<1> QED
  BY <1>1, <1>2 DEF SchedulerInv, Scheduled

\* The scheduler writes one more boundary.
LEMMA SchedulerWrites ==
  ASSUME BagTyped, ReadInv, SchedulerInv, NEW keyframe \in KeyframeIds \cup {NoId}, NEW obs,
         NEW sourced \in BOOLEAN, NEW time \in BoundaryTimes,
         ScheduleBoundary(keyframe, obs, sourced, time)
  PROVE  SchedulerInv'
<1>1. PICK log \in {Len(bag), time} :
        bag' = Append(bag, BoundaryAt(keyframe, obs, sourced, time, log))
  BY DEF ScheduleBoundary, BoundaryAt
<1> DEFINE m == BoundaryAt(keyframe, obs, sourced, time, log)
<1>2. m \in BagMessages /\ m.topic = "boundary"
  <2>1. obs \in GivenIds
    BY DEF ScheduleBoundary, GivenIds
  <2> QED
    BY <2>1, ScheduledTyped
<1> HIDE DEF m
<1>3. /\ Len(bag') = Len(bag) + 1 /\ \A i \in 1 .. Len(bag) : bag'[i] = bag[i]
      /\ bag'[Len(bag) + 1] = m /\ Len(bag) \in Nat
  BY <1>1, <1>2, Appended DEF m, BagTyped
<1>4. producer = "scheduler" /\ phase # "replay" /\ UNCHANGED <<report, history>>
  BY DEF ScheduleBoundary, vars
<1>5. Scheduled(bag')
  <2> SUFFICES ASSUME NEW i \in 1 .. Len(bag') PROVE bag'[i].topic = "boundary"
    BY DEF Scheduled
  <2>1. CASE i \in 1 .. Len(bag)
    BY <1>3, <1>4, <2>1 DEF SchedulerInv, Scheduled
  <2>2. CASE i = Len(bag) + 1
    BY <1>2, <1>3, <2>2
  <2> QED
    BY <1>3, <2>1, <2>2
<1>6. report'.seen = 0 /\ Len(history') = 0 /\ 1 .. Len(history') = {}
  BY <1>4 DEF ReadInv
<1> QED
  BY <1>5, <1>6 DEF SchedulerInv, Scheduled

\* The ingress is handed one more boundary.
LEMMA SchedulerRead ==
  ASSUME BagTyped, WordInv, IInv, ReadInv, SchedulerInv, ReadMessage
  PROVE  SchedulerInv'
<1> SUFFICES ASSUME producer = "scheduler" PROVE SchedulerInv'
  BY DEF ReadMessage, recordingVars, SchedulerInv
<1> DEFINE n == report.seen + 1
           e == Seen(n)
           log == bag[order[n]].log
<1>1. /\ ReadsAll(order) /\ report.seen \in Nat /\ Len(bag) \in Nat /\ n \in 1 .. Len(bag)
      /\ Skip(e) \/ Emit(e, log)
      /\ Scheduled(bag) /\ Len(history) = report.seen
      /\ \A h \in 1 .. Len(history) : history[h] = Seen(h)
  <2>1. report.seen \in Nat /\ Len(bag) \in Nat /\ report.seen < Len(bag) /\ phase = "replay"
    BY BagDomain DEF IInv, TypeOK, ReadMessage
  <2>2. Skip(e) \/ Emit(e, log)
    BY DEF ReadMessage, Seen
  <2> QED
    BY <2>1, <2>2 DEF ReadInv, SchedulerInv
<1>2. UNCHANGED <<producer, bag, order>>
  BY DEF ReadMessage, recordingVars
<1>3. order[n] \in 1 .. Len(bag) /\ EventFacts(bag[order[n]], e) /\ e \in AnyMessages
  BY <1>1, SeenFacts
<1>4. bag[order[n]].topic = "boundary"
  BY <1>1, <1>3 DEF Scheduled
<1> HIDE DEF e, log
<1>5. e.kind \notin SkippedKinds
  BY <1>3, <1>4 DEF EventFacts
<1>6. /\ report' = [report EXCEPT !.seen = @ + 1, !.emitted = @ + 1]
      /\ history' = Append(history, e)
  BY <1>1, <1>5 DEF Skip, Emit
<1>7. history \in Seq(AnyMessages) /\ report \in [seen : Nat, emitted : Nat, unknown : Nat, unparsed : Nat]
  BY DEF IInv, TypeOK, AnyMessages
<1>8. report'.seen = n
  BY <1>6, <1>7
<1>9. /\ Len(history') = Len(history) + 1 /\ Len(history) \in Nat
      /\ \A h \in 1 .. Len(history) : history'[h] = history[h]
      /\ history'[Len(history) + 1] = e
  BY <1>3, <1>6, <1>7, Appended
<1>10. \A h : Seen(h)' = Seen(h)
  BY <1>2 DEF Seen
<1>11. \A h \in 1 .. Len(history') : history'[h] = Seen(h)
  <2> TAKE h \in 1 .. Len(history')
  <2>1. CASE h \in 1 .. Len(history)
    BY <1>1, <1>9, <2>1
  <2>2. CASE h = n
    BY <1>1, <1>9, <2>2 DEF e
  <2> QED
    BY <1>1, <1>9, <2>1, <2>2
<1>12. Scheduled(bag')
  BY <1>1, <1>2
<1> QED
  BY <1>1, <1>8, <1>9, <1>10, <1>11, <1>12 DEF SchedulerInv, Scheduled

LEMMA SchedulerNext ==
  ASSUME BagTyped, WordInv, IInv, ReadInv, SchedulerInv, [RecordingNext]_<<recordingVars, vars>>
  PROVE  SchedulerInv'
<1>1. CASE \E keyframe \in KeyframeIds \cup {NoId}, obs \in Ids, sourced \in BOOLEAN,
             time \in BoundaryTimes : ScheduleBoundary(keyframe, obs, sourced, time)
  BY <1>1, SchedulerWrites
<1>2. CASE ReadMessage
  BY <1>2, SchedulerRead
<1>3. ASSUME UNCHANGED <<producer, bag, order, report, history>> PROVE SchedulerInv'
  BY <1>3 DEF SchedulerInv, Scheduled, Seen
<1>4. CASE OpenBag
  <2>1. /\ UNCHANGED <<producer, bag, report, history>> /\ phase = "audited"
    BY <1>4 DEF OpenBag, Open
  <2>2. 1 .. Len(history') = {}
    BY <2>1 DEF ReadInv
  <2> QED
    BY <2>1, <2>2 DEF SchedulerInv, Scheduled
<1>5. CASE (\E sensors \in TickSets : RecordTick(sensors)) \/ WritePrelude
             \/ (\E inRange \in SUBSET Targets : GenerateKeyframe(inRange))
  BY <1>5 DEF RecordTick, WritePrelude, GenerateKeyframe, SchedulerInv
<1>6. CASE EndSession \/ CloseSynthetic \/ CloseScheduler \/ AuditMessage \/ AuditBag
  BY <1>3, <1>6 DEF EndSession, CloseSynthetic, CloseScheduler, AuditMessage, AuditBag, vars
<1>7. CASE FinishReplay
  <2>1. UNCHANGED <<report, history>>
    BY <1>7 DEF FinishReplay, EndOfBag, Pump, Gate, Done, vars
  <2> QED
    BY <1>3, <1>7, <2>1 DEF FinishReplay, recordingVars
<1>8. CASE UNCHANGED <<recordingVars, vars>>
  BY <1>3, <1>8 DEF recordingVars, vars
<1> QED
  BY <1>1, <1>2, <1>4, <1>5, <1>6, <1>7, <1>8 DEF RecordingNext

\* What both readers ask of the boundaries b.
InTurn(b) ==
  /\ \A i \in 1 .. Len(b) : b[i].keyframe # NoId
  /\ \A i, j \in 1 .. Len(b) : i < j =>
       b[i].keyframe # b[j].keyframe /\ b[i].capture < b[j].capture

\* The audit compares each boundary with the one before.
LEMMA AuditInTurn ==
  ASSUME BagTyped, StatsInv, Judged, Scheduled(bag)
  PROVE  BoundaryFaults \cap {"empty", "duplicate", "order"} = {} <=> InTurn(bag)
<1> DEFINE P == OfTopic("boundary")
<1>1. P = 1 .. Len(bag) /\ \A i \in 1 .. Len(bag) : i \in Int
  BY BagDomain DEF Scheduled, OfTopic
<1>2. Summed(bag, P, headers["boundary"]) /\ Listed(bag, P, ids)
  BY WholeBag DEF TimedTopics, StampedTopics
<1>3. ids.empty <=> \E i \in 1 .. Len(bag) : bag[i].keyframe = NoId
  BY <1>1, <1>2 DEF Listed
<1>4. ids.unique <=> \A i, j \in 1 .. Len(bag) :
                       bag[i].keyframe # NoId /\ i # j => bag[i].keyframe # bag[j].keyframe
  BY <1>1, <1>2 DEF Listed
<1>5. headers["boundary"].strictly <=>
        \A i, j \in 1 .. Len(bag) : i < j => bag[i].capture < bag[j].capture
  BY <1>1, <1>2 DEF Summed, Ordered
<1>6. BoundaryFaults \cap {"empty", "duplicate", "order"} = {}
        <=> ~ids.empty /\ ids.unique /\ headers["boundary"].strictly
  BY DEF BoundaryFaults
<1>7. (\A i, j \in 1 .. Len(bag) : i # j => bag[i].keyframe # bag[j].keyframe)
        <=> \A i, j \in 1 .. Len(bag) : i < j => bag[i].keyframe # bag[j].keyframe
  <2>1. \A i, j \in 1 .. Len(bag) : i # j <=> i < j \/ j < i
    OBVIOUS
  <2> QED
    BY <2>1
<1> QED
  BY <1>3, <1>4, <1>5, <1>6, <1>7 DEF InTurn

\* The ingress compares each boundary with those it accepted.
LEMMA GateInTurn ==
  ASSUME BagTyped, WordInv, Scheduled(bag), ReadsAll(order), \A i \in DOMAIN order : order[i] = i,
         Len(history) = Len(bag), \A h \in 1 .. Len(history) : history[h] = Seen(h)
  PROVE  CleanRecords(history) /\ SourcesObserved(history) <=> InTurn(bag) /\ ObservationsApart
<1>0. Len(bag) \in Nat /\ DOMAIN order = 1 .. Len(bag)
  BY BagDomain DEF ReadsAll
<1>1. ASSUME NEW h \in 1 .. Len(bag)
      PROVE  /\ history[h].kind = "boundary" /\ CarriesIdentity(history[h])
             /\ history[h].obs = bag[h].id
             /\ history[h].keyframe = bag[h].keyframe /\ Nanos(history[h].time) = bag[h].capture
             /\ history[h].sensor = SensorOf("boundary") /\ ~AllowsDuplicate(history[h].kind)
             /\ h \in Nat
  <2>1. order[h] = h /\ history[h] = Seen(h) /\ bag[h].topic = "boundary"
    BY <1>0 DEF Scheduled
  <2>2. EventFacts(bag[h], history[h])
    BY <2>1, SeenFacts
  <2>3. "boundary" # "sonar"
    OBVIOUS
  <2> QED
    BY <2>1, <2>2, <2>3 DEF EventFacts, StampedTopics
<1>2. \A h, k \in 1 .. Len(bag) :
        Identity(history[h]) = Identity(history[k]) <=> bag[h].id = bag[k].id
  BY <1>1 DEF Identity
<1>3. \A h \in 1 .. Len(bag) : \A j \in 1 .. h - 1 : j \in 1 .. Len(bag) /\ j # h /\ j < h
  BY <1>0
<1>4. \A h, j \in 1 .. Len(bag) : j \in 1 .. h - 1 <=> j < h
  OBVIOUS
<1>5. ASSUME NEW h \in 1 .. Len(bag)
      PROVE  CleanRecord(history, h) <=>
               /\ bag[h].id # NoId /\ bag[h].keyframe # NoId
               /\ \A j \in 1 .. h - 1 : /\ bag[j].id # bag[h].id
                                        /\ bag[j].keyframe # bag[h].keyframe
                                        /\ bag[j].capture < bag[h].capture
  <2>1. \A j \in 1 .. h - 1 : /\ Identity(history[j]) = Identity(history[h]) <=> bag[j].id = bag[h].id
                              /\ history[j].kind = "boundary" /\ CarriesIdentity(history[j])
                              /\ history[j].keyframe = bag[j].keyframe
                              /\ Nanos(history[j].time) = bag[j].capture
    BY <1>1, <1>2, <1>3
  <2> QED
    BY <1>1, <2>1 DEF CleanRecord
<1>6. SourcesObserved(history)
  BY <1>1 DEF SourcesObserved
<1>7. CleanRecords(history) <=>
        \A h \in 1 .. Len(bag) :
          /\ bag[h].id # NoId /\ bag[h].keyframe # NoId
          /\ \A j \in 1 .. h - 1 : /\ bag[j].id # bag[h].id
                                   /\ bag[j].keyframe # bag[h].keyframe
                                   /\ bag[j].capture < bag[h].capture
  BY <1>5 DEF CleanRecords
<1>8. (\A h \in 1 .. Len(bag) : \A j \in 1 .. h - 1 :
           bag[j].keyframe # bag[h].keyframe /\ bag[j].capture < bag[h].capture)
        <=> \A i, j \in 1 .. Len(bag) : i < j =>
              bag[i].keyframe # bag[j].keyframe /\ bag[i].capture < bag[j].capture
  BY <1>3, <1>4
<1>9. (\A h \in 1 .. Len(bag) : \A j \in 1 .. h - 1 : bag[j].id # bag[h].id)
        <=> \A i, j \in 1 .. Len(bag) : i # j => bag[i].id # bag[j].id
  <2>1. \A i, j \in 1 .. Len(bag) : i # j <=> i < j \/ j < i
    OBVIOUS
  <2> QED
    BY <1>3, <1>4, <2>1
<1>10. ObservationsApart <=> /\ \A i \in 1 .. Len(bag) : bag[i].id # NoId
                            /\ \A i, j \in 1 .. Len(bag) : i # j => bag[i].id # bag[j].id
  BY BagDomain DEF ObservationsApart
<1> QED
  BY <1>6, <1>7, <1>8, <1>9, <1>10 DEF InTurn

LEMMA AgreeEnough ==
  RecordingInv /\ StatsInv /\ SchedulerInv => AuditAgreesOnBoundaries
<1> SUFFICES ASSUME BagTyped, WordInv, IInv, GateInv, ReadInv, StatsInv, SchedulerInv,
                    producer = "scheduler", status = "completed", verdict # "pending",
                    \A i \in DOMAIN order : order[i] = i
             PROVE  verdict = "refused" <=>
                      \/ \E fault \in {"empty", "duplicate", "order"} :
                           <<"boundary", fault>> \in audit.faults
                      \/ ~ObservationsApart
  BY DEF AuditAgreesOnBoundaries, RecordingInv
<1>1. phase = "replay"
  <2>1. pc = "exit"
    BY DEF IInv, StageInv
  <2> QED
    BY <2>1 DEF ReadInv, BagTyped
<1>2. ReadsAll(order) /\ report.seen = Len(bag) /\ audit = AuditReport /\ Judged
  BY <1>1 DEF ReadInv, StatsInv, Judged
<1>3. /\ Scheduled(bag) /\ Len(history) = Len(bag)
      /\ \A h \in 1 .. Len(history) : history[h] = Seen(h)
  BY <1>2 DEF SchedulerInv
<1>4. BoundaryFaults \cap {"empty", "duplicate", "order"} = {} <=> InTurn(bag)
  BY <1>2, <1>3, AuditInTurn
<1>5. CleanRecords(history) /\ SourcesObserved(history) <=> InTurn(bag) /\ ObservationsApart
  BY <1>2, <1>3, GateInTurn
<1>6. verdict = "accepted" <=> CleanRecords(history) /\ SourcesObserved(history)
  BY GateEnough DEF GateExact
<1>7. verdict \in {"accepted", "refused"}
  BY DEF IInv, TypeOK
<1>8. \A fault : <<"boundary", fault>> \in audit.faults <=> fault \in BoundaryFaults
  BY <1>2, TagsOfReport
<1> QED
  BY <1>4, <1>5, <1>6, <1>7, <1>8

\* Of every list of boundaries a scheduler may write, of any length and with
\* observation ids that are missing or repeated: when it stands in the bag in
\* log-time order, the ingress refuses the bag exactly when bag_audit faults
\* the keyframe ids or the times -- comparing with the boundary before and
\* comparing with the last one accepted come to the same -- or when the
\* observation ids, which bag_audit does not read, are at fault.
\* (bag_audit_checks.hpp, ReplayInputAccumulator::OnKeyframeBoundary)
THEOREM BoundariesAgreed == RecordingSpec => []AuditAgreesOnBoundaries
<1>1. RecordingInit => SchedulerInv
  BY SchedulerInit
<1>2. RecordingInv /\ SchedulerInv /\ [RecordingNext]_<<recordingVars, vars>> => SchedulerInv'
  BY SchedulerNext DEF RecordingInv
<1>3. RecordingInv /\ AuditedInv /\ SchedulerInv => AuditAgreesOnBoundaries
  BY AgreeEnough DEF AuditedInv
<1> QED
  BY <1>1, <1>2, <1>3, RecordingInvariance, AuditedInvariance, PTL DEF RecordingSpec
=============================================================================
