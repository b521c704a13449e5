------------------------------ MODULE StereoVo ------------------------------
(***************************************************************************)
(* StereoLandmarkVoFrontend and the pass of RunReplayPipeline that drives   *)
(* it: one stereo pair in, at most one relative-pose evidence out.  The     *)
(* frontend remembers the landmarks of the last keyframe it matched, not of *)
(* the last frame it saw.  Landmarks are counted, not described.            *)
(***************************************************************************)
EXTENDS Naturals, Sequences

CONSTANTS
  Keyframes,       \* the keyframe ids
  NoReference,     \* reference_keyframe_id_ while has_reference_ is false
  MaxLandmarks,    \* bound: landmarks triangulated in one frame
  MinLandmarks,    \* min_landmarks_for_pose
  MaxFailures,     \* max_consecutive_failures
  MaxFrames        \* bound: frames of one pass

ASSUME StereoVoAssumption ==
  /\ NoReference \notin Keyframes
  /\ MaxLandmarks \in Nat /\ MaxFrames \in Nat
  /\ MinLandmarks \in Nat \ {0}
  /\ MaxFailures \in Nat \ {0}

VARIABLES
  reference,       \* reference_keyframe_id_
  refLandmarks,    \* size of reference_landmarks_
  failures,        \* consecutive_failures_
  edges,           \* the evidence emitted so far: a from and a to keyframe
  health,          \* vo_health_by_keyframe: <<keyframe, status>> as recorded
  outcomes         \* (history variable) per processed frame: keyframe, tracked

voVars == <<reference, refLandmarks, failures, edges, health, outcomes>>

VoInit ==
  /\ reference = NoReference
  /\ refLandmarks = 0
  /\ failures = 0
  /\ edges = <<>>
  /\ health = <<>>
  /\ outcomes = <<>>

\* Health() after n consecutive failures.
StatusFor(n) ==
  IF n >= MaxFailures THEN "unavailable" ELSE IF n > 0 THEN "suspect" ELSE "healthy"

\* A failed frame costs one edge and leaves the reference alone.
RecordTrackingFailure(kf, landmarks) ==
  /\ failures' = failures + 1
  /\ UNCHANGED <<reference, refLandmarks, edges>>

\* (Variant) forgets to clear the failure count.
PromoteReference_KeepsFailures(kf, landmarks) ==
  /\ reference' = kf
  /\ refLandmarks' = landmarks
  /\ UNCHANGED failures

PromoteReference(kf, landmarks) ==
  /\ reference' = kf
  /\ refLandmarks' = landmarks
  /\ failures' = 0

\* The first usable frame becomes the reference and yields no evidence.
Establish(kf, landmarks) ==
  /\ reference = NoReference
  /\ landmarks >= MinLandmarks
  /\ PromoteReference(kf, landmarks)
  /\ UNCHANGED edges

\* (Variant) claims the edge starts at the frame processed last.
Track_FromLastFrame(kf, landmarks, matches) ==
  /\ reference # NoReference
  /\ matches >= MinLandmarks
  /\ edges' = Append(edges, [from |-> outcomes[Len(outcomes)].keyframe, to |-> kf])
  /\ PromoteReference(kf, landmarks)

\* A frame matched to the reference in enough landmarks, with a pose fit.
Track(kf, landmarks, matches) ==
  /\ reference # NoReference
  /\ matches >= MinLandmarks
  /\ edges' = Append(edges, [from |-> reference, to |-> kf])
  /\ PromoteReference(kf, landmarks)

\* Process(): usable says that the pair passes the input contract (both images
\* present, MONO8, rectified, of the calibrated size), landmarks how many it
\* yields, matches how many of those match the reference, fit that RANSAC finds
\* a pose.  Every early return is a tracking failure.
Process(kf, usable, landmarks, matches, fit) ==
  \/ /\ usable
     /\ Establish(kf, landmarks) \/ (fit /\ Track(kf, landmarks, matches))
  \/ /\ \/ ~usable
        \/ reference = NoReference /\ landmarks < MinLandmarks
        \/ reference # NoReference /\ (matches < MinLandmarks \/ ~fit)
     /\ RecordTrackingFailure(kf, landmarks)

AtMost(a, b) == IF a <= b THEN a ELSE b

\* The body of the pass for a keyframe whose pair could be rectified: process
\* it and record the health right away, whatever the outcome.  Matches are one
\* to one, so there are no more than landmarks on either side.
VisitKeyframe(kf) ==
  \E usable, fit \in BOOLEAN, landmarks \in 0 .. MaxLandmarks :
  \E matches \in 0 .. AtMost(landmarks, refLandmarks) :
     /\ Process(kf, usable, landmarks, matches, fit)
     /\ health' = Append(health, [keyframe |-> kf, status |-> StatusFor(failures')])
     /\ outcomes' = Append(outcomes, [keyframe |-> kf, tracked |-> reference' = kf])

\* The frontend by itself, given any sequence of distinct keyframes.
Init == VoInit

Next ==
  \E kf \in Keyframes :
     /\ Len(outcomes) < MaxFrames
     /\ \A i \in 1 .. Len(outcomes) : outcomes[i].keyframe # kf
     /\ VisitKeyframe(kf)

Spec == Init /\ [][Next]_voVars

-----------------------------------------------------------------------------
Statuses == {"healthy", "suspect", "unavailable"}

TypeOK ==
  /\ reference \in Keyframes \cup {NoReference}
  /\ refLandmarks \in 0 .. MaxLandmarks
  /\ failures \in Nat
  /\ edges \in Seq([from : Keyframes, to : Keyframes])
  /\ health \in Seq([keyframe : Keyframes, status : Statuses])
  /\ outcomes \in Seq([keyframe : Keyframes, tracked : BOOLEAN])

\* "a failed frame must never overwrite this, or one bad frame would sever the
\* whole downstream chain": the emitted edges form one path, each starting
\* where the one before ended, and the next edge will start at the reference.
EdgesFormPath ==
  /\ \A i \in 1 .. Len(edges) - 1 : edges[i].to = edges[i + 1].from
  /\ Len(edges) > 0 => edges[Len(edges)].to = reference

\* A reference always has enough landmarks to be matched against: otherwise no
\* later frame could ever track and the frontend would be stuck for good.
ReferenceUsable == reference # NoReference => refLandmarks >= MinLandmarks

\* Frames processed after the i-th up to the j-th all failed.
FailedRun(i, j) == \A k \in i + 1 .. j : ~outcomes[k].tracked

\* The status recorded for a keyframe tells how many frames in a row had
\* failed up to and including it, counting from the last tracked frame or the
\* start: later failures or recoveries do not change it, and a success resets
\* the count "regardless of how high it had climbed".
HealthTellsFailedRun ==
  /\ Len(health) = Len(outcomes)
  /\ \A j \in 1 .. Len(outcomes) : \E i \in 0 .. j :
       /\ FailedRun(i, j)
       /\ i > 0 => outcomes[i].tracked
       /\ health[j] = [keyframe |-> outcomes[j].keyframe, status |-> StatusFor(j - i)]

\* Frames j and k were tracked and none between them was.
NextTracked(j, k) ==
  j < k /\ outcomes[j].tracked /\ outcomes[k].tracked /\ FailedRun(j, k - 1)

EdgeOf(j, k) == [from |-> outcomes[j].keyframe, to |-> outcomes[k].keyframe]

\* A failure costs exactly its own edge: there is one from each tracked frame
\* to the next one tracked, over the failures between them, and no other.
OneFailureOneEdge ==
  /\ \A j, k \in 1 .. Len(outcomes) : NextTracked(j, k) =>
        \E i \in 1 .. Len(edges) : edges[i] = EdgeOf(j, k)
  /\ \A i \in 1 .. Len(edges) : \E j, k \in 1 .. Len(outcomes) :
        NextTracked(j, k) /\ edges[i] = EdgeOf(j, k)

\* A bad frame severs nothing: the edges form one path over the tracked
\* keyframes, and the reference the next one starts from can be matched.
ChainSurvivesFailure == EdgesFormPath /\ OneFailureOneEdge /\ ReferenceUsable
=============================================================================
