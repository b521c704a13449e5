--------------------------- MODULE StereoVoProofs ---------------------------
(***************************************************************************)
(* The VO front end keeps one connected chain and an honest health record  *)
(* for any number of keyframes, landmarks and failures.                    *)
(***************************************************************************)
EXTENDS StereoVo, TLAPS, SequenceTheorems

\* The reference is a frame that was processed, and edges need one.
ReferenceProcessed ==
  /\ reference # NoReference =>
       \E i \in 1 .. Len(outcomes) : outcomes[i].keyframe = reference
  /\ reference = NoReference => Len(edges) = 0

\* Frame i ended the last streak, or is 0; the frames up to j all failed.
StreakSince(i, j) == FailedRun(i, j) /\ (i > 0 => outcomes[i].tracked)

\* The counter is the length of the current streak.
FailuresCounted ==
  \E i \in 0 .. Len(outcomes) :
     StreakSince(i, Len(outcomes)) /\ failures = Len(outcomes) - i

\* The reference is the frame tracked last, if any was.
ReferenceLast ==
  IF reference = NoReference
  THEN FailedRun(0, Len(outcomes))
  ELSE \E i \in 1 .. Len(outcomes) :
         /\ outcomes[i].tracked /\ outcomes[i].keyframe = reference
         /\ FailedRun(i, Len(outcomes))

Typed == TypeOK /\ ReferenceProcessed

IInv ==
  /\ Typed
  /\ EdgesFormPath /\ ReferenceUsable
  /\ ReferenceLast /\ OneFailureOneEdge
  /\ FailuresCounted /\ HealthTellsFailedRun

\* A frame no outcome names is processed.
Visit(kf) ==
  /\ \A i \in 1 .. Len(outcomes) : outcomes[i].keyframe # kf
  /\ VisitKeyframe(kf)

\* What one visit does: it tracks the frame, with or without a new edge, or
\* fails on it.
Tracks(kf) ==
  /\ reference' = kf /\ failures' = 0
  /\ refLandmarks' \in MinLandmarks .. MaxLandmarks
  /\ \/ reference = NoReference /\ edges' = edges
     \/ reference # NoReference /\ edges' = Append(edges, [from |-> reference, to |-> kf])

Fails(kf) ==
  /\ reference' = reference /\ reference # kf /\ failures' = failures + 1
  /\ refLandmarks' = refLandmarks /\ edges' = edges

VisitEffect(kf) ==
  /\ outcomes' = Append(outcomes, [keyframe |-> kf, tracked |-> reference' = kf])
  /\ health' = Append(health, [keyframe |-> kf, status |-> StatusFor(failures')])
  /\ Tracks(kf) \/ Fails(kf)

-----------------------------------------------------------------------------
LEMMA InitInvariant == Init => IInv
<1> SUFFICES ASSUME Init PROVE IInv
  OBVIOUS
<1> USE DEF Init, VoInit
<1>1. Typed
  BY StereoVoAssumption DEF Typed, TypeOK, ReferenceProcessed
<1>2. EdgesFormPath /\ ReferenceUsable
  BY DEF EdgesFormPath, ReferenceUsable
<1>3. FailuresCounted
  <2>1. 0 \in 0 .. Len(outcomes) /\ StreakSince(0, Len(outcomes))
    BY DEF StreakSince, FailedRun
  <2> QED
    BY <2>1 DEF FailuresCounted
<1>4. HealthTellsFailedRun
  BY DEF HealthTellsFailedRun
<1>5. ReferenceLast /\ OneFailureOneEdge
  BY DEF ReferenceLast, FailedRun, OneFailureOneEdge
<1> QED
  BY <1>1, <1>2, <1>3, <1>4, <1>5 DEF IInv

LEMMA VisitCases ==
  ASSUME IInv, NEW kf \in Keyframes, Visit(kf)
  PROVE  VisitEffect(kf)
<1>1. PICK usable \in BOOLEAN, fit \in BOOLEAN, lms \in 0 .. MaxLandmarks :
        \E matches \in 0 .. AtMost(lms, refLandmarks) :
           /\ Process(kf, usable, lms, matches, fit)
           /\ health' = Append(health, [keyframe |-> kf, status |-> StatusFor(failures')])
           /\ outcomes' = Append(outcomes, [keyframe |-> kf, tracked |-> reference' = kf])
  BY DEF Visit, VisitKeyframe
<1>2. PICK matches \in 0 .. AtMost(lms, refLandmarks) : Process(kf, usable, lms, matches, fit)
  BY <1>1
<1>3. matches <= lms
  BY <1>2, StereoVoAssumption DEF AtMost, IInv, Typed, TypeOK
<1>4. reference # kf
  BY StereoVoAssumption DEF Visit, IInv, Typed, ReferenceProcessed
<1>5. CASE Establish(kf, lms)
  BY <1>1, <1>5, StereoVoAssumption DEF Establish, PromoteReference, VisitEffect, Tracks, Fails
<1>6. CASE Track(kf, lms, matches)
  BY <1>1, <1>2, <1>3, <1>6, StereoVoAssumption DEF Track, PromoteReference, VisitEffect, Tracks, Fails
<1>7. CASE RecordTrackingFailure(kf, lms)
  BY <1>1, <1>4, <1>7 DEF RecordTrackingFailure, VisitEffect, Tracks, Fails
<1> QED
  BY <1>1, <1>2, <1>5, <1>6, <1>7 DEF Process, VisitEffect

LEMMA VisitTyped ==
  ASSUME IInv, NEW kf \in Keyframes, Visit(kf)
  PROVE  Typed'
<1>0. VisitEffect(kf)
  BY VisitCases
<1>1. StatusFor(failures') \in Statuses
  BY DEF StatusFor, Statuses
<1>2. TypeOK'
  <2>1. refLandmarks' \in 0 .. MaxLandmarks /\ failures' \in Nat
    BY <1>0, StereoVoAssumption DEF IInv, Typed, TypeOK, VisitEffect, Tracks, Fails
  <2>2. edges' \in Seq([from : Keyframes, to : Keyframes])
    <3>1. edges \in Seq([from : Keyframes, to : Keyframes])
      BY DEF IInv, Typed, TypeOK
    <3>2. CASE edges' = edges
      BY <3>1, <3>2
    <3>3. CASE reference # NoReference /\ edges' = Append(edges, [from |-> reference, to |-> kf])
      <4>1. [from |-> reference, to |-> kf] \in [from : Keyframes, to : Keyframes]
        BY <3>3 DEF IInv, Typed, TypeOK
      <4> QED
        BY <3>1, <3>3, <4>1, AppendProperties
    <3> QED
      BY <1>0, <3>2, <3>3 DEF VisitEffect, Tracks, Fails
  <2>3. health' \in Seq([keyframe : Keyframes, status : Statuses])
    BY <1>0, <1>1 DEF IInv, Typed, TypeOK, VisitEffect
  <2>4. outcomes' \in Seq([keyframe : Keyframes, tracked : BOOLEAN])
    BY <1>0 DEF IInv, Typed, TypeOK, VisitEffect
  <2>5. reference' \in Keyframes \cup {NoReference}
    BY <1>0 DEF IInv, Typed, TypeOK, VisitEffect, Tracks, Fails
  <2> QED
    BY <2>1, <2>2, <2>3, <2>4, <2>5 DEF TypeOK
<1>3. /\ Len(outcomes') = Len(outcomes) + 1
      /\ outcomes'[Len(outcomes) + 1].keyframe = kf
      /\ \A i \in 1 .. Len(outcomes) : outcomes'[i] = outcomes[i]
  BY <1>0 DEF IInv, Typed, TypeOK, VisitEffect, Tracks, Fails
<1>4. ReferenceProcessed'
  BY <1>2, <1>3, <1>0, StereoVoAssumption DEF IInv, Typed, TypeOK, ReferenceProcessed, VisitEffect, Tracks, Fails
<1> QED
  BY <1>2, <1>4 DEF Typed

LEMMA VisitChain ==
  ASSUME IInv, NEW kf \in Keyframes, Visit(kf)
  PROVE  EdgesFormPath' /\ ReferenceUsable'
<1>0. VisitEffect(kf)
  BY VisitCases
<1>1. CASE edges' = edges
  <2>1. EdgesFormPath'
    BY <1>1, <1>0 DEF IInv, Typed, TypeOK, ReferenceProcessed, EdgesFormPath, VisitEffect, Tracks, Fails
  <2> QED
    BY <2>1, <1>0, StereoVoAssumption DEF IInv, Typed, TypeOK, ReferenceUsable, VisitEffect, Tracks, Fails
<1>2. CASE reference # NoReference /\ reference' = kf
             /\ edges' = Append(edges, [from |-> reference, to |-> kf])
  <2>1. /\ Len(edges') = Len(edges) + 1
        /\ edges'[Len(edges) + 1] = [from |-> reference, to |-> kf]
        /\ \A i \in 1 .. Len(edges) : edges'[i] = edges[i]
        /\ Len(edges) \in Nat
    BY <1>2 DEF IInv, Typed, TypeOK
  <2>2. ASSUME NEW i \in 1 .. Len(edges') - 1 PROVE edges'[i].to = edges'[i + 1].from
    <3>1. CASE i = Len(edges)
      BY <2>1, <2>2, <3>1 DEF IInv, EdgesFormPath
    <3>2. CASE i < Len(edges)
      BY <2>1, <2>2, <3>2 DEF IInv, EdgesFormPath
    <3> QED
      BY <2>1, <2>2, <3>1, <3>2
  <2>3. edges'[Len(edges')].to = reference'
    BY <1>2, <2>1
  <2>4. ReferenceUsable'
    BY <1>0, StereoVoAssumption DEF IInv, Typed, TypeOK, ReferenceUsable, VisitEffect, Tracks, Fails
  <2> QED
    BY <2>2, <2>3, <2>4 DEF EdgesFormPath
<1> QED
  BY <1>1, <1>2, <1>0 DEF VisitEffect, Tracks, Fails

\* What a visit adds to the history.
LEMMA VisitOutcome ==
  ASSUME IInv, NEW kf \in Keyframes, VisitEffect(kf)
  PROVE  /\ Len(outcomes) \in Nat /\ Len(edges) \in Nat
         /\ Len(outcomes') = Len(outcomes) + 1
         /\ outcomes'[Len(outcomes) + 1].keyframe = kf
         /\ outcomes'[Len(outcomes) + 1].tracked <=> reference' = kf
         /\ \A i \in 1 .. Len(outcomes) : outcomes'[i] = outcomes[i]
<1> DEFINE outcome == [keyframe |-> kf, tracked |-> reference' = kf]
<1>1. outcomes' = Append(outcomes, outcome)
  BY DEF VisitEffect
<1>2. outcome \in [keyframe : Keyframes, tracked : BOOLEAN]
  BY Zenon
<1>3. outcome.keyframe = kf /\ (outcome.tracked <=> reference' = kf)
  BY Zenon
<1>4. outcomes \in Seq([keyframe : Keyframes, tracked : BOOLEAN])
  BY DEF IInv, Typed, TypeOK
<1>5. edges \in Seq([from : Keyframes, to : Keyframes])
  BY DEF IInv, Typed, TypeOK
<1> HIDE DEF outcome
<1>6. /\ Len(outcomes') = Len(outcomes) + 1
      /\ outcomes'[Len(outcomes) + 1] = outcome
      /\ \A i \in 1 .. Len(outcomes) : outcomes'[i] = outcomes[i]
  BY <1>1, <1>2, <1>4, AppendProperties
<1>7. Len(outcomes) \in Nat /\ Len(edges) \in Nat
  BY <1>4, <1>5
<1> QED
  BY <1>3, <1>6, <1>7

LEMMA VisitEdges ==
  ASSUME IInv, NEW kf \in Keyframes, Visit(kf)
  PROVE  ReferenceLast' /\ OneFailureOneEdge'
<1>0. VisitEffect(kf)
  BY VisitCases
<1>n. PICK n \in Nat, m \in Nat : n = Len(outcomes) /\ m = Len(edges)
  BY <1>0, VisitOutcome
<1>1. /\ n = Len(outcomes) /\ m = Len(edges)
      /\ Len(outcomes') = n + 1
      /\ outcomes'[n + 1].keyframe = kf
      /\ outcomes'[n + 1].tracked <=> reference' = kf
      /\ \A i \in 1 .. n : outcomes'[i] = outcomes[i]
  BY <1>0, <1>n, VisitOutcome
<1>2. \A j, k \in 1 .. n : NextTracked(j, k)' <=> NextTracked(j, k)
  BY <1>1 DEF NextTracked, FailedRun
<1>3. \A j, k \in 1 .. n : EdgeOf(j, k)' = EdgeOf(j, k)
  BY <1>1 DEF EdgeOf
<1>4. \A j, k \in 1 .. n + 1 : NextTracked(j, k)' => j \in 1 .. n
  BY <1>1 DEF NextTracked
<1>p. \A j, k \in 1 .. n : NextTracked(j, k) => \E i \in 1 .. m : edges[i] = EdgeOf(j, k)
  BY <1>1 DEF IInv, OneFailureOneEdge
<1>q. \A i \in 1 .. m : \E j, k \in 1 .. n : NextTracked(j, k) /\ edges[i] = EdgeOf(j, k)
  BY <1>1 DEF IInv, OneFailureOneEdge
<1>5. CASE Fails(kf)
  <2>1. ~outcomes'[n + 1].tracked /\ reference' = reference /\ edges' = edges
    BY <1>1, <1>5 DEF Fails
  <2>2. ReferenceLast'
    <3>1. \A i \in 0 .. n : FailedRun(i, n) => FailedRun(i, n + 1)'
      BY <1>1, <2>1 DEF FailedRun
    <3>2. CASE reference = NoReference
      BY <1>1, <2>1, <3>1, <3>2 DEF IInv, ReferenceLast
    <3>3. CASE reference # NoReference
      <4>1. PICK i \in 1 .. n :
               outcomes[i].tracked /\ outcomes[i].keyframe = reference /\ FailedRun(i, n)
        BY <1>1, <3>3 DEF IInv, ReferenceLast
      <4>2. i \in 1 .. n + 1 /\ i \in 0 .. n
        BY <1>n
      <4> QED
        BY <1>1, <2>1, <3>1, <3>3, <4>1, <4>2 DEF ReferenceLast
    <3> QED
      BY <3>2, <3>3
  <2>3. \A j, k \in 1 .. n + 1 : NextTracked(j, k)' => k \in 1 .. n
    BY <1>1, <2>1 DEF NextTracked
  <2>4. OneFailureOneEdge'
    <3>1. ASSUME NEW j \in 1 .. n + 1, NEW k \in 1 .. n + 1, NextTracked(j, k)'
          PROVE  \E i \in 1 .. m : edges[i] = EdgeOf(j, k)'
      <4>1. j \in 1 .. n /\ k \in 1 .. n
        BY <1>4, <2>3, <3>1
      <4>2. NextTracked(j, k) /\ EdgeOf(j, k)' = EdgeOf(j, k)
        BY <1>2, <1>3, <3>1, <4>1
      <4> QED
        BY <1>p, <4>1, <4>2
    <3>2. ASSUME NEW i \in 1 .. m
          PROVE  \E j, k \in 1 .. n + 1 : NextTracked(j, k)' /\ edges[i] = EdgeOf(j, k)'
      <4>1. PICK j \in 1 .. n, k \in 1 .. n : NextTracked(j, k) /\ edges[i] = EdgeOf(j, k)
        BY <1>q, <3>2
      <4>2. j \in 1 .. n + 1 /\ k \in 1 .. n + 1
        BY <1>n
      <4>3. NextTracked(j, k)' /\ edges[i] = EdgeOf(j, k)'
        BY <1>2, <1>3, <4>1
      <4> QED
        BY <4>2, <4>3
    <3> QED
      BY <1>1, <2>1, <3>1, <3>2 DEF OneFailureOneEdge
  <2> QED
    BY <2>2, <2>4
<1>6. CASE Tracks(kf)
  <2>1. outcomes'[n + 1].tracked /\ reference' = kf /\ kf # NoReference
    BY <1>1, <1>6, StereoVoAssumption DEF Tracks
  <2>2. ReferenceLast'
    BY <1>1, <2>1 DEF ReferenceLast, FailedRun
  <2>3. CASE reference = NoReference /\ edges' = edges
    <3>1. FailedRun(0, n)
      BY <1>1, <2>3 DEF IInv, ReferenceLast
    <3>2. \A j, k \in 1 .. n + 1 : ~NextTracked(j, k)'
      BY <1>1, <1>4, <3>1 DEF NextTracked, FailedRun
    <3>3. Len(edges) = 0
      BY <2>3 DEF IInv, Typed, ReferenceProcessed
    <3> QED
      BY <1>1, <2>2, <2>3, <3>2, <3>3 DEF OneFailureOneEdge
  <2>4. CASE reference # NoReference /\ edges' = Append(edges, [from |-> reference, to |-> kf])
    <3>1. PICK last \in 1 .. n :
             outcomes[last].tracked /\ outcomes[last].keyframe = reference /\ FailedRun(last, n)
      BY <1>1, <2>4 DEF IInv, ReferenceLast
    <3>2. NextTracked(last, n + 1)'
      BY <1>1, <2>1, <3>1 DEF NextTracked, FailedRun
    <3>3. EdgeOf(last, n + 1)' = [from |-> reference, to |-> kf]
      BY <1>1, <3>1 DEF EdgeOf
    <3>4. \A j \in 1 .. n + 1 : NextTracked(j, n + 1)' => j = last
      BY <1>1, <3>1 DEF NextTracked, FailedRun
    <3>5. /\ Len(edges') = m + 1
          /\ edges'[m + 1] = [from |-> reference, to |-> kf]
          /\ \A i \in 1 .. m : edges'[i] = edges[i]
      BY <1>1, <2>4 DEF IInv, Typed, TypeOK
    <3>6. ASSUME NEW j \in 1 .. n + 1, NEW k \in 1 .. n + 1, NextTracked(j, k)'
          PROVE  \E i \in 1 .. m + 1 : edges'[i] = EdgeOf(j, k)'
      <4>1. CASE k = n + 1
        BY <1>1, <3>3, <3>4, <3>5, <3>6, <4>1
      <4>2. CASE k \in 1 .. n
        <5>1. j \in 1 .. n
          BY <1>4, <3>6
        <5>2. PICK i \in 1 .. m : edges[i] = EdgeOf(j, k)
          BY <1>2, <1>p, <3>6, <4>2, <5>1
        <5>3. i \in 1 .. m + 1 /\ edges'[i] = edges[i]
          BY <1>n, <3>5
        <5>4. EdgeOf(j, k)' = EdgeOf(j, k)
          BY <1>3, <4>2, <5>1
        <5> QED
          BY <5>2, <5>3, <5>4
      <4>3. k = n + 1 \/ k \in 1 .. n
        BY <1>n
      <4> QED
        BY <4>1, <4>2, <4>3
    <3>7. ASSUME NEW i \in 1 .. m + 1
          PROVE  \E j, k \in 1 .. n + 1 : NextTracked(j, k)' /\ edges'[i] = EdgeOf(j, k)'
      <4>1. CASE i = m + 1
        <5>1. last \in 1 .. n + 1 /\ n + 1 \in 1 .. n + 1
          BY <1>1
        <5> QED
          BY <3>2, <3>3, <3>5, <4>1, <5>1
      <4>2. CASE i \in 1 .. m
        <5>1. PICK j \in 1 .. n, k \in 1 .. n : NextTracked(j, k) /\ edges[i] = EdgeOf(j, k)
          BY <1>q, <4>2
        <5>2. j \in 1 .. n + 1 /\ k \in 1 .. n + 1
          BY <1>1
        <5>3. NextTracked(j, k)' /\ edges'[i] = EdgeOf(j, k)'
          BY <1>2, <1>3, <3>5, <4>2, <5>1
        <5> QED
          BY <5>2, <5>3
      <4>3. i = m + 1 \/ i \in 1 .. m
        BY <1>n
      <4> QED
        BY <4>1, <4>2, <4>3
    <3>8. Len(outcomes') = n + 1 /\ Len(edges') = m + 1
      BY <1>1, <3>5
    <3>9. OneFailureOneEdge'
      BY <3>6, <3>7, <3>8 DEF OneFailureOneEdge
    <3> QED
      BY <2>2, <3>9
  <2> QED
    BY <1>6, <2>3, <2>4 DEF Tracks
<1> QED
  BY <1>0, <1>5, <1>6 DEF VisitEffect

LEMMA VisitHealth ==
  ASSUME IInv, NEW kf \in Keyframes, Visit(kf)
  PROVE  FailuresCounted' /\ HealthTellsFailedRun'
<1>0. VisitEffect(kf)
  BY VisitCases
<1>n. PICK n \in Nat : n = Len(outcomes)
  BY DEF IInv, Typed, TypeOK
<1>a. /\ outcomes \in Seq([keyframe : Keyframes, tracked : BOOLEAN])
      /\ health \in Seq([keyframe : Keyframes, status : Statuses])
      /\ Len(outcomes) = n /\ Len(health) = n
  BY <1>n DEF IInv, Typed, TypeOK, HealthTellsFailedRun
<1> DEFINE outcome == [keyframe |-> kf, tracked |-> reference' = kf]
           entry   == [keyframe |-> kf, status |-> StatusFor(failures')]
<1>b. outcomes' = Append(outcomes, outcome) /\ health' = Append(health, entry)
  BY <1>0 DEF VisitEffect
<1>c. outcome \in [keyframe : Keyframes, tracked : BOOLEAN]
  BY Zenon
<1>d. entry \in [keyframe : Keyframes, status : Statuses]
  BY DEF StatusFor, Statuses
<1>e. outcome.keyframe = kf
  BY Zenon
<1>f. outcome.tracked <=> reference' = kf
  BY Zenon
<1>g. entry = [keyframe |-> kf, status |-> StatusFor(failures')]
  OBVIOUS
<1> HIDE DEF outcome, entry
<1>1. /\ n \in Nat /\ Len(health) = n
      /\ Len(outcomes') = n + 1 /\ Len(health') = n + 1
      /\ outcomes'[n + 1] = outcome /\ health'[n + 1] = entry
      /\ \A i \in 1 .. n : outcomes'[i] = outcomes[i] /\ health'[i] = health[i]
  <2>1. /\ Len(outcomes') = n + 1 /\ outcomes'[n + 1] = outcome
        /\ \A i \in 1 .. n : outcomes'[i] = outcomes[i]
    BY <1>a, <1>b, <1>c, AppendProperties
  <2>2. /\ Len(health') = n + 1 /\ health'[n + 1] = entry
        /\ \A i \in 1 .. n : health'[i] = health[i]
    BY <1>a, <1>b, <1>d, AppendProperties
  <2> QED
    BY <1>a, <2>1, <2>2
<1>2. \A i, j \in 0 .. n : StreakSince(i, j) => StreakSince(i, j)'
  BY <1>1 DEF StreakSince, FailedRun
<1>3. PICK s \in 0 .. n + 1 : StreakSince(s, n + 1)' /\ failures' = n + 1 - s
  <2>1. CASE reference' = kf /\ failures' = 0
    <3>1. StreakSince(n + 1, n + 1)'
      BY <1>1, <1>f, <2>1 DEF StreakSince, FailedRun
    <3> QED
      BY <1>1, <2>1, <3>1
  <2>2. CASE reference' # kf /\ failures' = failures + 1
    <3>1. PICK i \in 0 .. n : StreakSince(i, n) /\ failures = n - i
      BY <1>n DEF IInv, FailuresCounted
    <3>2. FailedRun(i, n + 1)'
      BY <1>1, <1>f, <2>2, <3>1 DEF StreakSince, FailedRun
    <3>3. StreakSince(i, n + 1)'
      BY <1>1, <3>1, <3>2 DEF StreakSince
    <3> QED
      BY <1>1, <2>2, <3>1, <3>3
  <2> QED
    BY <2>1, <2>2, <1>0 DEF VisitEffect, Tracks, Fails
<1>4. FailuresCounted'
  BY <1>1, <1>3 DEF FailuresCounted
<1>5. ASSUME NEW j \in 1 .. n + 1
      PROVE  \E i \in 0 .. j : StreakSince(i, j)' /\
                health'[j] = [keyframe |-> outcomes'[j].keyframe, status |-> StatusFor(j - i)]
  <2>1. CASE j = n + 1
    BY <1>1, <1>3, <1>e, <1>g, <2>1
  <2>2. CASE j \in 1 .. n
    <3>1. PICK i \in 0 .. j : StreakSince(i, j) /\
             health[j] = [keyframe |-> outcomes[j].keyframe, status |-> StatusFor(j - i)]
      BY <1>n, <2>2 DEF IInv, HealthTellsFailedRun, StreakSince
    <3>2. i \in 0 .. n /\ j \in 0 .. n
      BY <1>1, <2>2, <3>1
    <3> QED
      BY <1>1, <1>2, <2>2, <3>1, <3>2
  <2> QED
    BY <1>1, <2>1, <2>2
<1>6. HealthTellsFailedRun'
  BY <1>1, <1>5 DEF HealthTellsFailedRun, StreakSince
<1> QED
  BY <1>4, <1>6

LEMMA StepInvariant == IInv /\ [Next]_voVars => IInv'
<1> SUFFICES ASSUME IInv, [Next]_voVars PROVE IInv'
  OBVIOUS
<1>1. CASE Next
  <2>1. PICK kf \in Keyframes : Visit(kf)
    BY <1>1 DEF Next, Visit
  <2> QED
    BY <2>1, VisitTyped, VisitChain, VisitEdges, VisitHealth DEF IInv
<1>2. CASE UNCHANGED voVars
  <2>1. (ReferenceLast /\ OneFailureOneEdge)'
    BY <1>2 DEF voVars, IInv, ReferenceLast, OneFailureOneEdge, NextTracked, EdgeOf, FailedRun
  <2> QED
    BY <1>2, <2>1 DEF voVars, IInv, Typed, TypeOK, ReferenceProcessed, EdgesFormPath, ReferenceUsable,
     FailuresCounted, HealthTellsFailedRun, StreakSince, FailedRun
<1> QED
  BY <1>1, <1>2

LEMMA Invariance == Spec => []IInv
  BY InitInvariant, StepInvariant, PTL DEF Spec

\* The state keeps its types, for any keyframes and any bounds.
THEOREM TypeCorrect == Spec => []TypeOK
<1>1. IInv => TypeOK
  BY DEF IInv, Typed
<1> QED
  BY Invariance, <1>1, PTL

\* However many frames fail, and wherever, the emitted edges are one path that
\* ends at the reference: no failure severs the chain.
THEOREM ChainUnbroken == Spec => []EdgesFormPath
<1>1. IInv => EdgesFormPath
  BY DEF IInv
<1> QED
  BY Invariance, <1>1, PTL

\* A reference can always be matched against: the front end is never stuck
\* with one that no frame could track.
THEOREM ReferenceAlwaysUsable == Spec => []ReferenceUsable
<1>1. IInv => ReferenceUsable
  BY DEF IInv
<1> QED
  BY Invariance, <1>1, PTL

\* The health recorded for a frame is the length of the failed run that ends
\* there, for ever after.
THEOREM HealthIsHonest == Spec => []HealthTellsFailedRun
<1>1. IInv => HealthTellsFailedRun
  BY DEF IInv
<1> QED
  BY Invariance, <1>1, PTL

\* A failure, or any run of them, costs no edge but its own, and the chain and
\* its reference survive it: for any keyframes, bounds and failures.
THEOREM ChainSurvives == Spec => []ChainSurvivesFailure
<1>1. IInv => ChainSurvivesFailure
  BY DEF IInv, ChainSurvivesFailure
<1> QED
  BY Invariance, <1>1, PTL
=============================================================================
