------------------------ MODULE AcousticOpticProofs ------------------------
(***************************************************************************)
(* The sonar improves a depth or leaves it alone, and only in step with its *)
(* images; landmarks stay apart, the counters agree with the map, and a run *)
(* that exits 0 earned it: for any rig, bag, arc and gates.                 *)
(***************************************************************************)
EXTENDS AcousticOptic, TLAPS, SequenceTheorems, FiniteSetTheorems, FunctionTheorems,
        NaturalsInduction, WellFoundedInduction

\* The corrected times of a pair and its sonar frame, for a given input.
TimeIn(in, stamp, sensor) ==
  IF stamp \in Stamps /\ sensor \in DOMAIN in.rig.offsets /\ in.rig.offsets[sensor] \in Int
  THEN stamp + in.rig.offsets[sensor] ELSE Malformed

SonarIn(in, kf) ==
  LET mine == {i \in DOMAIN in.sonar : in.sonar[i].keyframe = kf} IN
  IF mine = {} THEN [stamp |-> Missing, detection |-> Missing]
  ELSE in.sonar[CHOOSE i \in mine : \A j \in mine : i <= j]

Times(in, pictures, kf) ==
  {TimeIn(in, pictures[1], "left"), TimeIn(in, pictures[2], "right"),
   TimeIn(in, SonarIn(in, kf).stamp, "sonar")}

Together(in, pictures, kf) ==
  /\ Malformed \notin Times(in, pictures, kf)
  /\ \A s, t \in Times(in, pictures, kf) : s - t <= SyncMaxDelta

\* What DesyncedStaysOptical and SonarOnlyImproves say of one fusion.
InStep(in, f) ==
  AcousticPixels(f) # {} => Together(in, f.timing.times, f.keyframe)

Improved(f) ==
  LET prior == f.timing.prior  optical == OpticalDepth(prior) IN
  /\ Cardinality(AcousticPixels(f)) = IF f.record.status = "accepted" THEN 1 ELSE 0
  /\ \A p \in Pixels \ AcousticPixels(f) : f.depth[p] = optical[p]
  /\ \A p \in AcousticPixels(f) :
       /\ optical[p].contribution = "optical" /\ f.depth[p].depth > 0
       /\ f.depth[p].variance * 100 <= optical[p].variance * (100 - MinImprovement)
       /\ Square(f.depth[p].depth - prior[p]) <= Square(SearchRadius) * optical[p].variance

\* A pair that waits for its fusion is as close in time as its status says, and
\* none waits before the pass over the pairs.
PairTimed ==
  /\ pc \in {"load", "sonar"} => pair = NoPair
  /\ pair # NoPair =>
       /\ pair.prior \in Priors
       /\ pair.status \in {"synchronized", "delta_exceeded"} /\ ~(pair.delta > AssocMaxDelta) =>
            Together(input, pair.times, Order[cursor])

IInv ==
  /\ PairTimed
  /\ fusions \in Seq(Range(fusions))
  /\ \A i \in 1 .. Len(fusions) : InStep(input, fusions[i]) /\ Improved(fusions[i])

-----------------------------------------------------------------------------
(* The synchronizer.                                                        *)

LEMMA SpreadBounds ==
  ASSUME NEW a \in Int, NEW b \in Int, NEW c \in Int
  PROVE  /\ Spread({a, b} \cup {c}) \in Int
         /\ \A s, t \in {a, b} \cup {c} : s - t <= Spread({a, b} \cup {c})
<1> DEFINE T == {a, b} \cup {c}
<1>1. \E t \in T : \A u \in T : u <= t
  OBVIOUS
<1>2. \E t \in T : \A u \in T : t <= u
  OBVIOUS
<1>3. T \subseteq Int
  OBVIOUS
<1> HIDE DEF T
<1> DEFINE top == CHOOSE t \in T : \A u \in T : u <= t
           low == CHOOSE t \in T : \A u \in T : t <= u
<1>4. top \in T /\ \A u \in T : u <= top
  BY <1>1
<1>5. low \in T /\ \A u \in T : low <= u
  BY <1>2
<1>6. Spread(T) = top - low
  BY DEF Spread
<1> HIDE DEF top, low
<1>7. top - low \in Int /\ \A s, t \in T : s - t <= top - low
  BY <1>3, <1>4, <1>5
<1> QED
  BY <1>6, <1>7 DEF T

LEMMA CorrectedTimeTyped ==
  ASSUME NEW stamp, NEW sensor
  PROVE  CorrectedTime(stamp, sensor) = Malformed \/ CorrectedTime(stamp, sensor) \in Int
<1> DEFINE offset == input.rig.offsets[sensor]
<1>1. Stamps \subseteq Int
  BY AcousticOpticAssumption
<1>2. CASE stamp \in Stamps /\ sensor \in DOMAIN input.rig.offsets /\ offset \in Int
  <2>1. stamp \in Int /\ offset \in Int /\ CorrectedTime(stamp, sensor) = stamp + offset
    BY <1>1, <1>2 DEF CorrectedTime
  <2> HIDE DEF offset
  <2> QED
    BY <2>1
<1>3. CASE ~(stamp \in Stamps /\ sensor \in DOMAIN input.rig.offsets /\ offset \in Int)
  BY <1>3 DEF CorrectedTime
<1> QED
  BY <1>2, <1>3

\* Only three usable times get past the first three answers.
LEMMA SynchronizeInStep ==
  ASSUME NEW left, NEW right, NEW sonar,
         Synchronize(left, right, sonar).status \in {"synchronized", "delta_exceeded"},
         ~(Synchronize(left, right, sonar).delta > AssocMaxDelta)
  PROVE  LET times == {CorrectedTime(left, "left"), CorrectedTime(right, "right"),
                       CorrectedTime(sonar, "sonar")}
         IN Malformed \notin times /\ \A s, t \in times : s - t <= SyncMaxDelta
<1> DEFINE l == CorrectedTime(left, "left")
           r == CorrectedTime(right, "right")
           s == CorrectedTime(sonar, "sonar")
           delta == Spread({l, r} \cup {s})
<1>1. /\ l = Malformed \/ l \in Int
      /\ r = Malformed \/ r \in Int
      /\ s = Malformed \/ s \in Int
  BY CorrectedTimeTyped
<1> HIDE DEF l, r, s
<1>2. Synchronize(left, right, sonar) =
        CASE Malformed \in {l, r} -> [status |-> "invalid_timestamp", delta |-> 0]
          [] Malformed \notin {l, r} /\ sonar = Missing -> [status |-> "no_sonar", delta |-> 0]
          [] Malformed \notin {l, r} /\ sonar # Missing /\ s = Malformed ->
               [status |-> "invalid_timestamp", delta |-> 0]
          [] OTHER -> [status |-> IF delta > SyncMaxDelta THEN "delta_exceeded" ELSE "synchronized",
                       delta |-> delta]
  BY Zenon DEF Synchronize, l, r, s
<1> HIDE DEF delta
<1>3. Malformed \notin {l, r}
  BY <1>2
<1>4. sonar # Missing
  BY <1>2, <1>3
<1>5. s # Malformed
  BY <1>2, <1>3, <1>4
<1>6. ~(delta > AssocMaxDelta)
  BY <1>2, <1>3, <1>4, <1>5
<1>7. l \in Int /\ r \in Int /\ s \in Int
  BY <1>1, <1>3, <1>5
<1>8. delta \in Int /\ \A x, y \in {l, r} \cup {s} : x - y <= delta
  BY <1>7, SpreadBounds DEF delta
<1>9. \A x, y \in {l, r, s} : x - y <= SyncMaxDelta
  BY <1>6, <1>7, <1>8, AcousticOpticAssumption
<1>10. Malformed \notin {l, r, s}
  BY <1>3, <1>5
<1> QED
  BY <1>9, <1>10 DEF l, r, s

-----------------------------------------------------------------------------
(* The association and the fusion.                                          *)

\* An association is accepted only at a pixel that has a depth.
LEMMA AcceptedPixel ==
  ASSUME NEW prior, NEW arc, NEW r \in GeometricRecords(prior, arc), r.status = "accepted"
  PROVE  r.pixel \in Pixels /\ prior[r.pixel] > 0
<1> DEFINE scored == Scored(prior, arc)
           best == {s \in scored : \A t \in scored : s.score <= t.score}
           Second(s) == {t \in scored \ {s} : \A u \in scored \ {s} : t.score <= u.score}
           Rival(s, t) == t.score - s.score < AmbiguityMargin /\ ~DepthsAgree(prior[s.pixel], prior[t.pixel])
           Ruling(s, t) == IF Rival(s, t) THEN Record("ambiguous", "ambiguous_margin")
                           ELSE [status |-> "accepted", reason |-> "none", pixel |-> s.pixel]
<1>1. \A s \in scored : s.pixel \in Pixels /\ prior[s.pixel] > 0
  <2> DEFINE candidates == Candidates(prior, arc)
             Score(p) == Square(BestResidual(candidates, p))
  <2>1. \A c \in candidates : c.pixel \in Pixels /\ prior[c.pixel] > 0
    BY DEF Candidates
  <2>2. scored = {[pixel |-> p, score |-> Score(p)] : p \in {c.pixel : c \in candidates}}
    BY Zenon DEF Scored
  <2> HIDE DEF candidates, Score, scored
  <2> QED
    BY <2>1, <2>2
<1>2. ASSUME NEW s, NEW t, Ruling(s, t).status = "accepted" PROVE Ruling(s, t).pixel = s.pixel
  <2> HIDE DEF Rival
  <2>1. CASE Rival(s, t)
    BY <1>2, <2>1 DEF Record
  <2>2. CASE ~Rival(s, t)
    BY <2>2
  <2> QED
    BY <2>1, <2>2
<1>3. r \in (IF scored = {} THEN {Record("rejected", "no_candidate")}
             ELSE UNION {IF scored = {s} THEN {Ruling(s, [s EXCEPT !.score = s.score + AmbiguityMargin])}
                         ELSE {Ruling(s, t) : t \in Second(s)} : s \in best})
  BY Zenon DEF GeometricRecords
<1>4. Record("rejected", "no_candidate").status # "accepted"
  BY DEF Record
<1>5. \A s \in best : s \in scored
  OBVIOUS
<1> HIDE DEF scored, best, Second, Ruling
<1>6. PICK s \in best :
        r \in (IF scored = {s} THEN {Ruling(s, [s EXCEPT !.score = s.score + AmbiguityMargin])}
               ELSE {Ruling(s, t) : t \in Second(s)})
  BY <1>3, <1>4
<1>7. \E t : r = Ruling(s, t)
  BY <1>6
<1> QED
  BY <1>1, <1>2, <1>5, <1>6, <1>7

\* A record comes of usable timing, and of a delta the associator allows.
LEMMA AcceptedTiming ==
  ASSUME NEW arc, PairTimed, pair # NoPair,
         NEW r \in Associate(Hypothesis, pair.delta, pair.prior, arc), r.status = "accepted"
  PROVE  /\ pair.status \in {"synchronized", "delta_exceeded"} /\ ~(pair.delta > AssocMaxDelta)
         /\ r.pixel \in Pixels /\ pair.prior[r.pixel] > 0
<1>1. Hypothesis # Missing
  BY DEF Associate
<1>2. pair.status \in {"synchronized", "delta_exceeded"}
  BY <1>1 DEF Hypothesis
<1>3. ~(pair.delta > AssocMaxDelta)
  BY <1>1 DEF Associate, Record
<1>4. r \in GeometricRecords(pair.prior, arc)
  BY <1>1, <1>3 DEF Associate, Record
<1>5. r.pixel \in Pixels /\ pair.prior[r.pixel] > 0
  BY <1>4, AcceptedPixel
<1> QED
  BY <1>2, <1>3, <1>5

\* The variance of a depth that is one.
LEMMA VarianceTyped ==
  ASSUME NEW d \in Depths, d > 0
  PROVE  d \in Depths \ {0} /\ VarianceOf[d] \in Nat
<1>1. Depths \subseteq Nat /\ VarianceOf \in [Depths \ {0} -> Nat \ {0}]
  BY AcousticOpticAssumption
<1>2. d \in Depths \ {0}
  BY <1>1
<1> QED
  BY <1>1, <1>2

\* What a valid posterior of the bounded search is.
LEMMA PosteriorInWindow ==
  ASSUME NEW d \in Depths, d > 0, NEW q \in Posteriors(d), q.valid
  PROVE  /\ q.variance \in Nat /\ q.depth \in Nat /\ q.depth > 0 /\ q.depth \in Depths
         /\ Square(q.depth - d) <= Square(SearchRadius) * VarianceOf[d]
<1> DEFINE InWindow == {x \in Depths \ {0} : Square(x - d) <= Square(SearchRadius) * VarianceOf[d]}
           Variances == 1 .. VarianceOf[d] + 1
           Innovations == {InnovationGate, InnovationGate + 1}
<1>1. q \in {[valid |-> FALSE]} \cup
        [valid : {TRUE}, variance : Variances, innovation : Innovations, depth : InWindow]
  BY Zenon DEF Posteriors
<1> HIDE DEF InWindow, Variances, Innovations
<1>2. q \in [valid : {TRUE}, variance : Variances, innovation : Innovations, depth : InWindow]
  <2>1. ~[valid |-> FALSE].valid
    OBVIOUS
  <2> QED
    BY <1>1, <2>1
<1>3. q.variance \in Variances /\ q.depth \in InWindow
  BY <1>2
<1>4. q.variance \in Nat
  BY <1>3, VarianceTyped DEF Variances
<1>5. q.depth \in Nat /\ q.depth > 0 /\ q.depth \in Depths
  <2>1. q.depth \in Depths /\ q.depth # 0
    BY <1>3, Zenon DEF InWindow
  <2>2. Depths \subseteq Nat
    BY AcousticOpticAssumption
  <2>3. q.depth \in Nat
    BY <2>1, <2>2
  <2> QED
    BY <2>1, <2>3
<1>6. Square(q.depth - d) <= Square(SearchRadius) * VarianceOf[d]
  BY <1>3, Zenon DEF InWindow
<1> QED
  BY <1>4, <1>5, <1>6

\* A depth with one pixel overwritten.
LEMMA OnePixelChanged ==
  ASSUME NEW h, NEW p \in DOMAIN h, NEW e, NEW g, g = [h EXCEPT ![p] = e]
  PROVE  g[p] = e /\ \A q \in DOMAIN h \ {p} : g[q] = h[q]
OBVIOUS

\* A settled record leaves the optical depth alone, or improves one pixel of it.
LEMMA FusionImproves ==
  ASSUME NEW prior \in Priors, NEW associated, NEW posterior,
         associated.status = "accepted" =>
           /\ associated.pixel \in Pixels /\ prior[associated.pixel] > 0
           /\ posterior \in Posteriors(prior[associated.pixel]),
         NEW kf,
         NEW record, record = Verdict(associated, posterior,
                       IF associated.status = "accepted" THEN prior[associated.pixel] ELSE 0),
         NEW f, f.timing.prior = prior, f.record = record, f.depth = FusedDepth(prior, record, posterior)
  PROVE  /\ Improved(f)
         /\ AcousticPixels(f) # {} => associated.status = "accepted"
<1> DEFINE optical == OpticalDepth(prior)
<1>1. /\ DOMAIN optical = Pixels
      /\ \A p \in Pixels : optical[p].contribution \in {"optical", "invalid"}
      /\ \A p \in Pixels : prior[p] > 0 =>
            optical[p].contribution = "optical" /\ optical[p].variance = VarianceOf[prior[p]]
  <2>1. DOMAIN optical = Pixels
    BY DEF OpticalDepth
  <2>2. \A p \in Pixels :
          /\ optical[p].variance = IF prior[p] > 0 THEN VarianceOf[prior[p]] ELSE 0
          /\ optical[p].contribution = IF prior[p] > 0 THEN "optical" ELSE "invalid"
    BY DEF OpticalDepth
  <2> HIDE DEF optical
  <2> QED
    BY <2>1, <2>2
<1>2. \A p \in Pixels : optical[p].contribution # "acoustic_optic"
  BY <1>1
<1> HIDE DEF optical
<1>3. CASE record.status # "accepted"
  <2>1. f.depth = optical
    BY <1>3 DEF FusedDepth, optical
  <2>2. AcousticPixels(f) = {}
    BY <1>2, <2>1 DEF AcousticPixels
  <2>3. Cardinality(AcousticPixels(f)) = 0
    BY <2>2, FS_EmptySet
  <2> QED
    BY <1>3, <2>1, <2>2, <2>3 DEF Improved, optical
<1>4. CASE record.status = "accepted"
  <2> DEFINE p == associated.pixel
             d == prior[p]
  <2>1. associated.status = "accepted"
    BY <1>4 DEF Verdict
  <2>2. p \in Pixels /\ d > 0 /\ posterior \in Posteriors(d)
    BY <2>1
  <2>3. d \in Depths
    BY <2>2 DEF Priors
  <2>4. /\ record = associated /\ posterior.valid
        /\ ~(posterior.variance * 100 > VarianceOf[d] * (100 - MinImprovement))
    BY <1>4, <2>1 DEF Verdict
  <2> DEFINE e == [depth |-> posterior.depth, variance |-> posterior.variance,
                   contribution |-> "acoustic_optic"]
  <2> HIDE DEF d
  <2>5. /\ VarianceOf[d] \in Nat
        /\ posterior.variance \in Nat /\ posterior.depth \in Nat /\ posterior.depth > 0
        /\ Square(posterior.depth - d) <= Square(SearchRadius) * VarianceOf[d]
    BY <2>2, <2>3, <2>4, VarianceTyped, PosteriorInWindow
  <2> HIDE DEF p
  <2>6. p \in DOMAIN optical /\ DOMAIN optical = Pixels /\ f.depth = [optical EXCEPT ![p] = e]
    <3>1. DOMAIN optical = Pixels
      BY <1>1
    <3>2. f.depth = [optical EXCEPT ![p] = e]
      BY <1>4, <2>4 DEF FusedDepth, optical, p
    <3> QED
      BY <2>2, <3>1, <3>2
  <2>7. /\ f.depth[p].contribution = "acoustic_optic"
        /\ f.depth[p].depth = posterior.depth /\ f.depth[p].variance = posterior.variance
        /\ \A q \in Pixels \ {p} : f.depth[q] = optical[q]
    <3>1. e.contribution = "acoustic_optic" /\ e.depth = posterior.depth /\ e.variance = posterior.variance
      OBVIOUS
    <3> HIDE DEF e, optical
    <3>2. f.depth[p] = e /\ \A q \in Pixels \ {p} : f.depth[q] = optical[q]
      BY <2>6, OnePixelChanged
    <3> QED
      BY <3>1, <3>2
  <2>8. AcousticPixels(f) = {p}
    BY <1>2, <2>2, <2>7 DEF AcousticPixels
  <2>9. Cardinality(AcousticPixels(f)) = 1
    BY <2>8, FS_Singleton
  <2>10. optical[p].contribution = "optical" /\ optical[p].variance = VarianceOf[d]
    BY <1>1, <2>2 DEF d
  <2>11. f.depth[p].depth > 0
    BY <2>5, <2>7
  <2>12. f.depth[p].variance * 100 <= optical[p].variance * (100 - MinImprovement)
    <3>1. MinImprovement \in Nat
      BY AcousticOpticAssumption
    <3>2. VarianceOf[d] * (100 - MinImprovement) \in Int
      BY <2>5, <3>1
    <3> QED
      BY <2>4, <2>5, <2>7, <2>10, <3>2
  <2>13. Square(f.depth[p].depth - prior[p]) <= Square(SearchRadius) * optical[p].variance
    BY <2>5, <2>7, <2>10 DEF d
  <2> QED
    BY <1>4, <2>1, <2>7, <2>8, <2>9, <2>10, <2>11, <2>12, <2>13 DEF Improved, optical
<1> QED
  BY <1>3, <1>4

\* A depth map with the pixel of an accepted record overwritten is one.
LEMMA FusedTyped ==
  ASSUME NEW prior \in Priors, NEW associated, NEW posterior,
         associated.status = "accepted" =>
           /\ associated.pixel \in Pixels /\ prior[associated.pixel] > 0
           /\ posterior \in Posteriors(prior[associated.pixel]),
         NEW record, record = Verdict(associated, posterior,
                       IF associated.status = "accepted" THEN prior[associated.pixel] ELSE 0)
  PROVE  FusedDepth(prior, record, posterior) \in FusedDepths
<1> DEFINE optical == OpticalDepth(prior)
           Cells == [depth : Depths, variance : Nat,
                     contribution : {"invalid", "optical", "acoustic_optic"}]
<1>1. optical \in [Pixels -> Cells]
  <2> DEFINE cell(p) == [depth |-> prior[p], variance |-> IF prior[p] > 0 THEN VarianceOf[prior[p]] ELSE 0,
                         contribution |-> IF prior[p] > 0 THEN "optical" ELSE "invalid"]
  <2>1. ASSUME NEW p \in Pixels PROVE cell(p) \in Cells
    <3>1. prior[p] \in Depths
      BY DEF Priors
    <3>2. CASE prior[p] > 0
      BY <3>1, <3>2, VarianceTyped
    <3>3. CASE ~(prior[p] > 0)
      BY <3>1, <3>3
    <3> QED
      BY <3>2, <3>3
  <2>2. optical = [p \in Pixels |-> cell(p)]
    BY DEF OpticalDepth
  <2> HIDE DEF cell, Cells, optical
  <2> QED
    BY <2>1, <2>2
<1> HIDE DEF optical
<1>2. CASE record.status # "accepted"
  BY <1>1, <1>2 DEF FusedDepth, optical, FusedDepths
<1>3. CASE record.status = "accepted"
  <2> DEFINE p == associated.pixel
             d == prior[p]
  <2>1. associated.status = "accepted"
    BY <1>3 DEF Verdict
  <2>2. p \in Pixels /\ d > 0 /\ posterior \in Posteriors(d)
    BY <2>1
  <2>3. d \in Depths
    BY <2>2 DEF Priors
  <2>4. record = associated /\ posterior.valid
    BY <1>3, <2>1 DEF Verdict
  <2> DEFINE e == [depth |-> posterior.depth, variance |-> posterior.variance,
                   contribution |-> "acoustic_optic"]
  <2> HIDE DEF d
  <2>5. posterior.variance \in Nat /\ posterior.depth \in Depths
    BY <2>2, <2>3, <2>4, PosteriorInWindow
  <2>6. e \in Cells
    BY <2>5
  <2>7. FusedDepth(prior, record, posterior) = [optical EXCEPT ![p] = e]
    BY <1>3, <2>4 DEF FusedDepth, optical
  <2> HIDE DEF p, e, Cells
  <2>8. [optical EXCEPT ![p] = e] \in [Pixels -> Cells]
    BY <1>1, <2>2, <2>6
  <2> QED
    BY <2>7, <2>8 DEF FusedDepths, Cells
<1> QED
  BY <1>2, <1>3

-----------------------------------------------------------------------------
(* The invariant.                                                           *)

LEMMA Start == Init => IInv
<1> SUFFICES ASSUME Init PROVE IInv
  OBVIOUS
<1>1. fusions = <<>> /\ Len(fusions) = 0 /\ pair = NoPair
  BY DEF Init
<1>2. fusions \in Seq(Range(fusions))
  BY <1>1, EmptySeq
<1>3. PairTimed
  BY <1>1 DEF PairTimed
<1> QED
  BY <1>1, <1>2, <1>3 DEF IInv

\* Steps that fuse nothing.
LEMMA FusionsAlone ==
  ASSUME IInv, input' = input, fusions' = fusions, PairTimed'
  PROVE  IInv'
<1>1. Len(fusions') = Len(fusions) /\ fusions' \in Seq(Range(fusions'))
  BY DEF IInv
<1>2. \A i \in 1 .. Len(fusions') : InStep(input', fusions'[i]) /\ Improved(fusions'[i])
  BY DEF IInv
<1> QED
  BY <1>1, <1>2 DEF IInv

LEMMA TimesAreCorrected ==
  /\ \A stamp, sensor : CorrectedTime(stamp, sensor) = TimeIn(input, stamp, sensor)
  /\ \A kf : SonarOf(kf) = SonarIn(input, kf)
<1>1. ASSUME NEW stamp, NEW sensor PROVE CorrectedTime(stamp, sensor) = TimeIn(input, stamp, sensor)
  BY DEF CorrectedTime, TimeIn
<1>2. ASSUME NEW kf PROVE SonarOf(kf) = SonarIn(input, kf)
  BY Zenon DEF SonarOf, SonarIn
<1> QED
  BY <1>1, <1>2

LEMMA TimePairKeeps ==
  ASSUME IInv, NEW left, NEW right, NEW images, NEW prior \in Priors,
         TimePair(left, right, images, prior)
  PROVE  IInv'
<1>1. input' = input /\ fusions' = fusions /\ pc = "pair" /\ pc' = pc
  BY DEF TimePair
<1>2. CASE pair' = NoPair
  BY <1>1, <1>2, FusionsAlone DEF PairTimed
<1>3. CASE /\ pair' = [status |-> Synchronize(left, right, SonarOf(Order[cursor]).stamp).status,
                       delta |-> Synchronize(left, right, SonarOf(Order[cursor]).stamp).delta,
                       prior |-> prior, times |-> <<left, right>>]
           /\ cursor' = cursor
  <2> DEFINE kf == Order[cursor]
             sync == Synchronize(left, right, SonarOf(kf).stamp)
  <2>1. /\ pair'.times[1] = left /\ pair'.times[2] = right
        /\ pair'.status = sync.status /\ pair'.delta = sync.delta /\ pair'.prior = prior
    BY <1>3
  <2>2. Order'[cursor'] = kf
    BY <1>1, <1>3 DEF Order
  <2> HIDE DEF kf
  <2>3. ASSUME pair'.status \in {"synchronized", "delta_exceeded"}, ~(pair'.delta > AssocMaxDelta)
        PROVE  Together(input, pair'.times, kf)
    <3>1. LET times == {CorrectedTime(left, "left"), CorrectedTime(right, "right"),
                        CorrectedTime(SonarOf(kf).stamp, "sonar")}
          IN Malformed \notin times /\ \A s, t \in times : s - t <= SyncMaxDelta
      BY <2>1, <2>3, SynchronizeInStep
    <3>2. Times(input, pair'.times, kf) =
            {CorrectedTime(left, "left"), CorrectedTime(right, "right"),
             CorrectedTime(SonarOf(kf).stamp, "sonar")}
      BY <2>1, TimesAreCorrected DEF Times
    <3> QED
      BY <3>1, <3>2 DEF Together
  <2>4. PairTimed'
    BY <1>1, <2>1, <2>2, <2>3 DEF PairTimed
  <2> QED
    BY <1>1, <2>4, FusionsAlone
<1> QED
  BY <1>2, <1>3 DEF TimePair, NextKeyframe

LEMMA FusePairKeeps ==
  ASSUME IInv, NEW arc, FusePair(arc)
  PROVE  IInv'
<1> DEFINE records == Associate(Hypothesis, pair.delta, pair.prior, arc)
           PosteriorsOf(associated) ==
             IF associated.status = "accepted"
             THEN Posteriors(pair.prior[associated.pixel]) ELSE {[valid |-> FALSE]}
           DepthOf(associated) ==
             IF associated.status = "accepted" THEN pair.prior[associated.pixel] ELSE 0
           Fused(record, posterior) == FusedDepth(pair.prior, record, posterior)
           Fusion(record, posterior) ==
             [keyframe |-> Order[cursor], timing |-> pair, record |-> record,
              depth |-> Fused(record, posterior)]
<1>1. pair # NoPair /\ input' = input /\ pair' = NoPair
  BY DEF FusePair, NextKeyframe
<1>2. PICK associated \in IF records = {} THEN {NoRecord} ELSE records :
        \E posterior \in PosteriorsOf(associated) :
          fusions' = Append(fusions, Fusion(Verdict(associated, posterior, DepthOf(associated)), posterior))
  BY Zenon DEF FusePair
<1>3. PICK posterior \in PosteriorsOf(associated) :
        fusions' = Append(fusions, Fusion(Verdict(associated, posterior, DepthOf(associated)), posterior))
  BY <1>2
<1> DEFINE record == Verdict(associated, posterior, DepthOf(associated))
           f == Fusion(record, posterior)
<1>4. /\ f.timing.prior = pair.prior /\ f.timing.times = pair.times /\ f.keyframe = Order[cursor]
      /\ f.record = record /\ f.depth = FusedDepth(pair.prior, record, posterior)
  OBVIOUS
<1>5. pair.prior \in Priors
  BY <1>1 DEF IInv, PairTimed
<1>6. associated.status = "accepted" => associated \in records
  BY DEF NoRecord, Record
<1>7. associated.status = "accepted" =>
        /\ pair.status \in {"synchronized", "delta_exceeded"} /\ ~(pair.delta > AssocMaxDelta)
        /\ associated.pixel \in Pixels /\ pair.prior[associated.pixel] > 0
        /\ posterior \in Posteriors(pair.prior[associated.pixel])
  <2> SUFFICES ASSUME associated.status = "accepted"
               PROVE  /\ pair.status \in {"synchronized", "delta_exceeded"} /\ ~(pair.delta > AssocMaxDelta)
                      /\ associated.pixel \in Pixels /\ pair.prior[associated.pixel] > 0
                      /\ posterior \in Posteriors(pair.prior[associated.pixel])
    OBVIOUS
  <2>1. posterior \in Posteriors(pair.prior[associated.pixel])
    OBVIOUS
  <2>2. PairTimed
    BY DEF IInv
  <2>3. associated \in Associate(Hypothesis, pair.delta, pair.prior, arc)
    BY <1>6
  <2> QED
    BY <1>1, <2>1, <2>2, <2>3, AcceptedTiming
<1> HIDE DEF records, PosteriorsOf, DepthOf, Fused, Fusion, record, f
<1>8. record = Verdict(associated, posterior,
                       IF associated.status = "accepted" THEN pair.prior[associated.pixel] ELSE 0)
  BY DEF record, DepthOf
<1>9. Improved(f) /\ (AcousticPixels(f) # {} => associated.status = "accepted")
  BY <1>4, <1>5, <1>7, <1>8, FusionImproves
<1>10. InStep(input, f)
  BY <1>1, <1>4, <1>7, <1>9 DEF InStep, IInv, PairTimed
<1>11. fusions' = Append(fusions, f)
  BY <1>3 DEF f, record
<1> DEFINE S == Range(fusions) \cup {f}
<1>12. fusions \in Seq(S) /\ f \in S
  <2>1. Range(fusions) \subseteq S
    OBVIOUS
  <2>2. fusions \in Seq(Range(fusions))
    BY DEF IInv
  <2> HIDE DEF S
  <2>3. fusions \in Seq(S)
    BY <2>1, <2>2, SeqMonotonic
  <2> QED
    BY <2>3 DEF S
<1> HIDE DEF S
<1>13. /\ fusions' \in Seq(S) /\ Len(fusions') = Len(fusions) + 1 /\ Len(fusions) \in Nat
       /\ \A i \in 1 .. Len(fusions) : fusions'[i] = fusions[i]
       /\ fusions'[Len(fusions) + 1] = f
  BY <1>11, <1>12, AppendProperties, LenProperties
<1>14. fusions' \in Seq(Range(fusions'))
  BY <1>13, SeqOfRange
<1>15. \A i \in 1 .. Len(fusions') : InStep(input', fusions'[i]) /\ Improved(fusions'[i])
  <2> SUFFICES ASSUME NEW i \in 1 .. Len(fusions')
               PROVE  InStep(input, fusions'[i]) /\ Improved(fusions'[i])
    BY <1>1
  <2>1. i \in 1 .. Len(fusions) \/ i = Len(fusions) + 1
    BY <1>13
  <2> QED
    BY <1>9, <1>10, <1>13, <2>1 DEF IInv
<1>16. PairTimed'
  BY <1>1 DEF PairTimed
<1> QED
  BY <1>14, <1>15, <1>16 DEF IInv

LEMMA Step == IInv /\ [Next]_vars => IInv'
<1> SUFFICES ASSUME IInv, [Next]_vars PROVE IInv'
  OBVIOUS
<1>1. CASE UNCHANGED vars
  <2>1. PairTimed'
    BY <1>1 DEF vars, IInv, PairTimed, Order
  <2> QED
    BY <1>1, <2>1, FusionsAlone DEF vars
<1>2. CASE Load
  <2>1. input' = input /\ fusions' = fusions /\ pair = NoPair /\ pair' = pair
    BY <1>2 DEF Load, IInv, PairTimed
  <2> QED
    BY <2>1, FusionsAlone DEF PairTimed
<1>3. CASE SonarFrame \/ Publish
  <2>1. input' = input /\ fusions' = fusions /\ pair = NoPair /\ pair' = pair
    BY <1>3 DEF SonarFrame, Publish, IInv, PairTimed
  <2> QED
    BY <2>1, FusionsAlone DEF PairTimed
<1>4. CASE SkipKeyframe \/ Finished
  <2>1. input' = input /\ fusions' = fusions /\ pair' = NoPair
    BY <1>4 DEF SkipKeyframe, Finished, NextKeyframe
  <2> QED
    BY <2>1, FusionsAlone DEF PairTimed
<1>5. CASE \E left, right \in Stamps \cup {Malformed}, images \in ImagePairs, prior \in Priors :
             TimePair(left, right, images, prior)
  BY <1>5, TimePairKeeps
<1>6. CASE \E arc \in Arcs : FusePair(arc)
  BY <1>6, FusePairKeeps
<1> QED
  BY <1>1, <1>2, <1>3, <1>4, <1>5, <1>6 DEF Next

LEMMA Invariance == Spec => []IInv
BY Start, Step, PTL DEF Spec

LEMMA FusionDomain ==
  ASSUME IInv
  PROVE  \A i \in DOMAIN fusions : InStep(input, fusions[i]) /\ Improved(fusions[i])
<1>1. DOMAIN fusions = 1 .. Len(fusions)
  BY LenProperties DEF IInv
<1> QED
  BY <1>1 DEF IInv

\* Wherever the sonar is not accepted the depth is the stereo depth; where it is,
\* one pixel has improved by the share asked for, within the search window.  For
\* any pixels, depths, arcs, variances and gates, and whatever the search returns.
THEOREM SonarImprovesOnly == Spec => []SonarOnlyImproves
<1>1. IInv => SonarOnlyImproves
  <2> SUFFICES ASSUME IInv PROVE SonarOnlyImproves
    OBVIOUS
  <2>1. \A i \in DOMAIN fusions : Improved(fusions[i])
    BY FusionDomain
  <2> QED
    BY <2>1, Zenon DEF SonarOnlyImproves, Improved
<1> QED
  BY Invariance, <1>1, PTL

\* A sonar frame that is out of step with either image, or whose time or whose
\* images' times are unusable, corrects nothing.
THEOREM DesyncedIsOptical == Spec => []DesyncedStaysOptical
<1>1. IInv => DesyncedStaysOptical
  <2> SUFFICES ASSUME IInv, NEW i \in DOMAIN fusions, AcousticPixels(fusions[i]) # {}
               PROVE  LET f == fusions[i]
                          times == {CorrectedTime(f.timing.times[1], "left"),
                                    CorrectedTime(f.timing.times[2], "right"),
                                    CorrectedTime(SonarOf(f.keyframe).stamp, "sonar")}
                      IN Malformed \notin times /\ \A s, t \in times : s - t <= SyncMaxDelta
    BY Zenon DEF DesyncedStaysOptical
  <2>1. Together(input, fusions[i].timing.times, fusions[i].keyframe)
    BY FusionDomain DEF InStep
  <2> QED
    BY <2>1, TimesAreCorrected DEF Together, Times
<1> QED
  BY Invariance, <1>1, PTL

-----------------------------------------------------------------------------
(* The map: landmarks stay apart and in place, and the counters of the run    *)
(* agree with the points in it.                                              *)

Places == Int \X Int
Evidences == {LandmarkEvidence(p) : p \in Places}
LandmarkEntries == [evidence : Seq(Evidences), pose : {Origin}, stale : BOOLEAN]

\* The landmark a map entered at i, how many there are, and all of them.
At(m, i) == m["landmarks"].evidence[i].points[0]
Entered(m) == Len(m["landmarks"].evidence)
Known(m) == {At(m, i) : i \in 1 .. Entered(m)}

MapSound(m) ==
  /\ "landmarks" \in DOMAIN m
  /\ m["landmarks"] \in LandmarkEntries
  /\ \A i, j \in 1 .. Entered(m) : i # j => Distance(At(m, i), At(m, j)) > LandmarkGate

FactorSound(m, f) ==
  f.landmark \in Known(m) /\ Distance(f.landmark, f.predicted) <= LandmarkGate

FactorsSound(m, fs) ==
  fs \in Seq(Range(fs)) /\ \A i \in 1 .. Len(fs) : FactorSound(m, fs[i])

\* Before the poses are published only landmarks are in the map, and evidence of
\* depth is entered under the id of a keyframe.
StageInv ==
  /\ input \in Inputs /\ cursor \in Nat \ {0}
  /\ pc \in {"load", "sonar"} => DOMAIN map = {"landmarks"} /\ pair = NoPair
  /\ pair # NoPair => cursor \in DOMAIN Order

MapInv == MapSound(map) /\ FactorsSound(map, factors) /\ StageInv

-----------------------------------------------------------------------------
(* Distances and places.                                                    *)

LEMMA DistanceFacts ==
  ASSUME NEW p \in Places, NEW q \in Places
  PROVE  /\ Distance(p, q) \in Nat
         /\ Distance(p, q) = Distance(q, p)
         /\ Distance(p, p) = 0
BY DEF Distance, Gap, Places

LEMMA LeastElement ==
  ASSUME NEW T, T \subseteq Nat, T # {}
  PROVE  \E x \in T : \A y \in T : x <= y
<1>1. IsWellFoundedOn(OpToRel(<, Nat), Nat)
  BY NatLessThanWellFounded
<1>2. PICK x \in T : \A y \in T : <<y, x>> \notin OpToRel(<, Nat)
  BY <1>1, WFMin
<1>3. ASSUME NEW y \in T PROVE x <= y
  <2>1. ~ (y < x)
    BY <1>2 DEF OpToRel
  <2> QED
    BY <2>1
<1> QED
  BY <1>3

LEMMA EvidenceFacts ==
  ASSUME NEW e \in Evidences
  PROVE  e.points = [p \in {0} |-> e.points[0]] /\ e.points[0] \in Places
<1>1. PICK p \in Places : e = LandmarkEvidence(p)
  BY DEF Evidences
<1>2. e.points = [x \in {0} |-> p]
  BY <1>1 DEF LandmarkEvidence
<1> QED
  BY <1>2

\* The points of the landmark entry are the landmarks entered.
LEMMA PointsAreKnown ==
  ASSUME NEW m, MapSound(m)
  PROVE  /\ Entered(m) \in Nat
         /\ \A i \in 1 .. Entered(m) : At(m, i) \in Places
         /\ Known(m) \subseteq Places
         /\ WorldPointsForKeyframe(m, "landmarks") = Known(m)
<1> DEFINE entry == m["landmarks"]
           ev == entry.evidence
<1>1. ev \in Seq(Evidences) /\ entry.pose = 0 /\ "landmarks" \in DOMAIN m
  BY DEF MapSound, LandmarkEntries, Origin
<1>2. /\ Len(ev) \in Nat /\ DOMAIN ev = 1 .. Len(ev)
      /\ \A i \in 1 .. Len(ev) : ev[i] \in Evidences
  BY <1>1
<1>3. \A i \in 1 .. Len(ev) :
        ev[i].points = [p \in {0} |-> At(m, i)] /\ At(m, i) \in Places
  BY <1>2, EvidenceFacts DEF At
<1>4. Entered(m) = Len(ev)
  BY DEF Entered
<1>5. Known(m) \subseteq Places
  BY <1>3, <1>4 DEF Known
<1>6. WorldPointsForKeyframe(m, "landmarks") = Known(m)
  <2>1. Entry(m, "landmarks") = entry
    BY <1>1 DEF Entry
  <2>2. WorldPointsForKeyframe(m, "landmarks") =
          UNION {{Apply(entry.pose, ev[i].points[p]) : p \in DOMAIN ev[i].points} : i \in DOMAIN ev}
    BY <2>1 DEF WorldPointsForKeyframe
  <2> HIDE DEF ev, entry
  <2>3. ASSUME NEW i \in 1 .. Len(ev)
        PROVE  {Apply(entry.pose, ev[i].points[p]) : p \in DOMAIN ev[i].points} = {At(m, i)}
    <3>1. DOMAIN ev[i].points = {0} /\ ev[i].points[0] = At(m, i)
      BY <1>3
    <3>2. Apply(entry.pose, At(m, i)) = At(m, i)
      BY <1>1, <1>3 DEF Apply, Places
    <3> QED
      BY <3>1, <3>2
  <2> DEFINE PointsOf(i) == {Apply(entry.pose, ev[i].points[p]) : p \in DOMAIN ev[i].points}
  <2>4. \A i \in DOMAIN ev : PointsOf(i) = {At(m, i)}
    BY <1>2, <2>3
  <2>5. WorldPointsForKeyframe(m, "landmarks") = UNION {PointsOf(i) : i \in DOMAIN ev}
    BY <2>2
  <2> HIDE DEF PointsOf
  <2>6. WorldPointsForKeyframe(m, "landmarks") = {At(m, i) : i \in DOMAIN ev}
    BY <2>4, <2>5
  <2> QED
    BY <1>2, <1>4, <2>6 DEF Known
<1> QED
  BY <1>2, <1>3, <1>4, <1>5, <1>6

\* Nothing near means that every point of the map is beyond the gate.
LEMMA NothingNear ==
  ASSUME NEW m, NEW query \in Places, WorldPoints(m) \subseteq Places,
         QueryNearestPoint(m, query, LandmarkGate) = {}
  PROVE  \A p \in WorldPoints(m) : Distance(p, query) > LandmarkGate
<1> SUFFICES ASSUME NEW p \in WorldPoints(m), ~(Distance(p, query) > LandmarkGate)
             PROVE  FALSE
  OBVIOUS
<1> DEFINE Distances == {Distance(q, query) : q \in WorldPoints(m)}
<1>1. \A q \in WorldPoints(m) : Distance(q, query) \in Nat
  BY DistanceFacts
<1>2. Distances \subseteq Nat /\ Distances # {}
  BY <1>1
<1>3. PICK d \in Distances : \A e \in Distances : d <= e
  BY <1>2, LeastElement
<1>4. PICK q \in WorldPoints(m) : d = Distance(q, query)
  OBVIOUS
<1>5. \A r \in WorldPoints(m) : Distance(q, query) <= Distance(r, query)
  BY <1>3, <1>4
<1>6. Distance(q, query) <= LandmarkGate
  <2>1. LandmarkGate \in Nat
    BY AcousticOpticAssumption
  <2> QED
    BY <1>1, <1>5, <2>1
<1>7. q \in QueryNearestPoint(m, query, LandmarkGate)
  BY <1>5, <1>6 DEF QueryNearestPoint
<1> QED
  BY <1>7

-----------------------------------------------------------------------------
(* The sonar pass.                                                          *)

LEMMA OnlyLandmarks ==
  ASSUME NEW m, MapSound(m), DOMAIN m = {"landmarks"}
  PROVE  WorldPoints(m) = Known(m)
<1>1. WorldPointsForKeyframe(m, "landmarks") = Known(m)
  BY PointsAreKnown
<1> QED
  BY <1>1 DEF WorldPoints

\* A landmark that is far from all the others may be entered.
LEMMA LandmarkEntered ==
  ASSUME NEW m, MapSound(m), NEW place \in Places,
         \A p \in Known(m) : Distance(p, place) > LandmarkGate,
         NEW n, n = AddMapEvidence(m, LandmarkEvidence(place))
  PROVE  /\ MapSound(n)
         /\ DOMAIN n = DOMAIN m
         /\ Known(m) \subseteq Known(n) /\ place \in Known(n)
<1> DEFINE entry == m["landmarks"]
           ev == entry.evidence
           new == LandmarkEvidence(place)
<1>1. /\ "landmarks" \in DOMAIN m
      /\ entry \in [evidence : Seq(Evidences), pose : {Origin}, stale : BOOLEAN]
  BY DEF MapSound, LandmarkEntries
<1>2. new \in Evidences /\ new.keyframe = "landmarks" /\ new.points[0] = place
  <2>1. new.keyframe = "landmarks" /\ new.points[0] = place
    BY DEF LandmarkEvidence
  <2> QED
    BY <2>1 DEF Evidences
<1> HIDE DEF new
<1>3. /\ n["landmarks"] = [entry EXCEPT !.evidence = Append(@, new)]
      /\ DOMAIN n = DOMAIN m
  BY <1>1, <1>2 DEF AddMapEvidence, WithEntry, Entry, new
<1> HIDE DEF entry
<1>4. ev \in Seq(Evidences)
  BY <1>1
<1>5. /\ n["landmarks"].evidence = Append(ev, new)
      /\ n["landmarks"].pose = entry.pose /\ n["landmarks"].stale = entry.stale
      /\ n["landmarks"] = [evidence |-> Append(ev, new), pose |-> entry.pose, stale |-> entry.stale]
  BY <1>1, <1>3
<1> HIDE DEF ev
<1>6. /\ Append(ev, new) \in Seq(Evidences) /\ Len(Append(ev, new)) = Len(ev) + 1 /\ Len(ev) \in Nat
      /\ \A i \in 1 .. Len(ev) : Append(ev, new)[i] = ev[i]
      /\ Append(ev, new)[Len(ev) + 1] = new
  BY <1>2, <1>4, AppendProperties, LenProperties
<1>7. n["landmarks"] \in LandmarkEntries
  BY <1>1, <1>5, <1>6 DEF LandmarkEntries
<1>8. /\ Entered(m) = Len(ev) /\ Entered(n) = Len(ev) + 1
      /\ \A i \in 1 .. Len(ev) : At(n, i) = At(m, i)
      /\ At(n, Len(ev) + 1) = place
  BY <1>2, <1>5, <1>6 DEF Entered, At, ev, entry
<1>9. \A i \in 1 .. Len(ev) : At(m, i) \in Places /\ Distance(At(m, i), place) > LandmarkGate
  BY <1>8, PointsAreKnown DEF Known
<1>10. ASSUME NEW i \in 1 .. Entered(n), NEW j \in 1 .. Entered(n), i # j
       PROVE  Distance(At(n, i), At(n, j)) > LandmarkGate
  <2>1. CASE i \in 1 .. Len(ev) /\ j \in 1 .. Len(ev)
    BY <1>8, <1>10, <2>1 DEF MapSound
  <2>2. CASE i \in 1 .. Len(ev) /\ j = Len(ev) + 1
    BY <1>8, <1>9, <2>2
  <2>3. CASE i = Len(ev) + 1 /\ j \in 1 .. Len(ev)
    BY <1>8, <1>9, <2>3, DistanceFacts
  <2> QED
    BY <1>6, <1>8, <1>10, <2>1, <2>2, <2>3
<1>11. MapSound(n)
  BY <1>1, <1>3, <1>7, <1>10 DEF MapSound
<1>12. Known(m) \subseteq Known(n) /\ place \in Known(n)
  <2>1. \A i \in 1 .. Len(ev) : i \in 1 .. Entered(n) /\ At(n, i) = At(m, i)
    BY <1>6, <1>8
  <2>2. Len(ev) + 1 \in 1 .. Entered(n)
    BY <1>6, <1>8
  <2> QED
    BY <1>8, <2>1, <2>2 DEF Known
<1> QED
  BY <1>3, <1>11, <1>12

\* A factor joins those that are there; known landmarks stay known.
LEMMA FactorAdded ==
  ASSUME NEW m, NEW n, Known(m) \subseteq Known(n),
         NEW fs, FactorsSound(m, fs), NEW f, FactorSound(n, f),
         NEW gs, gs = Append(fs, f)
  PROVE  FactorsSound(n, gs)
<1> DEFINE S == Range(fs) \cup {f}
<1>1. fs \in Seq(S) /\ f \in S
  <2>1. Range(fs) \subseteq S
    OBVIOUS
  <2>2. fs \in Seq(Range(fs))
    BY DEF FactorsSound
  <2> HIDE DEF S
  <2>3. fs \in Seq(S)
    BY <2>1, <2>2, SeqMonotonic
  <2> QED
    BY <2>3 DEF S
<1> HIDE DEF S
<1>2. /\ gs \in Seq(S) /\ Len(gs) = Len(fs) + 1 /\ Len(fs) \in Nat
      /\ \A i \in 1 .. Len(fs) : gs[i] = fs[i]
      /\ gs[Len(fs) + 1] = f
  BY <1>1, AppendProperties, LenProperties
<1>3. gs \in Seq(Range(gs))
  BY <1>2, SeqOfRange
<1>4. ASSUME NEW i \in 1 .. Len(gs) PROVE FactorSound(n, gs[i])
  <2>1. i \in 1 .. Len(fs) \/ i = Len(fs) + 1
    BY <1>2
  <2> QED
    BY <1>2, <2>1 DEF FactorsSound, FactorSound
<1> QED
  BY <1>3, <1>4 DEF FactorsSound

LEMMA SonarFactorKeeps ==
  ASSUME MapInv, pc = "sonar", NEW frame, NEW predicted \in Places, SonarFactor(frame, predicted)
  PROVE  MapSound(map') /\ FactorsSound(map', factors') /\ DOMAIN map' = {"landmarks"}
<1>1. /\ MapSound(map) /\ FactorsSound(map, factors) /\ DOMAIN map = {"landmarks"}
      /\ WorldPoints(map) = Known(map) /\ Known(map) \subseteq Places
  BY OnlyLandmarks, PointsAreKnown DEF MapInv, StageInv
<1>2. LandmarkGate \in Nat
  BY AcousticOpticAssumption
<1>3. CASE /\ QueryNearestPoint(map, predicted, LandmarkGate) = {}
           /\ map' = AddMapEvidence(map, LandmarkEvidence(predicted))
           /\ factors' = Append(factors, [keyframe |-> frame.keyframe, predicted |-> predicted,
                                          landmark |-> predicted])
  <2>1. \A p \in Known(map) : Distance(p, predicted) > LandmarkGate
    BY <1>1, <1>3, NothingNear
  <2>2. /\ MapSound(map') /\ DOMAIN map' = DOMAIN map
        /\ Known(map) \subseteq Known(map') /\ predicted \in Known(map')
    BY <1>1, <1>3, <2>1, LandmarkEntered
  <2>3. Distance(predicted, predicted) <= LandmarkGate
    BY <1>2, DistanceFacts
  <2>4. FactorsSound(map', factors')
    <3> DEFINE f == [keyframe |-> frame.keyframe, predicted |-> predicted, landmark |-> predicted]
    <3>1. FactorSound(map', f)
      BY <2>2, <2>3 DEF FactorSound
    <3> HIDE DEF f
    <3>2. factors' = Append(factors, f)
      BY <1>3 DEF f
    <3> QED
      BY <1>1, <2>2, <3>1, <3>2, FactorAdded
  <2> QED
    BY <1>1, <2>2, <2>4
<1>4. ASSUME NEW known \in QueryNearestPoint(map, predicted, LandmarkGate), map' = map,
             factors' = Append(factors, [keyframe |-> frame.keyframe, predicted |-> predicted,
                                         landmark |-> known])
      PROVE  MapSound(map') /\ FactorsSound(map', factors') /\ DOMAIN map' = {"landmarks"}
  <2> DEFINE f == [keyframe |-> frame.keyframe, predicted |-> predicted, landmark |-> known]
  <2>1. FactorSound(map, f)
    BY <1>1 DEF FactorSound, QueryNearestPoint
  <2> HIDE DEF f
  <2>2. factors' = Append(factors, f)
    BY <1>4 DEF f
  <2>3. FactorsSound(map, factors')
    BY <1>1, <2>1, <2>2, FactorAdded
  <2> QED
    BY <1>1, <1>4, <2>3
<1> QED
  BY <1>3, <1>4 DEF SonarFactor

-----------------------------------------------------------------------------
(* The invariant.                                                           *)

\* Whatever else happens to the map, its landmarks are those of one entry.
LEMMA SameLandmarks ==
  ASSUME NEW m, NEW n, "landmarks" \in DOMAIN n, n["landmarks"] = m["landmarks"],
         MapSound(m), NEW fs, FactorsSound(m, fs)
  PROVE  MapSound(n) /\ FactorsSound(n, fs)
<1>1. Entered(n) = Entered(m) /\ \A i : At(n, i) = At(m, i)
  BY DEF Entered, At
<1>2. Known(n) = Known(m)
  BY <1>1 DEF Known
<1> QED
  BY <1>1, <1>2 DEF MapSound, FactorsSound, FactorSound

LEMMA OrderFacts ==
  ASSUME NEW in \in Inputs
  PROVE  /\ DOMAIN in.order = 1 .. Len(in.order) /\ Len(in.order) \in Nat
         /\ \A i \in DOMAIN in.order : in.order[i] # "landmarks" /\ in.dead[in.order[i]] \in Int
<1>1. in.order \in Seq(STRING)
  BY InputsAssumption
<1> QED
  BY <1>1, InputsAssumption

LEMMA MapStart == Init => MapInv
<1> SUFFICES ASSUME Init PROVE MapInv
  OBVIOUS
<1>1. map = [id \in {"landmarks"} |-> NewKeyframe] /\ factors = <<>>
  BY DEF Init
<1>2. map["landmarks"] = [evidence |-> <<>>, pose |-> Origin, stale |-> FALSE] /\ DOMAIN map = {"landmarks"}
  BY <1>1 DEF NewKeyframe
<1>3. Entered(map) = 0 /\ map["landmarks"] \in LandmarkEntries
  BY <1>2 DEF Entered, LandmarkEntries
<1>4. MapSound(map)
  BY <1>2, <1>3 DEF MapSound
<1>5. FactorsSound(map, factors)
  BY <1>1 DEF FactorsSound
<1>6. StageInv
  BY <1>2 DEF Init, StageInv
<1> QED
  BY <1>4, <1>5, <1>6 DEF MapInv

LEMMA SonarFrameKeeps ==
  ASSUME MapInv, SonarFrame
  PROVE  MapInv'
<1> DEFINE frame == input.sonar[cursor]
           Used == OfGraph(frame) /\ frame.keyframe \notin input.warmup /\ frame.detection # Missing
<1>1. /\ pc = "sonar" /\ pc' = pc /\ input' = input /\ pair' = pair /\ cursor' = cursor + 1
      /\ cursor <= Len(input.sonar)
  BY DEF SonarFrame
<1>2. input \in Inputs /\ cursor \in Nat \ {0} /\ DOMAIN map = {"landmarks"} /\ pair = NoPair
  BY <1>1 DEF MapInv, StageInv
<1>3. MapSound(map') /\ FactorsSound(map', factors') /\ DOMAIN map' = {"landmarks"}
  <2>1. CASE Used
    <3>1. PICK i \in DOMAIN Order : Order[i] = frame.keyframe
      BY <2>1 DEF OfGraph
    <3>2. input.dead[frame.keyframe] \in Int
      BY <1>2, <3>1, OrderFacts DEF Order
    <3>3. cursor \in DOMAIN input.sonar
      <4>1. DOMAIN input.sonar = 1 .. Len(input.sonar) /\ Len(input.sonar) \in Nat
        BY <1>2, InputsAssumption
      <4> QED
        BY <1>1, <1>2, <4>1
    <3>4. frame.detection \in Int \X Int
      <4>1. frame.detection \in (Int \X Int) \cup {Missing}
        BY <1>2, <3>3, InputsAssumption
      <4> QED
        BY <2>1, <4>1
    <3> DEFINE predicted == Apply(input.dead[frame.keyframe], frame.detection)
    <3>5. SonarFactor(frame, predicted)
      BY <2>1 DEF SonarFrame
    <3> HIDE DEF frame
    <3>6. predicted \in Places
      BY <3>2, <3>4 DEF Apply, Places
    <3> HIDE DEF predicted
    <3> QED
      BY <1>1, <3>5, <3>6, SonarFactorKeeps
  <2>2. CASE ~Used
    <3>1. map' = map /\ factors' = factors
      BY <2>2 DEF SonarFrame
    <3> QED
      BY <1>2, <3>1 DEF MapInv
  <2> QED
    BY <2>1, <2>2
<1>4. StageInv'
  BY <1>1, <1>2, <1>3 DEF StageInv
<1> QED
  BY <1>3, <1>4 DEF MapInv

LEMMA PublishKeeps ==
  ASSUME MapInv, Publish
  PROVE  MapInv'
<1>1. "landmarks" \in DOMAIN map /\ MapSound(map) /\ FactorsSound(map, factors)
  BY DEF MapInv, MapSound
<1>2. "landmarks" \in DOMAIN map' /\ map'["landmarks"] = map["landmarks"] /\ factors' = factors
  BY <1>1 DEF Publish
<1>3. MapSound(map') /\ FactorsSound(map', factors')
  BY <1>1, <1>2, SameLandmarks
<1>4. StageInv'
  BY DEF MapInv, StageInv, Publish, NoPair
<1> QED
  BY <1>3, <1>4 DEF MapInv

LEMMA FusePairKeepsLandmarks ==
  ASSUME MapInv, NEW arc, FusePair(arc)
  PROVE  MapInv'
<1> DEFINE kf == Order[cursor]
<1>1. /\ pair # NoPair /\ pc = "pair" /\ pc' = pc /\ input' = input /\ pair' = NoPair
      /\ cursor' = cursor + 1 /\ factors' = factors
  BY DEF FusePair, NextKeyframe
<1>2. \E evidence : evidence.keyframe = kf /\ map' = AddMapEvidence(map, evidence)
  <2>1. \A version, fused : DepthEvidence(kf, version, fused).keyframe = kf
    BY DEF DepthEvidence
  <2>2. \E fused : map' = AddMapEvidence(map, DepthEvidence(kf, cursor, fused))
    BY Zenon DEF FusePair
  <2> QED
    BY <2>1, <2>2
<1>3. input \in Inputs /\ cursor \in Nat \ {0} /\ cursor \in DOMAIN Order
  BY <1>1 DEF MapInv, StageInv
<1>4. kf # "landmarks"
  BY <1>3, OrderFacts DEF Order
<1>5. "landmarks" \in DOMAIN map /\ MapSound(map) /\ FactorsSound(map, factors)
  BY DEF MapInv, MapSound
<1>6. "landmarks" \in DOMAIN map' /\ map'["landmarks"] = map["landmarks"]
  BY <1>2, <1>4, <1>5 DEF AddMapEvidence, WithEntry
<1>7. MapSound(map') /\ FactorsSound(map', factors')
  BY <1>1, <1>5, <1>6, SameLandmarks
<1>8. StageInv'
  BY <1>1, <1>3 DEF StageInv
<1> QED
  BY <1>7, <1>8 DEF MapInv

\* Steps that leave the map and the factors alone.
LEMMA MapAlone ==
  ASSUME MapInv, map' = map, factors' = factors, StageInv'
  PROVE  MapInv'
BY DEF MapInv

LEMMA MapStep == MapInv /\ [Next]_vars => MapInv'
<1> SUFFICES ASSUME MapInv, [Next]_vars PROVE MapInv'
  OBVIOUS
<1>1. StageInv
  BY DEF MapInv
<1>2. CASE UNCHANGED vars
  BY <1>1, <1>2, MapAlone DEF vars, StageInv, Order
<1>3. CASE Load
  BY <1>1, <1>3, MapAlone DEF Load, StageInv
<1>4. CASE SonarFrame
  BY <1>4, SonarFrameKeeps
<1>5. CASE Publish
  BY <1>5, PublishKeeps
<1>6. CASE SkipKeyframe
  BY <1>1, <1>6, MapAlone DEF SkipKeyframe, NextKeyframe, StageInv
<1>7. CASE Finished
  BY <1>1, <1>7, MapAlone DEF Finished, StageInv
<1>8. ASSUME NEW left, NEW right, NEW images, NEW prior, TimePair(left, right, images, prior)
      PROVE  MapInv'
  <2>1. /\ pc = "pair" /\ pc' = pc /\ input' = input /\ cursor <= Len(Order)
        /\ map' = map /\ factors' = factors
        /\ cursor' = cursor \/ (cursor' = cursor + 1 /\ pair' = NoPair)
    BY <1>8 DEF TimePair, NextKeyframe
  <2>2. DOMAIN Order = 1 .. Len(Order) /\ Len(Order) \in Nat /\ cursor \in Nat \ {0}
    BY <1>1, OrderFacts DEF StageInv, Order
  <2>3. StageInv'
    BY <1>1, <2>1, <2>2 DEF StageInv, Order
  <2> QED
    BY <2>1, <2>3, MapAlone
<1>9. ASSUME NEW arc, FusePair(arc) PROVE MapInv'
  BY <1>9, FusePairKeepsLandmarks
<1> QED
  BY <1>2, <1>3, <1>4, <1>5, <1>6, <1>7, <1>8, <1>9 DEF Next

LEMMA KnownCounted ==
  ASSUME NEW m, MapSound(m)
  PROVE  Cardinality(Known(m)) = Entered(m)
<1> DEFINE N == 1 .. Entered(m)
           f == [i \in N |-> At(m, i)]
<1>1. Entered(m) \in Nat /\ \A i \in N : At(m, i) \in Places
  BY PointsAreKnown
<1>2. ASSUME NEW i \in N, NEW j \in N, At(m, i) = At(m, j) PROVE i = j
  <2>1. Distance(At(m, i), At(m, j)) = 0
    BY <1>1, <1>2, DistanceFacts
  <2>2. LandmarkGate \in Nat
    BY AcousticOpticAssumption
  <2> QED
    BY <2>1, <2>2 DEF MapSound
<1>3. f \in Bijection(N, Known(m))
  <2>1. f \in [N -> Known(m)]
    BY DEF Known
  <2>2. \A a, b \in N : f[a] = f[b] => a = b
    BY <1>2
  <2>3. \A t \in Known(m) : \E i \in N : f[i] = t
    BY DEF Known
  <2> QED
    BY <2>1, <2>2, <2>3, Fun_IsBij
<1>4. ExistsBijection(N, Known(m))
  BY <1>3, Fun_ExistsBij
<1> QED
  BY <1>1, <1>4, FS_CountingElements

\* No landmark is entered twice, each factor is built to a landmark within the
\* gate of what it predicted, and nothing moves a landmark afterwards.  For any
\* sonar stream, any poses before and after the solve, and any gate.
THEOREM LandmarksStayApart == Spec => []LandmarksApart
<1>1. MapInv => LandmarksApart
  <2> SUFFICES ASSUME MapInv PROVE LandmarksApart
    OBVIOUS
  <2>1. MapSound(map) /\ FactorsSound(map, factors)
    BY DEF MapInv
  <2>2. Landmarks = Known(map)
    BY <2>1, PointsAreKnown DEF Landmarks
  <2>3. Cardinality(Landmarks) = Len(map["landmarks"].evidence)
    BY <2>1, <2>2, KnownCounted DEF Entered
  <2>4. ASSUME NEW p \in Landmarks, NEW q \in Landmarks, p # q PROVE Distance(p, q) > LandmarkGate
    BY <2>1, <2>2, <2>4 DEF Known, MapSound
  <2>5. ASSUME NEW i \in DOMAIN factors
        PROVE  /\ factors[i].landmark \in Landmarks
               /\ Distance(factors[i].landmark, factors[i].predicted) <= LandmarkGate
    <3>1. i \in 1 .. Len(factors)
      BY <2>1, LenProperties DEF FactorsSound
    <3> QED
      BY <2>1, <2>2, <3>1 DEF FactorsSound, FactorSound
  <2> QED
    BY <2>3, <2>4, <2>5, Zenon DEF LandmarksApart
<1>2. Spec => []MapInv
  BY MapStart, MapStep, PTL DEF Spec
<1> QED
  BY <1>1, <1>2, PTL

-----------------------------------------------------------------------------
(* The counters and the points.                                             *)

OrderIds(in) == {in.order[k] : k \in DOMAIN in.order}

\* The points of depth that a map holds for some keyframes.
PointsOf(m, ids) ==
  {at \in ids \X Pixels :
     \E i \in DOMAIN Entry(m, at[1]).evidence : at[2] \in DOMAIN Entry(m, at[1]).evidence[i].points}

\* A keyframe without evidence.
Blank(entry) == "evidence" \in DOMAIN entry /\ entry["evidence"] = <<>>

\* How far the counters of the statuses go.
Ruled(t) == t.accepted + t.ambiguous + t.conflict + t.rejected + t.invalidStamp

CountsAgree(t, points) ==
  /\ t \in [DOMAIN NoTally -> Nat]
  /\ IsFiniteSet(points) /\ t.points = Cardinality(points)
  /\ t.accepted = t.acousticOptic
  /\ t.points = t.opticalOnly + t.acousticOptic

CountsFit(t, fused, waiting) ==
  Ruled(t) <= fused /\ fused + (IF waiting THEN 1 ELSE 0) <= t.withCamera

TallyInv ==
  /\ CountsAgree(tally, PointsInMap)
  /\ CountsFit(tally, Len(fusions), pair # NoPair)
  /\ pc = "pair" => \A k \in DOMAIN Order : k >= cursor => Blank(Entry(map, Order[k]))

LEMMA BlankHasNone ==
  ASSUME NEW entry, Blank(entry)
  PROVE  /\ entry.evidence = <<>>
         /\ \A e : [entry EXCEPT !.evidence = Append(@, e)].evidence = <<e>>
<1>1. entry.evidence = <<>> /\ "evidence" \in DOMAIN entry
  BY DEF Blank
<1> QED
  BY <1>1

LEMMA NoPoints ==
  ASSUME NEW m, NEW ids, \A id \in ids : Entry(m, id).evidence = <<>>
  PROVE  PointsOf(m, ids) = {}
<1> SUFFICES ASSUME NEW at \in PointsOf(m, ids) PROVE FALSE
  OBVIOUS
<1>1. at[1] \in ids /\ \E i \in DOMAIN Entry(m, at[1]).evidence : TRUE
  BY DEF PointsOf
<1>2. DOMAIN Entry(m, at[1]).evidence = {}
  BY <1>1
<1> QED
  BY <1>1, <1>2

\* Depth for a keyframe that has none brings its own points and no others.
LEMMA PointsAdded ==
  ASSUME NEW m, NEW ids, NEW kf \in ids, Blank(Entry(m, kf)),
         NEW e, e.keyframe = kf, DOMAIN e.points \subseteq Pixels,
         NEW n, n = AddMapEvidence(m, e)
  PROVE  /\ PointsOf(n, ids) = PointsOf(m, ids) \cup ({kf} \X DOMAIN e.points)
         /\ PointsOf(m, ids) \cap ({kf} \X DOMAIN e.points) = {}
         /\ \A id : id # kf => Entry(n, id) = Entry(m, id)
<1> DEFINE B == DOMAIN e.points
<1>1. \A id : id # kf => Entry(n, id) = Entry(m, id)
  BY DEF AddMapEvidence, WithEntry, Entry
<1>2. Entry(n, kf).evidence = <<e>>
  <2>1. Entry(n, kf) = [Entry(m, kf) EXCEPT !.evidence = Append(@, e)]
    BY DEF AddMapEvidence, WithEntry, Entry
  <2> QED
    BY <2>1, BlankHasNone
<1>3. \A p : (\E i \in DOMAIN Entry(n, kf).evidence : p \in DOMAIN Entry(n, kf).evidence[i].points) <=> p \in B
  BY <1>2
<1>4. Entry(m, kf).evidence = <<>>
  BY BlankHasNone
<1>5. \A at \in PointsOf(m, ids) : at[1] # kf
  <2> SUFFICES ASSUME NEW at \in PointsOf(m, ids), at[1] = kf PROVE FALSE
    OBVIOUS
  <2>1. \E i \in DOMAIN Entry(m, kf).evidence : TRUE
    BY DEF PointsOf
  <2>2. DOMAIN Entry(m, kf).evidence = {}
    BY <1>4
  <2> QED
    BY <2>1, <2>2
<1>6. PointsOf(m, ids) \cap ({kf} \X B) = {}
  BY <1>5
<1>7. ASSUME NEW at \in ids \X Pixels
      PROVE  at \in PointsOf(n, ids) <=> at \in PointsOf(m, ids) \/ at \in {kf} \X B
  <2>1. CASE at[1] = kf
    <3>1. at \in {kf} \X B <=> at[2] \in B
      BY <2>1
    <3>2. at \in PointsOf(n, ids) <=> at[2] \in B
      BY <1>3, <2>1 DEF PointsOf
    <3> QED
      BY <1>5, <2>1, <3>1, <3>2
  <2>2. CASE at[1] # kf
    <3>1. at \in PointsOf(n, ids) <=> at \in PointsOf(m, ids)
      BY <1>1, <2>2 DEF PointsOf
    <3> QED
      BY <2>2, <3>1
  <2> QED
    BY <2>1, <2>2
<1>8. /\ PointsOf(n, ids) \subseteq ids \X Pixels /\ PointsOf(m, ids) \subseteq ids \X Pixels
      /\ {kf} \X B \subseteq ids \X Pixels
  BY DEF PointsOf
<1>9. PointsOf(n, ids) = PointsOf(m, ids) \cup ({kf} \X B)
  BY <1>7, <1>8
<1> QED
  BY <1>1, <1>6, <1>9

\* The association answers with one of three rulings.
LEMMA AssociateRules ==
  ASSUME NEW detection, NEW delta, NEW prior, NEW arc,
         NEW r \in Associate(detection, delta, prior, arc)
  PROVE  r.status \in {"accepted", "ambiguous", "rejected"} /\ detection # Missing
<1>1. detection # Missing
  BY DEF Associate
<1>2. CASE r \in GeometricRecords(prior, arc)
  <2> DEFINE scored == Scored(prior, arc)
             best == {s \in scored : \A t \in scored : s.score <= t.score}
             Second(s) == {t \in scored \ {s} : \A u \in scored \ {s} : t.score <= u.score}
             Rival(s, t) == t.score - s.score < AmbiguityMargin /\ ~DepthsAgree(prior[s.pixel], prior[t.pixel])
             Ruling(s, t) == IF Rival(s, t) THEN Record("ambiguous", "ambiguous_margin")
                             ELSE [status |-> "accepted", reason |-> "none", pixel |-> s.pixel]
  <2>1. ASSUME NEW s, NEW t PROVE Ruling(s, t).status \in {"accepted", "ambiguous"}
    <3> HIDE DEF Rival
    <3>1. CASE Rival(s, t)
      BY <3>1 DEF Record
    <3>2. CASE ~Rival(s, t)
      BY <3>2
    <3> QED
      BY <3>1, <3>2
  <2>2. r \in (IF scored = {} THEN {Record("rejected", "no_candidate")}
               ELSE UNION {IF scored = {s} THEN {Ruling(s, [s EXCEPT !.score = s.score + AmbiguityMargin])}
                           ELSE {Ruling(s, t) : t \in Second(s)} : s \in best})
    BY <1>2, Zenon DEF GeometricRecords
  <2>3. Record("rejected", "no_candidate").status = "rejected"
    BY DEF Record
  <2> HIDE DEF scored, best, Second, Ruling
  <2>4. r = Record("rejected", "no_candidate") \/ \E s, t : r = Ruling(s, t)
    <3>1. CASE scored = {}
      BY <2>2, <3>1
    <3>2. CASE scored # {}
      <4>1. PICK s \in best :
              r \in (IF scored = {s} THEN {Ruling(s, [s EXCEPT !.score = s.score + AmbiguityMargin])}
                     ELSE {Ruling(s, t) : t \in Second(s)})
        BY <2>2, <3>2
      <4> QED
        BY <4>1
    <3> QED
      BY <3>1, <3>2
  <2> QED
    BY <1>1, <2>1, <2>3, <2>4
<1>3. CASE r \notin GeometricRecords(prior, arc)
  <2>1. r.status = "rejected"
    BY <1>3 DEF Associate, Record
  <2> QED
    BY <1>1, <2>1
<1> QED
  BY <1>2, <1>3

Verdicts == {"accepted", "ambiguous", "conflict", "rejected"}

LEMMA VerdictRules ==
  ASSUME NEW r, r.status \in {"accepted", "ambiguous", "rejected"}, NEW posterior, NEW d
  PROVE  Verdict(r, posterior, d).status \in Verdicts
<1>1. /\ [r EXCEPT !.status = "rejected", !.reason = "posterior_invalid"].status \in Verdicts \cup {r.status}
      /\ [r EXCEPT !.status = "rejected", !.reason = "variance_not_improved"].status \in Verdicts \cup {r.status}
      /\ [r EXCEPT !.status = "conflict", !.reason = "cross_modal_conflict"].status \in Verdicts \cup {r.status}
  BY DEF Verdicts
<1> QED
  BY <1>1 DEF Verdict, Verdicts

\* What a fusion adds to counters, map and history.
LEMMA FusionFacts ==
  ASSUME IInv, NEW arc, FusePair(arc)
  PROVE  \E associated, record, fused :
           /\ tally' = Counted(associated, record, fused)
           /\ map' = AddMapEvidence(map, DepthEvidence(Order[cursor], cursor, fused))
           /\ fusions' = Append(fusions, [keyframe |-> Order[cursor], timing |-> pair,
                                          record |-> record, depth |-> fused])
           /\ Len(fusions') = Len(fusions) + 1
           /\ Improved([keyframe |-> Order[cursor], timing |-> pair, record |-> record, depth |-> fused])
           /\ fused \in FusedDepths
           /\ \/ record.status \in Verdicts /\ pair.status # "invalid_timestamp"
              \/ record.status = "none"
<1> DEFINE records == Associate(Hypothesis, pair.delta, pair.prior, arc)
           PosteriorsOf(associated) ==
             IF associated.status = "accepted"
             THEN Posteriors(pair.prior[associated.pixel]) ELSE {[valid |-> FALSE]}
           DepthOf(associated) ==
             IF associated.status = "accepted" THEN pair.prior[associated.pixel] ELSE 0
           Fused(record, posterior) == FusedDepth(pair.prior, record, posterior)
           Fusion(record, posterior) ==
             [keyframe |-> Order[cursor], timing |-> pair, record |-> record,
              depth |-> Fused(record, posterior)]
           Outcome(associated, posterior) ==
             LET record == Verdict(associated, posterior, DepthOf(associated)) IN
             /\ tally' = Counted(associated, record, Fused(record, posterior))
             /\ map' = AddMapEvidence(map, DepthEvidence(Order[cursor], cursor, Fused(record, posterior)))
             /\ fusions' = Append(fusions, Fusion(record, posterior))
<1>1. PICK associated \in IF records = {} THEN {NoRecord} ELSE records :
        \E posterior \in PosteriorsOf(associated) : Outcome(associated, posterior)
  BY Zenon DEF FusePair
<1>2. PICK posterior \in PosteriorsOf(associated) : Outcome(associated, posterior)
  BY <1>1
<1> DEFINE record == Verdict(associated, posterior, DepthOf(associated))
           fused == Fused(record, posterior)
           f == Fusion(record, posterior)
<1>3. tally' = Counted(associated, record, fused)
  BY <1>2
<1>4. map' = AddMapEvidence(map, DepthEvidence(Order[cursor], cursor, fused))
  BY <1>2
<1>5. fusions' = Append(fusions, f)
  BY <1>2
<1>6. associated = NoRecord \/ associated \in records
  OBVIOUS
<1>7. \/ record.status \in Verdicts /\ pair.status # "invalid_timestamp"
      \/ record.status = "none"
  <2>1. CASE associated = NoRecord
    <3>1. record = NoRecord
      BY <2>1 DEF Verdict, NoRecord, Record
    <3> QED
      BY <3>1 DEF NoRecord, Record
  <2>2. CASE associated \in records
    <3>1. associated.status \in {"accepted", "ambiguous", "rejected"} /\ Hypothesis # Missing
      BY <2>2, AssociateRules
    <3>2. pair.status # "invalid_timestamp"
      BY <3>1 DEF Hypothesis
    <3>3. record.status \in Verdicts
      BY <3>1, VerdictRules
    <3> QED
      BY <3>2, <3>3
  <2> QED
    BY <1>6, <2>1, <2>2
<1>9. fused \in FusedDepths
  <2>1. pair # NoPair /\ PairTimed /\ pair.prior \in Priors
    BY DEF FusePair, IInv, PairTimed
  <2>2. ASSUME associated.status = "accepted"
        PROVE  /\ associated.pixel \in Pixels /\ pair.prior[associated.pixel] > 0
               /\ posterior \in Posteriors(pair.prior[associated.pixel])
    <3>1. associated \in records
      BY <1>6, <2>2 DEF NoRecord, Record
    <3>2. posterior \in Posteriors(pair.prior[associated.pixel])
      BY <2>2
    <3> QED
      BY <2>1, <2>2, <3>1, <3>2, AcceptedTiming
  <2>3. record = Verdict(associated, posterior,
                         IF associated.status = "accepted" THEN pair.prior[associated.pixel] ELSE 0)
    OBVIOUS
  <2> HIDE DEF records, PosteriorsOf, Outcome, record, f
  <2>4. FusedDepth(pair.prior, record, posterior) \in FusedDepths
    BY <2>1, <2>2, <2>3, FusedTyped
  <2> QED
    BY <2>4
<1> HIDE DEF records, PosteriorsOf, Outcome, record, f
<1>8. Len(fusions') = Len(fusions) + 1 /\ Improved(f)
  <2>1. IInv'
    BY FusePairKeeps
  <2>2. fusions \in Seq(Range(fusions) \cup {f})
    <3> DEFINE S == Range(fusions) \cup {f}
    <3>1. Range(fusions) \subseteq S
      OBVIOUS
    <3>2. fusions \in Seq(Range(fusions))
      BY DEF IInv
    <3> HIDE DEF S
    <3>3. fusions \in Seq(S)
      BY <3>1, <3>2, SeqMonotonic
    <3> QED
      BY <3>3 DEF S
  <2>3. /\ Len(fusions') = Len(fusions) + 1 /\ Len(fusions) \in Nat
        /\ fusions'[Len(fusions) + 1] = f
    BY <1>5, <2>2, AppendProperties, LenProperties
  <2>4. Improved(fusions'[Len(fusions) + 1])
    BY <2>1, <2>3 DEF IInv
  <2> QED
    BY <2>3, <2>4
<1> QED
  BY <1>3, <1>4, <1>5, <1>7, <1>8, <1>9 DEF f

\* The points of a fused depth are those of either contribution, and an
\* acoustic one comes with an accepted record.
LEMMA FusedPoints ==
  ASSUME NEW prior \in Priors, NEW f, Improved(f), f.timing.prior = prior
  PROVE  /\ Bridged(f.depth) \subseteq Pixels /\ IsFiniteSet(Bridged(f.depth))
         /\ Cardinality(Bridged(f.depth)) = Count(f.depth, "optical") + Count(f.depth, "acoustic_optic")
         /\ Count(f.depth, "optical") \in Nat
         /\ Count(f.depth, "acoustic_optic") = IF f.record.status = "accepted" THEN 1 ELSE 0
<1> DEFINE optical == OpticalDepth(prior)
           O == {p \in Pixels : f.depth[p].contribution = "optical"}
           A == {p \in Pixels : f.depth[p].contribution = "acoustic_optic"}
<1>1. A = AcousticPixels(f)
  BY DEF AcousticPixels
<1>2. /\ \A p \in Pixels \ A : f.depth[p] = optical[p]
      /\ \A p \in A : f.depth[p].depth > 0
      /\ Cardinality(A) = IF f.record.status = "accepted" THEN 1 ELSE 0
  BY <1>1 DEF Improved
<1>3. \A p \in Pixels :
        /\ optical[p].contribution \in {"optical", "invalid"}
        /\ optical[p].contribution = "optical" => optical[p].depth > 0
  <2>1. \A p \in Pixels :
          /\ optical[p].depth = prior[p]
          /\ optical[p].contribution = IF prior[p] > 0 THEN "optical" ELSE "invalid"
    BY DEF OpticalDepth
  <2> HIDE DEF optical
  <2> QED
    BY <2>1
<1> HIDE DEF optical
<1>4. Bridged(f.depth) = O \cup A
  BY <1>2, <1>3 DEF Bridged
<1>5. O \cap A = {}
  OBVIOUS
<1>6. IsFiniteSet(Pixels) /\ O \in SUBSET Pixels /\ A \in SUBSET Pixels
  BY AcousticOpticAssumption
<1> HIDE DEF O, A
<1>7. IsFiniteSet(O) /\ IsFiniteSet(A)
  BY <1>6, FS_Subset
<1>8. /\ Cardinality(O) \in Nat /\ Cardinality(A) \in Nat
      /\ IsFiniteSet(O \cup A)
      /\ Cardinality(O \cup A) = Cardinality(O) + Cardinality(A) - Cardinality(O \cap A)
  BY <1>7, FS_CardinalityType, FS_Union
<1>9. Cardinality(O \cap A) = 0
  BY <1>5, FS_EmptySet
<1>10. Count(f.depth, "optical") = Cardinality(O) /\ Count(f.depth, "acoustic_optic") = Cardinality(A)
  BY DEF Count, O, A
<1> QED
  BY <1>2, <1>4, <1>6, <1>8, <1>9, <1>10

One(b) == IF b THEN 1 ELSE 0

\* The counters one by one.
LEMMA CounterSteps ==
  ASSUME tally \in [DOMAIN NoTally -> Nat], NEW associated, NEW record, NEW fused,
         record.status \in Verdicts \cup {"none"},
         Cardinality(Bridged(fused)) \in Nat,
         Count(fused, "optical") \in Nat, Count(fused, "acoustic_optic") \in Nat,
         NEW t, t = Counted(associated, record, fused)
  PROVE  /\ t \in [DOMAIN NoTally -> Nat]
         /\ t.withCamera = tally.withCamera
         /\ t.accepted = tally.accepted + One(record.status = "accepted")
         /\ t.ambiguous = tally.ambiguous + One(record.status = "ambiguous")
         /\ t.conflict = tally.conflict + One(record.status = "conflict")
         /\ t.rejected = tally.rejected + One(record.status = "rejected")
         /\ t.invalidStamp = tally.invalidStamp + One(pair.status = "invalid_timestamp")
         /\ t.points = tally.points + Cardinality(Bridged(fused))
         /\ t.opticalOnly = tally.opticalOnly + Count(fused, "optical")
         /\ t.acousticOptic = tally.acousticOptic + Count(fused, "acoustic_optic")
<1> DEFINE b == Cardinality(Bridged(fused))
           o == Count(fused, "optical")
           a == Count(fused, "acoustic_optic")
           Added(k) == CASE k = record.status -> 1
                         [] k = "invalidStamp" -> One(pair.status = "invalid_timestamp")
                         [] k = "points" -> b
                         [] k = "opticalOnly" -> o
                         [] k = "acousticOptic" -> a
                         [] OTHER -> 0
           K == {"withCamera", "accepted", "ambiguous", "conflict", "rejected",
                 "invalidStamp", "points", "opticalOnly", "acousticOptic"}
<1>1. DOMAIN NoTally = K
  BY DEF NoTally
<1>2. tally \in [K -> Nat] /\ DOMAIN tally = K
  BY <1>1
<1>3. t = [k \in K |-> tally[k] + Added(k)]
  BY <1>2, Zenon DEF Counted, One
<1>4. record.status \in {"accepted", "ambiguous", "conflict", "rejected", "none"}
  BY DEF Verdicts
<1> HIDE DEF b, o, a
<1>5. b \in Nat /\ o \in Nat /\ a \in Nat
  BY DEF b, o, a
<1>6. /\ Added("withCamera") = 0
      /\ Added("accepted") = One(record.status = "accepted")
      /\ Added("ambiguous") = One(record.status = "ambiguous")
      /\ Added("conflict") = One(record.status = "conflict")
      /\ Added("rejected") = One(record.status = "rejected")
      /\ Added("invalidStamp") = One(pair.status = "invalid_timestamp")
      /\ Added("points") = b /\ Added("opticalOnly") = o /\ Added("acousticOptic") = a
  BY <1>4 DEF One
<1>7. \A k \in K : Added(k) \in Nat
  BY <1>5, <1>6 DEF One
<1> HIDE DEF Added
<1>8. t \in [K -> Nat]
  BY <1>2, <1>3, <1>7
<1>9. \A k \in K : t[k] = tally[k] + Added(k)
  BY <1>3
<1> QED
  BY <1>1, <1>2, <1>6, <1>8, <1>9 DEF b, o, a

LEMMA MapPoints == PointsInMap = PointsOf(map, OrderIds(input))
BY Zenon DEF PointsInMap, PointsOf, OrderIds, Order

\* Before the poses are published no point of depth is in the map.
LEMMA NoPointsYet ==
  ASSUME NEW in \in Inputs, NEW m, DOMAIN m = {"landmarks"}
  PROVE  PointsOf(m, OrderIds(in)) = {}
<1>1. ASSUME NEW id \in OrderIds(in) PROVE Entry(m, id).evidence = <<>>
  <2>1. id # "landmarks"
    BY OrderFacts DEF OrderIds
  <2>2. Entry(m, id) = NewKeyframe
    BY <2>1 DEF Entry
  <2> QED
    BY <2>2 DEF NewKeyframe
<1> QED
  BY <1>1, NoPoints

LEMMA TallyStart == Init => TallyInv
<1> SUFFICES ASSUME Init PROVE TallyInv
  OBVIOUS
<1>1. input \in Inputs /\ DOMAIN map = {"landmarks"} /\ fusions = <<>> /\ pair = NoPair /\ pc = "load"
  BY DEF Init
<1>2. PointsInMap = {}
  BY <1>1, NoPointsYet, MapPoints
<1>3. IsFiniteSet(PointsInMap) /\ Cardinality(PointsInMap) = 0
  BY <1>2, FS_EmptySet
<1>4. /\ tally \in [DOMAIN NoTally -> Nat] /\ Ruled(tally) = 0 /\ tally.withCamera = 0
      /\ tally.points = 0 /\ tally.accepted = 0 /\ tally.opticalOnly = 0 /\ tally.acousticOptic = 0
  BY DEF Init, NoTally, Ruled
<1>5. Len(fusions) = 0
  BY <1>1
<1> QED
  BY <1>1, <1>3, <1>4, <1>5 DEF TallyInv, CountsAgree, CountsFit

LEMMA TallySonarFrame ==
  ASSUME MapInv, TallyInv, SonarFrame
  PROVE  TallyInv'
<1>1. MapInv'
  BY SonarFrameKeeps
<1>2. /\ pc = "sonar" /\ pc' = "sonar" /\ input' = input /\ tally' = tally
      /\ fusions' = fusions /\ pair' = pair
  BY DEF SonarFrame
<1>3. DOMAIN map = {"landmarks"} /\ DOMAIN map' = {"landmarks"} /\ input \in Inputs
  BY <1>1, <1>2 DEF MapInv, StageInv
<1>4. PointsOf(map, OrderIds(input)) = {} /\ PointsOf(map', OrderIds(input')) = {}
  BY <1>2, <1>3, NoPointsYet
<1>5. PointsInMap' = PointsOf(map', OrderIds(input'))
  BY Zenon DEF PointsInMap, PointsOf, OrderIds, Order
<1>6. PointsInMap' = PointsInMap
  BY <1>4, <1>5, MapPoints
<1> QED
  BY <1>2, <1>6 DEF TallyInv

LEMMA TallyPublish ==
  ASSUME MapInv, TallyInv, Publish
  PROVE  TallyInv'
<1>1. /\ pc = "sonar" /\ pc' = "pair" /\ input' = input /\ tally' = tally
      /\ fusions' = fusions /\ pair' = pair
  BY DEF Publish
<1>2. DOMAIN map = {"landmarks"} /\ input \in Inputs
  BY <1>1 DEF MapInv, StageInv
<1>3. ASSUME NEW k \in DOMAIN Order PROVE Blank(Entry(map', Order[k]))
  <2> DEFINE id == Order[k]
             rebuild == \E i \in DOMAIN NewKeyframe.evidence :
                          NewKeyframe.evidence[i].policy = "full_refuse"
             stale == NewKeyframe.stale \/ rebuild
             entry == [NewKeyframe EXCEPT !.pose = input.solved[id], !.stale = stale]
  <2>1. id # "landmarks"
    BY <1>2, OrderFacts DEF Order
  <2>2. id \in DOMAIN map' /\ map'[id] = UpdateKeyframePose(map, id, input.solved[id])[id]
    BY <2>1 DEF Publish
  <2>3. Entry(map, id) = NewKeyframe
    BY <1>2, <2>1 DEF Entry
  <2>4. UpdateKeyframePose(map, id, input.solved[id])[id] = entry
    BY <2>3 DEF UpdateKeyframePose, WithEntry
  <2> HIDE DEF stale
  <2>5. Blank(entry)
    <3>1. DOMAIN entry = DOMAIN NewKeyframe /\ entry["evidence"] = NewKeyframe["evidence"]
      OBVIOUS
    <3>2. "evidence" \in DOMAIN NewKeyframe /\ NewKeyframe["evidence"] = <<>>
      BY DEF NewKeyframe
    <3> QED
      BY <3>1, <3>2 DEF Blank
  <2> HIDE DEF entry
  <2>6. Entry(map', id) = entry
    BY <2>2, <2>4 DEF Entry
  <2> QED
    BY <2>5, <2>6
<1>4. \A id \in OrderIds(input) : Entry(map', id).evidence = <<>>
  BY <1>3, BlankHasNone DEF OrderIds, Order
<1>5. PointsOf(map', OrderIds(input)) = {} /\ PointsOf(map, OrderIds(input)) = {}
  BY <1>2, <1>4, NoPoints, NoPointsYet
<1>6. PointsInMap' = PointsOf(map', OrderIds(input'))
  BY Zenon DEF PointsInMap, PointsOf, OrderIds, Order
<1>7. PointsInMap' = PointsInMap
  BY <1>1, <1>5, <1>6, MapPoints
<1>8. \A k \in DOMAIN Order' : Blank(Entry(map', Order'[k]))
  BY <1>1, <1>3 DEF Order
<1> QED
  BY <1>1, <1>7, <1>8 DEF TallyInv

LEMMA TallyFusePair ==
  ASSUME IInv, MapInv, TallyInv, NEW arc, FusePair(arc)
  PROVE  TallyInv'
<1> DEFINE kf == Order[cursor]
           ids == OrderIds(input)
<1>1. PICK associated, record, fused :
        /\ tally' = Counted(associated, record, fused)
        /\ map' = AddMapEvidence(map, DepthEvidence(kf, cursor, fused))
        /\ Len(fusions') = Len(fusions) + 1
        /\ Improved([keyframe |-> kf, timing |-> pair, record |-> record, depth |-> fused])
        /\ \/ record.status \in Verdicts /\ pair.status # "invalid_timestamp"
           \/ record.status = "none"
  BY FusionFacts
<1>2. /\ pair # NoPair /\ pc = "pair" /\ pc' = pc /\ input' = input /\ pair' = NoPair
      /\ cursor' = cursor + 1
  BY DEF FusePair, NextKeyframe
<1>3. /\ input \in Inputs /\ cursor \in Nat \ {0} /\ cursor \in DOMAIN Order
      /\ Len(fusions) \in Nat /\ pair.prior \in Priors
  BY <1>2 DEF MapInv, StageInv, IInv, PairTimed
<1>4. kf \in ids /\ Blank(Entry(map, kf))
  <2>1. Blank(Entry(map, Order[cursor]))
    BY <1>2, <1>3 DEF TallyInv
  <2> QED
    BY <1>3, <2>1 DEF OrderIds, Order
<1> DEFINE e == DepthEvidence(kf, cursor, fused)
           B == Bridged(fused)
<1>5. e.keyframe = kf /\ DOMAIN e.points = B
  BY DEF DepthEvidence
<1>6. /\ B \subseteq Pixels /\ IsFiniteSet(B)
      /\ Cardinality(B) = Count(fused, "optical") + Count(fused, "acoustic_optic")
      /\ Count(fused, "optical") \in Nat
      /\ Count(fused, "acoustic_optic") = One(record.status = "accepted")
  <2> DEFINE f == [keyframe |-> kf, timing |-> pair, record |-> record, depth |-> fused]
  <2>1. f.timing.prior = pair.prior /\ f.depth = fused /\ f.record = record
    OBVIOUS
  <2>2. Improved(f)
    BY <1>1
  <2> HIDE DEF f
  <2> QED
    BY <1>3, <2>1, <2>2, FusedPoints DEF One
<1> HIDE DEF kf, e, B
<1>7. /\ PointsOf(map', ids) = PointsOf(map, ids) \cup ({kf} \X B)
      /\ PointsOf(map, ids) \cap ({kf} \X B) = {}
      /\ \A id : id # kf => Entry(map', id) = Entry(map, id)
  <2>1. map' = AddMapEvidence(map, e)
    BY <1>1 DEF e
  <2> HIDE DEF ids
  <2> QED
    BY <1>4, <1>5, <1>6, <2>1, PointsAdded
<1>8. /\ CountsAgree(tally, PointsInMap) /\ CountsFit(tally, Len(fusions), TRUE)
      /\ \A k \in DOMAIN Order : k >= cursor => Blank(Entry(map, Order[k]))
  BY <1>2 DEF TallyInv
<1>9. /\ PointsInMap' = PointsInMap \cup ({kf} \X B)
      /\ PointsInMap \cap ({kf} \X B) = {}
  <2>1. PointsInMap' = PointsOf(map', OrderIds(input'))
    BY Zenon DEF PointsInMap, PointsOf, OrderIds, Order
  <2> QED
    BY <1>2, <1>7, <2>1, MapPoints
<1>10. /\ IsFiniteSet(PointsInMap') /\ Cardinality(PointsInMap) \in Nat /\ Cardinality(B) \in Nat
       /\ Cardinality(PointsInMap') = Cardinality(PointsInMap) + Cardinality(B)
  <2>1. IsFiniteSet({kf}) /\ Cardinality({kf}) = 1
    BY FS_Singleton
  <2>2. IsFiniteSet({kf} \X B) /\ Cardinality({kf} \X B) = 1 * Cardinality(B)
    BY <1>6, <2>1, FS_Product
  <2>3. IsFiniteSet(PointsInMap)
    BY <1>8 DEF CountsAgree
  <2>4. /\ IsFiniteSet(PointsInMap \cup ({kf} \X B))
        /\ Cardinality(PointsInMap \cup ({kf} \X B)) =
             Cardinality(PointsInMap) + Cardinality({kf} \X B) - Cardinality(PointsInMap \cap ({kf} \X B))
    BY <2>2, <2>3, FS_Union
  <2>5. Cardinality(PointsInMap \cap ({kf} \X B)) = 0
    BY <1>9, FS_EmptySet
  <2>6. Cardinality(PointsInMap) \in Nat /\ Cardinality(B) \in Nat
    BY <1>6, <2>3, FS_CardinalityType
  <2> QED
    BY <1>9, <2>2, <2>4, <2>5, <2>6
<1>11. /\ tally' \in [DOMAIN NoTally -> Nat]
       /\ tally'.withCamera = tally.withCamera
       /\ tally'.accepted = tally.accepted + One(record.status = "accepted")
       /\ tally'.ambiguous = tally.ambiguous + One(record.status = "ambiguous")
       /\ tally'.conflict = tally.conflict + One(record.status = "conflict")
       /\ tally'.rejected = tally.rejected + One(record.status = "rejected")
       /\ tally'.invalidStamp = tally.invalidStamp + One(pair.status = "invalid_timestamp")
       /\ tally'.points = tally.points + Cardinality(B)
       /\ tally'.opticalOnly = tally.opticalOnly + Count(fused, "optical")
       /\ tally'.acousticOptic = tally.acousticOptic + Count(fused, "acoustic_optic")
  <2>1. Count(fused, "acoustic_optic") \in Nat
    BY <1>6 DEF One
  <2>2. record.status \in Verdicts \cup {"none"} /\ tally \in [DOMAIN NoTally -> Nat]
    BY <1>1, <1>8 DEF CountsAgree
  <2>3. Cardinality(Bridged(fused)) \in Nat
    BY <1>10 DEF B
  <2> QED
    BY <1>1, <1>6, <2>1, <2>2, <2>3, CounterSteps DEF B
<1>12. \A k \in DOMAIN NoTally : tally[k] \in Nat
  BY <1>8 DEF CountsAgree
<1>13. /\ tally.accepted \in Nat /\ tally.ambiguous \in Nat /\ tally.conflict \in Nat
       /\ tally.rejected \in Nat /\ tally.invalidStamp \in Nat /\ tally.withCamera \in Nat
       /\ tally.points \in Nat /\ tally.opticalOnly \in Nat /\ tally.acousticOptic \in Nat
  BY <1>12 DEF NoTally
<1>14. CountsAgree(tally', PointsInMap')
  <2> DEFINE n == One(record.status = "accepted")
  <2>1. n \in Nat
    BY DEF One
  <2>2. /\ tally'.accepted = tally.accepted + n
        /\ tally'.acousticOptic = tally.acousticOptic + n
        /\ Cardinality(B) = Count(fused, "optical") + n
    BY <1>6, <1>11 DEF B
  <2> HIDE DEF n
  <2>3. tally'.accepted = tally'.acousticOptic
    BY <1>8, <2>2 DEF CountsAgree
  <2>4. tally'.points = tally'.opticalOnly + tally'.acousticOptic
    BY <1>6, <1>8, <1>11, <1>13, <2>1, <2>2 DEF CountsAgree
  <2>5. tally'.points = Cardinality(PointsInMap')
    BY <1>8, <1>10, <1>11 DEF CountsAgree
  <2> QED
    BY <1>10, <1>11, <2>3, <2>4, <2>5 DEF CountsAgree
<1>15. One(record.status = "accepted") + One(record.status = "ambiguous") + One(record.status = "conflict")
         + One(record.status = "rejected") + One(pair.status = "invalid_timestamp") \in 0 .. 1
  BY <1>1 DEF One, Verdicts
<1>16. CountsFit(tally', Len(fusions'), FALSE)
  <2>1. Ruled(tally') <= Ruled(tally) + 1
    BY <1>11, <1>13, <1>15 DEF Ruled, One
  <2>2. Ruled(tally) \in Nat /\ Ruled(tally') \in Nat
    BY <1>11, <1>13 DEF Ruled, One
  <2> QED
    BY <1>1, <1>3, <1>8, <1>11, <1>13, <2>1, <2>2 DEF CountsFit
<1>17. \A k \in DOMAIN Order' : k >= cursor' => Blank(Entry(map', Order'[k]))
  <2> SUFFICES ASSUME NEW k \in DOMAIN Order, k >= cursor + 1
               PROVE  Blank(Entry(map', Order[k]))
    BY <1>2 DEF Order
  <2>1. k \in Nat
    BY <1>3, OrderFacts DEF Order
  <2>2. k # cursor /\ k >= cursor
    BY <1>3, <2>1
  <2>3. Order[k] # kf
    BY <1>3, <2>2, InputsAssumption DEF Order, kf
  <2> QED
    BY <1>7, <1>8, <2>2, <2>3
<1> QED
  BY <1>2, <1>14, <1>16, <1>17 DEF TallyInv

\* Steps that leave the map and the keyframes at hand as they were.
LEMMA TallyKeeps ==
  ASSUME TallyInv, map' = map, input' = input, CountsAgree(tally', PointsInMap),
         CountsFit(tally', Len(fusions'), pair' # NoPair),
         pc' = "pair" => pc = "pair" /\ \A k \in DOMAIN Order : k >= cursor' => k >= cursor
  PROVE  TallyInv'
<1>1. PointsInMap' = PointsInMap
  BY MapPoints, Zenon DEF PointsInMap, PointsOf, OrderIds, Order
<1> QED
  BY <1>1 DEF TallyInv, Order

LEMMA TallyTimePair ==
  ASSUME MapInv, TallyInv, NEW left, NEW right, NEW images, NEW prior,
         TimePair(left, right, images, prior), Len(fusions) \in Nat
  PROVE  TallyInv'
<1>1. /\ pc = "pair" /\ pc' = pc /\ pair = NoPair /\ input' = input /\ map' = map
      /\ fusions' = fusions /\ tally' = [tally EXCEPT !.withCamera = @ + 1]
      /\ cursor' = cursor \/ cursor' = cursor + 1
  BY DEF TimePair, NextKeyframe
<1>2. CountsAgree(tally, PointsInMap) /\ CountsFit(tally, Len(fusions), FALSE)
  BY <1>1 DEF TallyInv
<1>3. tally \in [DOMAIN NoTally -> Nat] /\ "withCamera" \in DOMAIN NoTally
  BY <1>2 DEF CountsAgree, NoTally
<1>4. /\ tally' \in [DOMAIN NoTally -> Nat] /\ tally'.withCamera = tally.withCamera + 1
      /\ tally.withCamera \in Nat
      /\ \A k \in DOMAIN NoTally \ {"withCamera"} : tally'[k] = tally[k] /\ tally[k] \in Nat
  BY <1>1, <1>3
<1>5. /\ tally'.accepted = tally.accepted /\ tally'.ambiguous = tally.ambiguous
      /\ tally'.conflict = tally.conflict /\ tally'.rejected = tally.rejected
      /\ tally'.invalidStamp = tally.invalidStamp /\ tally'.points = tally.points
      /\ tally'.opticalOnly = tally.opticalOnly /\ tally'.acousticOptic = tally.acousticOptic
  BY <1>4 DEF NoTally
<1>6. CountsAgree(tally', PointsInMap)
  BY <1>2, <1>4, <1>5 DEF CountsAgree
<1>7. CountsFit(tally', Len(fusions'), pair' # NoPair)
  <2>1. Ruled(tally') = Ruled(tally)
    BY <1>5 DEF Ruled
  <2> QED
    BY <1>1, <1>2, <1>4, <2>1 DEF CountsFit
<1>8. cursor \in Nat /\ DOMAIN Order \subseteq Nat
  BY OrderFacts DEF MapInv, StageInv, Order
<1> QED
  BY <1>1, <1>6, <1>7, <1>8, TallyKeeps

LEMMA TallyStep == IInv /\ MapInv /\ TallyInv /\ [Next]_vars => TallyInv'
<1> SUFFICES ASSUME IInv, MapInv, TallyInv, [Next]_vars PROVE TallyInv'
  OBVIOUS
<1>1. /\ CountsAgree(tally, PointsInMap) /\ CountsFit(tally, Len(fusions), pair # NoPair)
      /\ Len(fusions) \in Nat /\ cursor \in Nat
      /\ DOMAIN Order \subseteq Nat
  BY OrderFacts DEF TallyInv, IInv, MapInv, StageInv, Order
<1>2. CASE UNCHANGED vars
  BY <1>1, <1>2, TallyKeeps DEF vars
<1>3. CASE Load
  BY <1>1, <1>3, TallyKeeps DEF Load
<1>4. CASE SonarFrame
  BY <1>4, TallySonarFrame
<1>5. CASE Publish
  BY <1>5, TallyPublish
<1>6. CASE SkipKeyframe
  BY <1>1, <1>6, TallyKeeps DEF SkipKeyframe, NextKeyframe
<1>7. CASE Finished
  BY <1>1, <1>7, TallyKeeps DEF Finished
<1>8. ASSUME NEW left, NEW right, NEW images, NEW prior, TimePair(left, right, images, prior)
      PROVE  TallyInv'
  BY <1>1, <1>8, TallyTimePair
<1>9. ASSUME NEW arc, FusePair(arc) PROVE TallyInv'
  BY <1>9, TallyFusePair
<1> QED
  BY <1>2, <1>3, <1>4, <1>5, <1>6, <1>7, <1>8, <1>9 DEF Next

\* The counters of the summary agree with the map and with each other, on every
\* way the loop goes on early: as many points were counted as there are, one
\* corrected for each accepted association, no keyframe under two statuses.
THEOREM TallyIsMap == Spec => []TallyMatchesMap
<1>1. TallyInv /\ IInv => TallyMatchesMap
  <2> SUFFICES ASSUME TallyInv, Len(fusions) \in Nat PROVE TallyMatchesMap
    BY DEF IInv
  <2>1. /\ tally \in [DOMAIN NoTally -> Nat] /\ tally.points = Cardinality(PointsInMap)
        /\ tally.accepted = tally.acousticOptic
        /\ tally.points = tally.opticalOnly + tally.acousticOptic
        /\ Ruled(tally) <= Len(fusions)
        /\ Len(fusions) + (IF pair # NoPair THEN 1 ELSE 0) <= tally.withCamera
    BY DEF TallyInv, CountsAgree, CountsFit
  <2>2. tally.withCamera \in Nat
    BY <2>1 DEF NoTally
  <2>3. Len(fusions) <= tally.withCamera
    BY <2>1, <2>2
  <2> QED
    BY <2>1, <2>3 DEF TallyMatchesMap, Ruled
<1>2. Spec => []MapInv
  BY MapStart, MapStep, PTL DEF Spec
<1>3. Spec => []TallyInv
  BY <1>2, Invariance, TallyStart, TallyStep, PTL DEF Spec
<1> QED
  BY <1>1, <1>3, Invariance, PTL

-----------------------------------------------------------------------------
(* Sums.                                                                    *)

\* The running sums of a sequence.
SumsTo(n, numbers, f) == f[0] = 0 /\ \A i \in 1 .. n : f[i] = f[i - 1] + numbers[i]

LEMMA SumsExist ==
  ASSUME NEW N \in Nat, NEW numbers \in [1 .. N -> Nat]
  PROVE  \E f \in [0 .. N -> Nat] : SumsTo(N, numbers, f)
<1> DEFINE T == {n \in 0 .. N : ~ \E f \in [0 .. n -> Nat] : SumsTo(n, numbers, f)}
<1>1. ASSUME T # {} PROVE FALSE
  <2>1. T \subseteq Nat
    OBVIOUS
  <2>2. PICK n \in T : \A m \in T : n <= m
    BY <1>1, <2>1, LeastElement
  <2>3. n # 0
    <3>1. [i \in 0 .. 0 |-> 0] \in [0 .. 0 -> Nat] /\ SumsTo(0, numbers, [i \in 0 .. 0 |-> 0])
      BY DEF SumsTo
    <3> QED
      BY <3>1
  <2>4. n \in 1 .. N /\ n - 1 \in 0 .. N /\ n - 1 \notin T
    <3>1. n \in 0 .. N
      OBVIOUS
    <3> HIDE DEF T
    <3>2. n \in 1 .. N /\ n - 1 \in 0 .. N /\ ~ (n <= n - 1)
      BY <2>3, <3>1
    <3> QED
      BY <2>2, <3>2
  <2>5. PICK f \in [0 .. n - 1 -> Nat] : SumsTo(n - 1, numbers, f)
    BY <2>4
  <2> DEFINE g == [i \in 0 .. n |-> IF i = n THEN f[n - 1] + numbers[n] ELSE f[i]]
  <2>6. g \in [0 .. n -> Nat]
    BY <2>4
  <2>7. g[0] = 0
    BY <2>3, <2>5 DEF SumsTo
  <2>8. ASSUME NEW i \in 1 .. n PROVE g[i] = g[i - 1] + numbers[i]
    <3>1. CASE i = n
      BY <2>4, <3>1
    <3>2. CASE i # n
      <4>1. i \in 1 .. n - 1 /\ i \in 0 .. n - 1 /\ i - 1 \in 0 .. n - 1 /\ i - 1 # n
        BY <2>4, <3>2
      <4>2. g[i] = f[i] /\ g[i - 1] = f[i - 1]
        BY <2>4, <3>2, <4>1
      <4> QED
        BY <2>5, <4>1, <4>2 DEF SumsTo
    <3> QED
      BY <3>1, <3>2
  <2> QED
    BY <2>2, <2>6, <2>7, <2>8 DEF SumsTo
<1>2. N \in 0 .. N /\ T = {}
  BY <1>1
<1>3. N \notin T
  BY <1>2
<1> QED
  BY <1>2, <1>3

\* A total of natural numbers is one, and no less than any of them.
LEMMA TotalBounds ==
  ASSUME NEW numbers \in Seq(Nat)
  PROVE  Total(numbers) \in Nat /\ \A k \in 1 .. Len(numbers) : numbers[k] <= Total(numbers)
<1> DEFINE N == Len(numbers)
           Sums(f) == [n \in 0 .. N |-> IF n = 0 THEN 0 ELSE f[n - 1] + numbers[n]]
           sum == CHOOSE f : f = Sums(f)
<1>1. N \in Nat /\ numbers \in [1 .. N -> Nat]
  OBVIOUS
<1>2. \E f : f = Sums(f)
  <2>1. PICK f \in [0 .. N -> Nat] : SumsTo(N, numbers, f)
    BY <1>1, SumsExist
  <2>2. ASSUME NEW n \in 0 .. N PROVE f[n] = Sums(f)[n]
    BY <1>1, <2>1 DEF SumsTo
  <2>3. f = [n \in 0 .. N |-> f[n]] /\ Sums(f) = [n \in 0 .. N |-> Sums(f)[n]]
    BY <2>1
  <2>4. f = Sums(f)
    <3> HIDE DEF Sums
    <3> QED
      BY <2>2, <2>3
  <2> QED
    BY <2>4
<1>3. sum = Sums(sum)
  <2> HIDE DEF Sums
  <2> QED
    BY <1>2
<1>4. Total(numbers) = sum[N]
  BY DEF Total
<1> HIDE DEF sum
<1>5. sum[0] = 0 /\ \A n \in 1 .. N : sum[n] = sum[n - 1] + numbers[n]
  <2>1. \A n \in 0 .. N : sum[n] = IF n = 0 THEN 0 ELSE sum[n - 1] + numbers[n]
    <3>1. \A n \in 0 .. N : Sums(sum)[n] = IF n = 0 THEN 0 ELSE sum[n - 1] + numbers[n]
      OBVIOUS
    <3> HIDE DEF Sums
    <3> QED
      BY <1>3, <3>1
  <2>2. 0 \in 0 .. N /\ \A n \in 1 .. N : n \in 0 .. N /\ n # 0
    BY <1>1
  <2> QED
    BY <2>1, <2>2
<1> DEFINE Good(n) == sum[n] \in Nat /\ \A k \in 1 .. n : numbers[k] <= sum[n]
           T == {n \in 0 .. N : ~ Good(n)}
<1>6. ASSUME T # {} PROVE FALSE
  <2>1. PICK n \in T : \A m \in T : n <= m
    <3>1. T \subseteq Nat
      OBVIOUS
    <3> HIDE DEF T
    <3> QED
      BY <1>6, <3>1, LeastElement
  <2>2. n # 0
    BY <1>5
  <2>3. n \in 1 .. N /\ n - 1 \in 0 .. N /\ Good(n - 1)
    BY <1>1, <2>1, <2>2
  <2>4. sum[n] = sum[n - 1] + numbers[n] /\ numbers[n] \in Nat
    BY <1>1, <1>5, <2>3
  <2>5. Good(n)
    <3>1. \A k \in 1 .. n : k \in 1 .. N /\ (k \in 1 .. n - 1 \/ k = n)
      BY <1>1, <2>3
    <3>2. \A k \in 1 .. N : numbers[k] \in Nat
      BY <1>1
    <3> QED
      BY <2>3, <2>4, <3>1, <3>2
  <2> QED
    BY <2>5
<1>7. N \in 0 .. N
  BY <1>1
<1> QED
  BY <1>4, <1>6, <1>7

-----------------------------------------------------------------------------
(* The configuration and the trajectory error.                              *)

Poses == [time : Int, place : Int]

LEMMA MagnitudeNat == \A n \in Int : Magnitude(n) \in Nat
BY DEF Magnitude

LEMMA NearestIsOne ==
  ASSUME NEW truth \in Seq(Poses), truth # <<>>, NEW time \in Int
  PROVE  /\ NearestInTime(truth, time) \in DOMAIN truth
         /\ \A k \in DOMAIN truth :
              Magnitude(truth[NearestInTime(truth, time)].time - time) <= Magnitude(truth[k].time - time)
<1> DEFINE gap(i) == Magnitude(truth[i].time - time)
           gaps == {gap(i) : i \in DOMAIN truth}
           First(i) == \A k \in DOMAIN truth : gap(i) < gap(k) \/ (gap(i) = gap(k) /\ i <= k)
<1>1. DOMAIN truth = 1 .. Len(truth) /\ Len(truth) \in Nat /\ DOMAIN truth # {}
  OBVIOUS
<1>2. \A i \in DOMAIN truth : gap(i) \in Nat
  <2>1. ASSUME NEW i \in DOMAIN truth PROVE gap(i) \in Nat
    <3>1. truth[i] \in Poses
      OBVIOUS
    <3>2. truth[i].time \in Int
      BY <3>1 DEF Poses
    <3>3. truth[i].time - time \in Int
      BY <3>2
    <3> QED
      BY <3>3, MagnitudeNat
  <2> QED
    BY <2>1
<1> HIDE DEF gap
<1>3. gaps \subseteq Nat /\ gaps # {}
  BY <1>1, <1>2
<1>4. PICK d \in gaps : \A e \in gaps : d <= e
  BY <1>3, LeastElement
<1> DEFINE nearest == {i \in DOMAIN truth : gap(i) = d}
<1>5. nearest \subseteq Nat /\ nearest # {}
  BY <1>1, <1>4
<1>6. PICK x \in nearest : \A y \in nearest : x <= y
  BY <1>5, LeastElement
<1>7. x \in DOMAIN truth /\ First(x)
  <2>1. ASSUME NEW k \in DOMAIN truth PROVE gap(x) < gap(k) \/ (gap(x) = gap(k) /\ x <= k)
    <3>1. gap(x) = d /\ gap(k) \in gaps /\ d <= gap(k) /\ d \in Nat /\ gap(k) \in Nat
      BY <1>2, <1>4
    <3>2. CASE gap(k) = d
      BY <1>6, <3>1, <3>2
    <3>3. CASE gap(k) # d
      BY <3>1, <3>3
    <3> QED
      BY <3>2, <3>3
  <2> QED
    BY <2>1
<1> DEFINE near == CHOOSE i \in DOMAIN truth : First(i)
<1>8. near \in DOMAIN truth /\ First(near)
  <2> HIDE DEF First
  <2> QED
    BY <1>7
<1>9. NearestInTime(truth, time) = near
  BY DEF NearestInTime, gap
<1> HIDE DEF near
<1>10. \A k \in DOMAIN truth : gap(near) <= gap(k)
  BY <1>2, <1>8
<1> QED
  BY <1>8, <1>9, <1>10 DEF gap

LEMMA SquareNat == \A n \in Int : n * n \in Nat
<1>1. ASSUME NEW n \in Int PROVE n * n \in Nat
  <2>1. CASE n >= 0
    BY <2>1
  <2>2. CASE n < 0
    <3>1. -n \in Nat /\ (-n) * (-n) \in Nat /\ (-n) * (-n) = n * n
      BY <2>2
    <3> QED
      BY <3>1
  <2> QED
    BY <2>1, <2>2
<1> QED
  BY <1>1

\* ComputeAte counts the poses that have a pose of truth close in time, and the
\* error of each is at most the total.
AteSound(n, estimated, truth, maxDiff) ==
  LET scored == {k \in 1 .. n : \E i \in DOMAIN truth :
                   Magnitude(truth[i].time - estimated[k].time) <= maxDiff}
      ate == ComputeAte(estimated, truth, maxDiff)
  IN /\ IsFiniteSet(scored) /\ ate.matched = Cardinality(scored)
     /\ ate.squares \in Nat
     /\ \A k \in scored : \E i \in DOMAIN truth :
          Square(estimated[k].place - truth[i].place) <= ate.squares

LEMMA AteFacts ==
  ASSUME NEW n \in Nat, NEW estimated \in [1 .. n -> Poses], NEW truth \in Seq(Poses),
         NEW maxDiff \in Nat
  PROVE  AteSound(n, estimated, truth, maxDiff)
<1> DEFINE scored == {k \in 1 .. n : \E i \in DOMAIN truth :
                        Magnitude(truth[i].time - estimated[k].time) <= maxDiff}
           near(k) == NearestInTime(truth, estimated[k].time)
           matches == Matches(estimated, truth, maxDiff)
           errors == [k \in 1 .. n |-> IF k \in matches THEN SquaredError(estimated[k], truth) ELSE 0]
<1>1. /\ DOMAIN estimated = 1 .. n
      /\ \A k \in 1 .. n : estimated[k].time \in Int /\ estimated[k].place \in Int
      /\ \A i \in DOMAIN truth : truth[i].time \in Int /\ truth[i].place \in Int
  <2>1. ASSUME NEW k \in 1 .. n PROVE estimated[k].time \in Int /\ estimated[k].place \in Int
    <3>1. estimated[k] \in Poses
      OBVIOUS
    <3> QED
      BY <3>1 DEF Poses
  <2>2. ASSUME NEW i \in DOMAIN truth PROVE truth[i].time \in Int /\ truth[i].place \in Int
    <3>1. truth[i] \in Poses
      OBVIOUS
    <3> QED
      BY <3>1 DEF Poses
  <2> QED
    BY <2>1, <2>2
<1>2. \A k \in 1 .. n : k \in matches <=>
        truth # <<>> /\ Magnitude(truth[near(k)].time - estimated[k].time) <= maxDiff
  BY <1>1 DEF Matches
<1>3. ASSUME NEW k \in 1 .. n, truth # <<>>
      PROVE  /\ near(k) \in DOMAIN truth
             /\ \A i \in DOMAIN truth : Magnitude(truth[near(k)].time - estimated[k].time)
                                           <= Magnitude(truth[i].time - estimated[k].time)
  BY <1>1, <1>3, NearestIsOne
<1> HIDE DEF near, matches
<1>4. ASSUME NEW k \in 1 .. n PROVE k \in matches <=> k \in scored
  <2>1. CASE truth = <<>>
    <3>1. DOMAIN truth = {}
      BY <2>1
    <3> QED
      BY <1>2, <2>1, <3>1
  <2>2. CASE truth # <<>>
    <3> DEFINE mag(i) == Magnitude(truth[i].time - estimated[k].time)
    <3>1. \A i \in DOMAIN truth : mag(i) \in Nat
      <4>1. \A i \in DOMAIN truth : truth[i].time - estimated[k].time \in Int
        BY <1>1
      <4> QED
        BY <4>1, MagnitudeNat
    <3>2. near(k) \in DOMAIN truth /\ \A i \in DOMAIN truth : mag(near(k)) <= mag(i)
      BY <1>3, <2>2
    <3>3. k \in matches <=> mag(near(k)) <= maxDiff
      BY <1>2, <2>2
    <3>4. k \in scored <=> \E i \in DOMAIN truth : mag(i) <= maxDiff
      OBVIOUS
    <3> HIDE DEF mag, scored
    <3> QED
      BY <3>1, <3>2, <3>3, <3>4
  <2> QED
    BY <2>1, <2>2
<1>5. matches = scored
  <2>1. matches \subseteq 1 .. n
    BY <1>1 DEF matches, Matches
  <2> QED
    BY <1>4, <2>1
<1>6. IsFiniteSet(scored)
  <2>1. IsFiniteSet(1 .. n) /\ scored \subseteq 1 .. n
    BY FS_Interval
  <2> QED
    BY <2>1, FS_Subset
<1> DEFINE ate == ComputeAte(estimated, truth, maxDiff)
<1>7. ate.matched = Cardinality(scored) /\ ate.squares = Total(errors)
  <2>1. ate = [matched |-> Cardinality(matches), squares |-> Total(errors)]
    BY <1>1 DEF ComputeAte, matches
  <2> QED
    BY <1>5, <2>1
<1>8. ASSUME NEW k \in scored
      PROVE  /\ near(k) \in DOMAIN truth
             /\ errors[k] = Square(estimated[k].place - truth[near(k)].place)
  <2>1. k \in 1 .. n /\ truth # <<>> /\ k \in matches
    BY <1>2, <1>5
  <2>2. near(k) \in DOMAIN truth
    BY <1>3, <2>1
  <2> QED
    BY <2>1, <2>2 DEF SquaredError, Square, near
<1>9. errors \in Seq(Nat) /\ Len(errors) = n
  <2>1. ASSUME NEW k \in 1 .. n PROVE errors[k] \in Nat
    <3>1. CASE k \in scored
      <4>1. estimated[k].place - truth[near(k)].place \in Int
        BY <1>1, <1>8, <3>1
      <4> QED
        BY <1>8, <3>1, <4>1, SquareNat DEF Square
    <3>2. CASE k \notin scored
      BY <1>5, <3>2
    <3> QED
      BY <3>1, <3>2
  <2>2. errors \in [1 .. n -> Nat]
    BY <2>1
  <2> HIDE DEF errors
  <2> QED
    BY <2>2
<1>10. Total(errors) \in Nat /\ \A k \in 1 .. n : errors[k] <= Total(errors)
  BY <1>9, TotalBounds
<1>11. ASSUME NEW k \in scored
       PROVE  \E i \in DOMAIN truth : Square(estimated[k].place - truth[i].place) <= ate.squares
  <2>1. k \in 1 .. n
    OBVIOUS
  <2> QED
    BY <1>7, <1>8, <1>10, <2>1
<1> QED
  BY <1>6, <1>7, <1>10, <1>11 DEF AteSound

\* The gate in force is the one declared, for a given input.
DeclaredIn(in, gate) ==
  IF gate \in DOMAIN in.config.gates THEN in.config.gates[gate]
  ELSE IF gate \in DOMAIN SectionOf(in.config.defaults, "gates")
    THEN SectionOf(in.config.defaults, "gates")[gate] ELSE BuiltInGates[gate]

LEMMA GateInForce ==
  ASSUME NEW in \in Inputs, NEW gate \in DOMAIN BuiltInGates
  PROVE  /\ gate \in DOMAIN Gates(in.config)
         /\ Gates(in.config)[gate] = DeclaredIn(in, gate)
         /\ DeclaredIn(in, gate) \in
              IF gate \in {"require_converged", "require_nonempty_map"} THEN BOOLEAN ELSE Int
<1> DEFINE own == in.config.gates
           layer == SectionOf(in.config.defaults, "gates")
<1>1. GatesTyped(own) /\ GatesTyped(layer)
  BY InputsAssumption
<1>2. Gates(in.config) = Layered(Layered(own, layer), BuiltInGates)
  BY DEF Gates
<1>3. DeclaredIn(in, gate) = IF gate \in DOMAIN own THEN own[gate]
                             ELSE IF gate \in DOMAIN layer THEN layer[gate] ELSE BuiltInGates[gate]
  BY DEF DeclaredIn
<1> HIDE DEF own, layer
<1>4. gate \in DOMAIN Gates(in.config) /\ Gates(in.config)[gate] = DeclaredIn(in, gate)
  BY <1>2, <1>3 DEF Layered
<1>5. BuiltInGates[gate] \in
        IF gate \in {"require_converged", "require_nonempty_map"} THEN BOOLEAN ELSE Int
  <2>1. gate \in {"require_converged", "max_ate_rmse_m", "min_matched_ate_poses",
                  "require_nonempty_map", "min_acoustic_optic_accepted", "min_acoustic_optic_map_points"}
    BY DEF BuiltInGates
  <2>2. /\ BuiltInGates["require_converged"] = TRUE /\ BuiltInGates["max_ate_rmse_m"] = -1
        /\ BuiltInGates["min_matched_ate_poses"] = 0 /\ BuiltInGates["require_nonempty_map"] = FALSE
        /\ BuiltInGates["min_acoustic_optic_accepted"] = 0
        /\ BuiltInGates["min_acoustic_optic_map_points"] = 0
    BY DEF BuiltInGates
  <2>3. CASE gate \in {"require_converged", "require_nonempty_map"}
    <3>1. TRUE \in BOOLEAN /\ FALSE \in BOOLEAN
      OBVIOUS
    <3>2. BuiltInGates[gate] \in BOOLEAN
      BY <2>2, <2>3, <3>1, Zenon
    <3> QED
      BY <2>3, <3>2, Zenon
  <2>4. CASE gate \notin {"require_converged", "require_nonempty_map"}
    <3>1. -1 \in Int /\ 0 \in Int
      OBVIOUS
    <3>2. BuiltInGates[gate] \in Int
      BY <2>1, <2>2, <2>4, <3>1, Zenon
    <3> QED
      BY <2>4, <3>2, Zenon
  <2> QED
    BY <2>3, <2>4
<1>6. DeclaredIn(in, gate) \in
        IF gate \in {"require_converged", "require_nonempty_map"} THEN BOOLEAN ELSE Int
  BY <1>1, <1>3, <1>5 DEF GatesTyped
<1> QED
  BY <1>4, <1>6

-----------------------------------------------------------------------------
(* Types, and what leaves a capture out for its time.                       *)

\* What excuses a pair that has no time: a malformed header, or a sonar that the
\* rig does not run.
Excused(in, pictures, kf) ==
  \/ Malformed \in {pictures[1], pictures[2], SonarIn(in, kf).stamp}
  \/ SonarIn(in, kf).stamp # Missing /\ "sonar" \notin OnlineSensors(in.rig)

Usable(in) == LoadsRig(in.rig) /\ Rectifiable(in.rig)

Untimed(in, timing, kf) == timing.status = "invalid_timestamp" => Excused(in, timing.times, kf)

FusionTyped(in, f) ==
  /\ f.timing \in Pairs \ {NoPair} /\ f.depth \in FusedDepths
  /\ Untimed(in, f.timing, f.keyframe)

Fresh(m) == \A id \in DOMAIN m : "stale" \in DOMAIN m[id] /\ m[id]["stale"] = FALSE

RunTyped ==
  /\ pc \in {"load", "refused", "sonar", "pair", "done", "gated"}
  /\ pc \notin {"load", "refused"} => Usable(input)
  /\ pair \in Pairs
  /\ pair # NoPair => Untimed(input, pair, Order[cursor])
  /\ Fresh(map)
  /\ \A i \in 1 .. Len(factors) : factors[i].keyframe \in OrderIds(input)
  /\ \A i \in 1 .. Len(fusions) : FusionTyped(input, fusions[i])

\* An online sensor of a rig that loads turns every stamp into a time.
LEMMA OnlineIsTimed ==
  ASSUME LoadsRig(input.rig), NEW sensor \in OnlineSensors(input.rig), NEW stamp \in Stamps
  PROVE  CorrectedTime(stamp, sensor) \in Int
<1>1. TimedOffset(input.rig, sensor)
  BY DEF LoadsRig
<1>2. MaxOffset \in Int
  BY RunConfigAssumption
<1> DEFINE offset == input.rig.offsets[sensor]
<1>3. sensor \in DOMAIN input.rig.offsets /\ offset \in -MaxOffset .. MaxOffset
  BY <1>1 DEF TimedOffset
<1> HIDE DEF offset
<1>4. offset \in Int /\ stamp \in Int
  BY <1>2, <1>3, AcousticOpticAssumption
<1>5. CorrectedTime(stamp, sensor) = stamp + offset
  BY <1>3, <1>4 DEF CorrectedTime, offset
<1> QED
  BY <1>4, <1>5

\* The stamp of the sonar frame of a keyframe.
LEMMA SonarStamp ==
  ASSUME NEW in \in Inputs, NEW kf
  PROVE  SonarIn(in, kf).stamp \in Stamps \cup {Malformed, Missing}
<1> DEFINE mine == {i \in DOMAIN in.sonar : in.sonar[i].keyframe = kf}
           first == CHOOSE i \in mine : \A j \in mine : i <= j
<1>1. CASE mine = {}
  BY <1>1 DEF SonarIn
<1>2. CASE mine # {}
  <2>1. mine \subseteq Nat
    BY InputsAssumption
  <2>2. \E i \in mine : \A j \in mine : i <= j
    BY <1>2, <2>1, LeastElement
  <2>3. first \in mine
    <3> HIDE DEF mine
    <3> QED
      BY <2>2
  <2>4. SonarIn(in, kf) = in.sonar[first]
    BY <1>2 DEF SonarIn
  <2> HIDE DEF first
  <2>5. first \in DOMAIN in.sonar
    BY <2>3
  <2> QED
    BY <2>4, <2>5, InputsAssumption
<1> QED
  BY <1>1, <1>2

\* A pair without a time is excused, and its delta is a distance.
LEMMA SynchronizeTyped ==
  ASSUME input \in Inputs, Usable(input), NEW kf,
         NEW left \in Stamps \cup {Malformed}, NEW right \in Stamps \cup {Malformed}
  PROVE  LET sync == Synchronize(left, right, SonarOf(kf).stamp) IN
         /\ sync.status \in {"invalid_timestamp", "no_sonar", "delta_exceeded", "synchronized"}
         /\ sync.delta \in Nat
         /\ sync.status = "invalid_timestamp" => Excused(input, <<left, right>>, kf)
<1> DEFINE sonar == SonarOf(kf).stamp
           l == CorrectedTime(left, "left")
           r == CorrectedTime(right, "right")
           s == CorrectedTime(sonar, "sonar")
           delta == Spread({l, r} \cup {s})
           sync == Synchronize(left, right, sonar)
<1>1. /\ l = Malformed \/ l \in Int
      /\ r = Malformed \/ r \in Int
      /\ s = Malformed \/ s \in Int
  BY CorrectedTimeTyped
<1>2. sonar = SonarIn(input, kf).stamp /\ sonar \in Stamps \cup {Malformed, Missing}
  BY SonarStamp, TimesAreCorrected
<1>3. LoadsRig(input.rig) /\ {"left", "right"} \subseteq OnlineSensors(input.rig)
  <2>1. {"left", "right"} \subseteq DOMAIN input.rig.cameras
    BY DEF Usable, Rectifiable, ValidRig, BothCameras, Sides
  <2>2. DOMAIN input.rig.cameras \subseteq Ids(input.rig.listed)
    BY InputsAssumption
  <2> QED
    BY <2>1, <2>2 DEF Usable, OnlineSensors
<1>4. l = Malformed => left = Malformed
  <2>1. left \in Stamps => l \in Int
    BY <1>3, OnlineIsTimed
  <2> QED
    BY <2>1, AcousticOpticAssumption
<1>5. r = Malformed => right = Malformed
  <2>1. right \in Stamps => r \in Int
    BY <1>3, OnlineIsTimed
  <2> QED
    BY <2>1, AcousticOpticAssumption
<1>6. s = Malformed /\ sonar # Missing => sonar = Malformed \/ "sonar" \notin OnlineSensors(input.rig)
  <2>1. sonar \in Stamps /\ "sonar" \in OnlineSensors(input.rig) => s \in Int
    BY <1>3, OnlineIsTimed
  <2> QED
    BY <1>2, <2>1, AcousticOpticAssumption
<1>7. sync =
        CASE Malformed \in {l, r} -> [status |-> "invalid_timestamp", delta |-> 0]
          [] Malformed \notin {l, r} /\ sonar = Missing -> [status |-> "no_sonar", delta |-> 0]
          [] Malformed \notin {l, r} /\ sonar # Missing /\ s = Malformed ->
               [status |-> "invalid_timestamp", delta |-> 0]
          [] OTHER -> [status |-> IF delta > SyncMaxDelta THEN "delta_exceeded" ELSE "synchronized",
                       delta |-> delta]
  BY Zenon DEF Synchronize
<1> DEFINE Sides2 == <<left, right>>
<1>8. Excused(input, Sides2, kf) <=>
        \/ left = Malformed \/ right = Malformed \/ sonar = Malformed
        \/ sonar # Missing /\ "sonar" \notin OnlineSensors(input.rig)
  BY <1>2 DEF Excused
<1> HIDE DEF l, r, s, delta, sync, sonar, Sides2
<1>9. CASE Malformed \in {l, r}
  BY <1>4, <1>5, <1>7, <1>8, <1>9 DEF sync, sonar, Sides2
<1>10. CASE Malformed \notin {l, r} /\ sonar = Missing
  BY <1>7, <1>10 DEF sync, sonar
<1>11. CASE Malformed \notin {l, r} /\ sonar # Missing /\ s = Malformed
  BY <1>6, <1>7, <1>8, <1>11 DEF sync, sonar, Sides2
<1>12. CASE Malformed \notin {l, r} /\ sonar # Missing /\ s # Malformed
  <2>1. l \in Int /\ r \in Int /\ s \in Int
    BY <1>1, <1>12
  <2>2. delta \in Int /\ s - s <= delta
    BY <2>1, SpreadBounds DEF delta
  <2>3. delta \in Nat
    BY <2>1, <2>2
  <2>4. sync = [status |-> IF delta > SyncMaxDelta THEN "delta_exceeded" ELSE "synchronized",
                delta |-> delta]
    BY <1>7, <1>12
  <2> QED
    BY <2>3, <2>4 DEF sync, sonar
<1> QED
  BY <1>9, <1>10, <1>11, <1>12

LEMMA TypedStart == Init => RunTyped
<1> SUFFICES ASSUME Init PROVE RunTyped
  OBVIOUS
<1>1. /\ pc = "load" /\ pair = NoPair /\ factors = <<>> /\ fusions = <<>>
      /\ map = [id \in {"landmarks"} |-> NewKeyframe]
  BY DEF Init
<1>2. Fresh(map)
  BY <1>1 DEF Fresh, NewKeyframe
<1>3. Len(factors) = 0 /\ Len(fusions) = 0 /\ pair \in Pairs
  BY <1>1 DEF Pairs
<1> QED
  BY <1>1, <1>2, <1>3 DEF RunTyped

\* New evidence leaves an entry as fresh as it was.
LEMMA StaysFresh ==
  ASSUME NEW m, Fresh(m), NEW e, NEW n, n = AddMapEvidence(m, e)
  PROVE  Fresh(n)
<1> DEFINE id == e.keyframe
           old == Entry(m, id)
           new == [old EXCEPT !.evidence = Append(@, e)]
<1>1. n = [k \in DOMAIN m \cup {id} |-> IF k = id THEN new ELSE m[k]]
  BY DEF AddMapEvidence, WithEntry
<1>2. "stale" \in DOMAIN old /\ old["stale"] = FALSE
  <2>1. CASE id \in DOMAIN m
    BY <2>1 DEF Entry, Fresh
  <2>2. CASE id \notin DOMAIN m
    <3>1. old = NewKeyframe
      BY <2>2 DEF Entry
    <3> QED
      BY <3>1 DEF NewKeyframe
  <2> QED
    BY <2>1, <2>2
<1> HIDE DEF old, id
<1>3. "stale" \in DOMAIN new /\ new["stale"] = FALSE
  BY <1>2
<1> HIDE DEF new
<1> QED
  BY <1>1, <1>3 DEF Fresh

LEMMA TypedSonarFrame ==
  ASSUME MapInv, RunTyped, SonarFrame
  PROVE  RunTyped'
<1> DEFINE frame == input.sonar[cursor]
           predicted == Apply(input.dead[frame.keyframe], frame.detection)
           Factor(landmark) == [keyframe |-> frame.keyframe, predicted |-> predicted, landmark |-> landmark]
<1>1. /\ pc' = pc /\ pc = "sonar" /\ input' = input /\ pair' = pair /\ pair = NoPair
      /\ fusions' = fusions
  BY DEF SonarFrame, MapInv, StageInv
<1>2. \/ map' = map
      \/ \E e : map' = AddMapEvidence(map, e)
  BY Zenon DEF SonarFrame, SonarFactor
<1>3. Fresh(map')
  BY <1>2, StaysFresh DEF RunTyped
<1>4. \/ factors' = factors
      \/ OfGraph(frame) /\ \E landmark : factors' = Append(factors, Factor(landmark))
  BY Zenon DEF SonarFrame, SonarFactor
<1>5. ASSUME OfGraph(frame), NEW landmark, factors' = Append(factors, Factor(landmark))
      PROVE  \A i \in 1 .. Len(factors') : factors'[i].keyframe \in OrderIds(input)
  <2> DEFINE f == Factor(landmark)
             S == Range(factors) \cup {f}
  <2>1. f.keyframe \in OrderIds(input)
    BY <1>5 DEF OfGraph, OrderIds, Order
  <2> HIDE DEF f
  <2>2. factors \in Seq(S) /\ f \in S
    <3>1. Range(factors) \subseteq S /\ factors \in Seq(Range(factors))
      BY DEF MapInv, FactorsSound
    <3> HIDE DEF S
    <3>2. factors \in Seq(S)
      BY <3>1, SeqMonotonic
    <3> QED
      BY <3>2 DEF S
  <2> HIDE DEF S
  <2>3. /\ Len(factors') = Len(factors) + 1 /\ Len(factors) \in Nat
        /\ \A i \in 1 .. Len(factors) : factors'[i] = factors[i]
        /\ factors'[Len(factors) + 1] = f
    BY <1>5, <2>2, AppendProperties, LenProperties DEF f
  <2>4. ASSUME NEW i \in 1 .. Len(factors') PROVE factors'[i].keyframe \in OrderIds(input)
    <3>1. i \in 1 .. Len(factors) \/ i = Len(factors) + 1
      BY <2>3
    <3> QED
      BY <2>1, <2>3, <3>1 DEF RunTyped
  <2> QED
    BY <2>4
<1>6. \A i \in 1 .. Len(factors') : factors'[i].keyframe \in OrderIds(input')
  BY <1>1, <1>4, <1>5 DEF RunTyped
<1> QED
  BY <1>1, <1>3, <1>6 DEF RunTyped

LEMMA TypedPublish ==
  ASSUME MapInv, RunTyped, Publish
  PROVE  RunTyped'
<1>1. /\ pc' = "pair" /\ pc = "sonar" /\ input' = input /\ pair' = pair /\ pair = NoPair
      /\ fusions' = fusions /\ factors' = factors /\ DOMAIN map = {"landmarks"}
  BY DEF Publish, MapInv, StageInv
<1>2. ASSUME NEW id \in DOMAIN map' PROVE "stale" \in DOMAIN map'[id] /\ map'[id]["stale"] = FALSE
  <2>1. CASE id = "landmarks"
    <3>1. map'[id] = map[id]
      BY <2>1 DEF Publish
    <3> QED
      BY <1>1, <2>1, <3>1 DEF RunTyped, Fresh
  <2>2. CASE id # "landmarks"
    <3> DEFINE rebuild == \E i \in DOMAIN NewKeyframe.evidence :
                            NewKeyframe.evidence[i].policy = "full_refuse"
               stale == NewKeyframe.stale \/ rebuild
               entry == [NewKeyframe EXCEPT !.pose = input.solved[id], !.stale = stale]
    <3>1. map'[id] = UpdateKeyframePose(map, id, input.solved[id])[id]
      BY <2>2 DEF Publish
    <3>2. Entry(map, id) = NewKeyframe
      BY <1>1, <2>2 DEF Entry
    <3>3. UpdateKeyframePose(map, id, input.solved[id])[id] = entry
      BY <3>2 DEF UpdateKeyframePose, WithEntry
    <3>4. NewKeyframe.stale = FALSE /\ NewKeyframe.evidence = <<>> /\ "stale" \in DOMAIN NewKeyframe
      BY DEF NewKeyframe
    <3>5. stale = FALSE
      BY <3>4
    <3> HIDE DEF stale
    <3>6. "stale" \in DOMAIN entry /\ entry["stale"] = FALSE
      BY <3>4, <3>5
    <3> QED
      BY <3>1, <3>3, <3>6
  <2> QED
    BY <2>1, <2>2
<1>3. Fresh(map')
  BY <1>2 DEF Fresh
<1> QED
  BY <1>1, <1>3 DEF RunTyped

LEMMA TypedTimePair ==
  ASSUME MapInv, RunTyped, NEW left \in Stamps \cup {Malformed}, NEW right \in Stamps \cup {Malformed},
         NEW images, NEW prior \in Priors, TimePair(left, right, images, prior)
  PROVE  RunTyped'
<1>1. /\ pc' = pc /\ pc = "pair" /\ input' = input /\ fusions' = fusions /\ factors' = factors
      /\ map' = map /\ input \in Inputs
  BY DEF TimePair, MapInv, StageInv
<1>2. NoPair \in Pairs
  BY DEF Pairs
<1>3. CASE pair' = NoPair
  BY <1>1, <1>2, <1>3 DEF RunTyped
<1>4. CASE /\ pair' = [status |-> Synchronize(left, right, SonarOf(Order[cursor]).stamp).status,
                       delta |-> Synchronize(left, right, SonarOf(Order[cursor]).stamp).delta,
                       prior |-> prior, times |-> <<left, right>>]
           /\ cursor' = cursor
  <2> DEFINE kf == Order[cursor]
             sync == Synchronize(left, right, SonarOf(kf).stamp)
  <2>1. /\ sync.status \in {"invalid_timestamp", "no_sonar", "delta_exceeded", "synchronized"}
        /\ sync.delta \in Nat
        /\ sync.status = "invalid_timestamp" => Excused(input, <<left, right>>, kf)
    BY <1>1, SynchronizeTyped DEF RunTyped
  <2>2. Order'[cursor'] = kf
    BY <1>1, <1>4 DEF Order
  <2>3. <<left, right>> \in (Stamps \cup {Malformed}) \X (Stamps \cup {Malformed})
    OBVIOUS
  <2> HIDE DEF sync, kf
  <2>4. pair' = [status |-> sync.status, delta |-> sync.delta, prior |-> prior, times |-> <<left, right>>]
    BY <1>4 DEF sync, kf
  <2>5. pair' \in Pairs
    BY <2>1, <2>3, <2>4 DEF Pairs
  <2>6. pair'.status = sync.status /\ pair'.times = <<left, right>>
    BY <2>4
  <2>7. Untimed(input, pair', kf)
    BY <2>1, <2>6 DEF Untimed
  <2> QED
    BY <1>1, <2>2, <2>5, <2>7 DEF RunTyped
<1> QED
  BY <1>3, <1>4 DEF TimePair, NextKeyframe

LEMMA TypedFusePair ==
  ASSUME IInv, MapInv, RunTyped, NEW arc, FusePair(arc)
  PROVE  RunTyped'
<1>1. PICK record, fused :
        /\ map' = AddMapEvidence(map, DepthEvidence(Order[cursor], cursor, fused))
        /\ fusions' = Append(fusions, [keyframe |-> Order[cursor], timing |-> pair,
                                       record |-> record, depth |-> fused])
        /\ fused \in FusedDepths
  BY FusionFacts
<1>2. /\ pair # NoPair /\ pc = "pair" /\ pc' = pc /\ input' = input /\ pair' = NoPair
      /\ factors' = factors
  BY DEF FusePair, NextKeyframe
<1>3. Fresh(map')
  BY <1>1, StaysFresh DEF RunTyped
<1> DEFINE f == [keyframe |-> Order[cursor], timing |-> pair, record |-> record, depth |-> fused]
           S == Range(fusions) \cup {f}
<1>4. FusionTyped(input, f)
  <2>1. f.keyframe = Order[cursor] /\ f.timing = pair /\ f.depth = fused
    OBVIOUS
  <2> HIDE DEF f
  <2> QED
    BY <1>1, <1>2, <2>1 DEF FusionTyped, RunTyped
<1> HIDE DEF f
<1>5. fusions \in Seq(S) /\ f \in S
  <2>1. Range(fusions) \subseteq S /\ fusions \in Seq(Range(fusions))
    BY DEF IInv
  <2> HIDE DEF S
  <2>2. fusions \in Seq(S)
    BY <2>1, SeqMonotonic
  <2> QED
    BY <2>2 DEF S
<1> HIDE DEF S
<1>6. /\ Len(fusions') = Len(fusions) + 1 /\ Len(fusions) \in Nat
      /\ \A i \in 1 .. Len(fusions) : fusions'[i] = fusions[i]
      /\ fusions'[Len(fusions) + 1] = f
  BY <1>1, <1>5, AppendProperties, LenProperties DEF f
<1>7. ASSUME NEW i \in 1 .. Len(fusions') PROVE FusionTyped(input, fusions'[i])
  <2>1. i \in 1 .. Len(fusions) \/ i = Len(fusions) + 1
    BY <1>6
  <2> QED
    BY <1>4, <1>6, <2>1 DEF RunTyped
<1>8. NoPair \in Pairs
  BY DEF Pairs
<1> QED
  BY <1>2, <1>3, <1>7, <1>8 DEF RunTyped

\* Steps that leave what is typed alone, or drop the pair.
LEMMA TypedAlone ==
  ASSUME RunTyped, input' = input, map' = map, factors' = factors, fusions' = fusions,
         pc' \in {"load", "refused", "sonar", "pair", "done", "gated"},
         pc' \notin {"load", "refused"} => Usable(input),
         pair' = NoPair \/ (pair' = pair /\ cursor' = cursor)
  PROVE  RunTyped'
<1>1. pair' \in Pairs /\ (pair' # NoPair => Untimed(input', pair', Order'[cursor']))
  BY DEF RunTyped, Pairs, Order
<1> QED
  BY <1>1 DEF RunTyped

LEMMA TypedStep == IInv /\ MapInv /\ RunTyped /\ [Next]_vars => RunTyped'
<1> SUFFICES ASSUME IInv, MapInv, RunTyped, [Next]_vars PROVE RunTyped'
  OBVIOUS
<1>1. CASE UNCHANGED vars
  BY <1>1, TypedAlone DEF vars, RunTyped
<1>2. CASE Load
  <2>1. pc' \in {"sonar", "refused"} /\ (pc' = "sonar" => Usable(input))
    BY <1>2 DEF Load, Configured, Usable
  <2> QED
    BY <1>2, <2>1, TypedAlone DEF Load
<1>3. CASE SonarFrame
  BY <1>3, TypedSonarFrame
<1>4. CASE Publish
  BY <1>4, TypedPublish
<1>5. CASE SkipKeyframe
  BY <1>5, TypedAlone DEF SkipKeyframe, NextKeyframe, RunTyped
<1>6. CASE Finished
  <2>1. pc = "pair" /\ pc' \in {"done", "gated"}
    BY <1>6 DEF Finished
  <2> QED
    BY <1>6, <2>1, TypedAlone DEF Finished, RunTyped
<1>7. ASSUME NEW left \in Stamps \cup {Malformed}, NEW right \in Stamps \cup {Malformed},
             NEW images, NEW prior \in Priors, TimePair(left, right, images, prior)
      PROVE  RunTyped'
  BY <1>7, TypedTimePair
<1>8. ASSUME NEW arc, FusePair(arc) PROVE RunTyped'
  BY <1>8, TypedFusePair
<1> QED
  BY <1>1, <1>2, <1>3, <1>4, <1>5, <1>6, <1>7, <1>8 DEF Next

LEMMA SpecMapInv == Spec => []MapInv
BY MapStart, MapStep, PTL DEF Spec

LEMMA SpecTallyInv == Spec => []TallyInv
BY SpecMapInv, Invariance, TallyStart, TallyStep, PTL DEF Spec

LEMMA SpecRunTyped == Spec => []RunTyped
BY SpecMapInv, Invariance, TypedStart, TypedStep, PTL DEF Spec

\* Every fused depth is one of the image's and its timing one the synchronizer
\* gives, every factor is of a keyframe of the graph, and no entry of the map is
\* ever left stale.
THEOREM TypeCorrect == Spec => []TypeOK
<1>1. IInv /\ MapInv /\ TallyInv /\ RunTyped => TypeOK
  <2> SUFFICES ASSUME IInv, MapInv, TallyInv, RunTyped PROVE TypeOK
    OBVIOUS
  <2>1. cursor \in Nat \ {0} /\ tally \in [DOMAIN NoTally -> Nat]
    BY DEF MapInv, StageInv, TallyInv, CountsAgree
  <2>2. StaleKeyframes(map) = {}
    BY DEF RunTyped, Fresh, StaleKeyframes
  <2>3. DOMAIN factors = 1 .. Len(factors) /\ DOMAIN fusions = 1 .. Len(fusions)
    BY LenProperties DEF IInv, MapInv, FactorsSound
  <2>4. \A i \in DOMAIN factors : factors[i].keyframe \in {Order[k] : k \in DOMAIN Order}
    BY <2>3 DEF RunTyped, OrderIds, Order
  <2>5. \A i \in DOMAIN fusions :
          fusions[i].timing \in Pairs \ {NoPair} /\ fusions[i].depth \in FusedDepths
    BY <2>3 DEF RunTyped, FusionTyped
  <2> QED
    BY <2>1, <2>2, <2>4, <2>5 DEF TypeOK, RunTyped
<1> QED
  BY <1>1, SpecMapInv, SpecTallyInv, SpecRunTyped, Invariance, PTL

\* Once a rig has been loaded its configuration is never why a capture of one of
\* its online sensors is left out: the header was malformed.  For any rig, any
\* offsets and any stamps.
THEOREM RigTimesItsSensors == Spec => []OnlySensorsOfTheRig
<1>1. IInv /\ RunTyped => OnlySensorsOfTheRig
  <2> SUFFICES ASSUME IInv, RunTyped, NEW i \in DOMAIN fusions,
                      fusions[i].timing.status = "invalid_timestamp"
               PROVE  LET f == fusions[i]  sonar == SonarOf(f.keyframe).stamp IN
                      \/ Malformed \in {f.timing.times[1], f.timing.times[2], sonar}
                      \/ sonar # Missing /\ "sonar" \notin OnlineSensors(input.rig)
    BY Zenon DEF OnlySensorsOfTheRig
  <2>1. i \in 1 .. Len(fusions)
    BY LenProperties DEF IInv
  <2>2. Excused(input, fusions[i].timing.times, fusions[i].keyframe)
    BY <2>1 DEF RunTyped, FusionTyped, Untimed
  <2> QED
    BY <2>2, TimesAreCorrected DEF Excused
<1> QED
  BY <1>1, SpecRunTyped, Invariance, PTL

-----------------------------------------------------------------------------
(* A run that exits 0.                                                      *)

\* The points the sonar corrected, and how many.
Corrected(fs) == {at \in (1 .. Len(fs)) \X Pixels : at[2] \in AcousticPixels(fs[at[1]])}

CorrectedInv ==
  IsFiniteSet(Corrected(fusions)) /\ Cardinality(Corrected(fusions)) = tally.acousticOptic

LEMMA CorrectedStart == Init => CorrectedInv
<1> SUFFICES ASSUME Init PROVE CorrectedInv
  OBVIOUS
<1>1. fusions = <<>> /\ Len(fusions) = 0 /\ tally.acousticOptic = 0
  BY DEF Init, NoTally
<1>2. 1 .. Len(fusions) = {}
  BY <1>1
<1>3. Corrected(fusions) = {}
  BY <1>2 DEF Corrected
<1> QED
  BY <1>1, <1>3, FS_EmptySet DEF CorrectedInv

LEMMA CorrectedFusePair ==
  ASSUME IInv, TallyInv, CorrectedInv, NEW arc, FusePair(arc)
  PROVE  CorrectedInv'
<1>1. PICK associated, record, fused :
        /\ tally' = Counted(associated, record, fused)
        /\ fusions' = Append(fusions, [keyframe |-> Order[cursor], timing |-> pair,
                                       record |-> record, depth |-> fused])
        /\ Improved([keyframe |-> Order[cursor], timing |-> pair, record |-> record, depth |-> fused])
        /\ \/ record.status \in Verdicts
           \/ record.status = "none"
  BY FusionFacts
<1>2. pair # NoPair /\ pair.prior \in Priors
  BY DEF FusePair, IInv, PairTimed
<1> DEFINE f == [keyframe |-> Order[cursor], timing |-> pair, record |-> record, depth |-> fused]
           S == Range(fusions) \cup {f}
           A == AcousticPixels(f)
           n == Len(fusions) + 1
           C == Corrected(fusions)
<1>3. /\ f.depth = fused /\ Improved(f) /\ f.timing.prior = pair.prior /\ f.record = record
  BY <1>1
<1> HIDE DEF f
<1>4. /\ IsFiniteSet(Bridged(fused)) /\ Count(fused, "optical") \in Nat
      /\ Count(fused, "acoustic_optic") \in Nat
  BY <1>2, <1>3, FusedPoints
<1>5. Cardinality(Bridged(fused)) \in Nat
  BY <1>4, FS_CardinalityType
<1>6. tally'.acousticOptic = tally.acousticOptic + Count(fused, "acoustic_optic")
  BY <1>1, <1>4, <1>5, CounterSteps DEF TallyInv, CountsAgree
<1>7. Count(fused, "acoustic_optic") = Cardinality(A) /\ A \subseteq Pixels /\ IsFiniteSet(A)
  <2>1. A = {p \in Pixels : fused[p].contribution = "acoustic_optic"}
    BY <1>3 DEF AcousticPixels
  <2>2. A \in SUBSET Pixels /\ IsFiniteSet(Pixels)
    BY <2>1, AcousticOpticAssumption
  <2> QED
    BY <2>1, <2>2, FS_Subset DEF Count
<1>8. fusions \in Seq(S) /\ f \in S
  <2>1. Range(fusions) \subseteq S /\ fusions \in Seq(Range(fusions))
    BY DEF IInv
  <2> HIDE DEF S
  <2>2. fusions \in Seq(S)
    BY <2>1, SeqMonotonic
  <2> QED
    BY <2>2 DEF S
<1> HIDE DEF S
<1>9. /\ Len(fusions') = n /\ Len(fusions) \in Nat
      /\ \A i \in 1 .. Len(fusions) : fusions'[i] = fusions[i]
      /\ fusions'[n] = f
  BY <1>1, <1>8, AppendProperties, LenProperties DEF f
<1> HIDE DEF A, C
<1>10. Corrected(fusions') = C \cup ({n} \X A)
  <2>1. ASSUME NEW i, NEW p
        PROVE  <<i, p>> \in Corrected(fusions') <=> <<i, p>> \in C \cup ({n} \X A)
    <3>1. <<i, p>> \in Corrected(fusions') <=>
            i \in 1 .. n /\ p \in Pixels /\ p \in AcousticPixels(fusions'[i])
      BY <1>9 DEF Corrected
    <3>2. <<i, p>> \in C <=>
            i \in 1 .. Len(fusions) /\ p \in Pixels /\ p \in AcousticPixels(fusions[i])
      BY DEF Corrected, C
    <3>3. <<i, p>> \in {n} \X A <=> i = n /\ p \in A
      OBVIOUS
    <3>4. i \in 1 .. n <=> i \in 1 .. Len(fusions) \/ i = n
      BY <1>9
    <3>5. CASE i \in 1 .. Len(fusions)
      BY <1>9, <3>1, <3>2, <3>3, <3>4, <3>5
    <3>6. CASE i = n
      <4>1. i \notin 1 .. Len(fusions) /\ fusions'[i] = f
        BY <1>9, <3>6
      <4> QED
        BY <1>7, <3>1, <3>2, <3>3, <3>4, <3>6, <4>1 DEF A
    <3>7. CASE i \notin 1 .. Len(fusions) /\ i # n
      BY <3>1, <3>2, <3>3, <3>4, <3>7
    <3> QED
      BY <3>5, <3>6, <3>7
  <2>2. /\ \A at \in Corrected(fusions') : at = <<at[1], at[2]>>
        /\ \A at \in C : at = <<at[1], at[2]>>
        /\ \A at \in {n} \X A : at = <<at[1], at[2]>>
    BY DEF Corrected, C
  <2> QED
    BY <2>1, <2>2
<1>11. C \cap ({n} \X A) = {}
  <2>1. n \notin 1 .. Len(fusions)
    BY <1>9
  <2>2. \A at \in C : at[1] \in 1 .. Len(fusions)
    BY DEF Corrected, C
  <2>3. \A at \in {n} \X A : at[1] = n
    OBVIOUS
  <2> QED
    BY <2>1, <2>2, <2>3
<1>12. IsFiniteSet({n} \X A) /\ Cardinality({n} \X A) = Cardinality(A) /\ Cardinality(A) \in Nat
  <2>1. IsFiniteSet({n}) /\ Cardinality({n}) = 1 /\ Cardinality(A) \in Nat
    BY <1>7, FS_Singleton, FS_CardinalityType
  <2>2. IsFiniteSet({n} \X A) /\ Cardinality({n} \X A) = 1 * Cardinality(A)
    BY <1>7, <2>1, FS_Product
  <2> QED
    BY <2>1, <2>2
<1>13. IsFiniteSet(C) /\ Cardinality(C) = tally.acousticOptic /\ Cardinality(C) \in Nat
  BY FS_CardinalityType DEF CorrectedInv, C
<1>14. /\ IsFiniteSet(Corrected(fusions'))
       /\ Cardinality(Corrected(fusions')) = Cardinality(C) + Cardinality(A)
  <2>1. Cardinality(C \cap ({n} \X A)) = 0
    BY <1>11, FS_EmptySet
  <2>2. /\ IsFiniteSet(C \cup ({n} \X A))
        /\ Cardinality(C \cup ({n} \X A)) =
             Cardinality(C) + Cardinality({n} \X A) - Cardinality(C \cap ({n} \X A))
    BY <1>12, <1>13, FS_Union
  <2> QED
    BY <1>10, <1>12, <1>13, <2>1, <2>2
<1> QED
  BY <1>6, <1>7, <1>13, <1>14 DEF CorrectedInv

LEMMA CorrectedStep == IInv /\ TallyInv /\ CorrectedInv /\ [Next]_vars => CorrectedInv'
<1> SUFFICES ASSUME IInv, TallyInv, CorrectedInv, [Next]_vars PROVE CorrectedInv'
  OBVIOUS
<1>1. CASE fusions' = fusions /\ tally'.acousticOptic = tally.acousticOptic
  BY <1>1 DEF CorrectedInv
<1>2. CASE UNCHANGED vars \/ Load \/ SonarFrame \/ Publish \/ SkipKeyframe \/ Finished
  BY <1>1, <1>2 DEF vars, Load, SonarFrame, Publish, SkipKeyframe, Finished
<1>3. ASSUME NEW left, NEW right, NEW images, NEW prior, TimePair(left, right, images, prior)
      PROVE  CorrectedInv'
  <2>1. tally \in [DOMAIN NoTally -> Nat] /\ "acousticOptic" \in DOMAIN NoTally
    BY DEF TallyInv, CountsAgree, NoTally
  <2>2. fusions' = fusions /\ tally' = [tally EXCEPT !.withCamera = @ + 1]
    BY <1>3 DEF TimePair
  <2> QED
    BY <1>1, <2>1, <2>2
<1>4. ASSUME NEW arc, FusePair(arc) PROVE CorrectedInv'
  BY <1>4, CorrectedFusePair
<1> QED
  BY <1>2, <1>3, <1>4 DEF Next

ScoredIn(in) ==
  {k \in DOMAIN in.order : \E i \in DOMAIN in.truth :
     Magnitude(in.truth[i].time - in.time[in.order[k]]) <= AteMaxDelta}

\* What GreenRunEarned asks of a run, for a given input, map and history.
EarnedBy(in, m, fs) ==
  /\ DeclaredIn(in, "require_nonempty_map") =>
       \E id \in DOMAIN m : WorldPointsForKeyframe(m, id) # {}
  /\ Cardinality(Corrected(fs)) >= DeclaredIn(in, "min_acoustic_optic_accepted")
  /\ Cardinality(Corrected(fs)) >= DeclaredIn(in, "min_acoustic_optic_map_points")
  /\ Cardinality(ScoredIn(in)) >= DeclaredIn(in, "min_matched_ate_poses")
  /\ DeclaredIn(in, "max_ate_rmse_m") >= 0 =>
       \A k \in ScoredIn(in) : \E i \in DOMAIN in.truth :
         Square(in.solved[in.order[k]] - in.truth[i].place)
           <= Cardinality(ScoredIn(in)) * Square(DeclaredIn(in, "max_ate_rmse_m"))

GreenInv == pc = "done" => EarnedBy(input, map, fusions)

\* A map that was counted to hold something shows a point.
LEMMA SomePoint ==
  ASSUME MapInv, TallyInv, Len(map["landmarks"].evidence) + tally.opticalOnly + tally.acousticOptic # 0
  PROVE  \E id \in DOMAIN map : WorldPointsForKeyframe(map, id) # {}
<1>1. MapSound(map) /\ Entered(map) \in Nat /\ WorldPointsForKeyframe(map, "landmarks") = Known(map)
  BY PointsAreKnown DEF MapInv
<1>2. CASE Entered(map) # 0
  <2>1. 1 \in 1 .. Entered(map)
    BY <1>1, <1>2
  <2>2. At(map, 1) \in Known(map)
    BY <2>1 DEF Known
  <2> QED
    BY <1>1, <2>2 DEF MapSound
<1>3. CASE Entered(map) = 0
  <2>1. /\ tally \in [DOMAIN NoTally -> Nat] /\ tally.points = tally.opticalOnly + tally.acousticOptic
        /\ tally.points = Cardinality(PointsInMap)
    BY DEF TallyInv, CountsAgree
  <2>2. tally.opticalOnly \in Nat /\ tally.acousticOptic \in Nat
    BY <2>1 DEF NoTally
  <2>3. Cardinality(PointsInMap) # 0
    BY <1>3, <2>1, <2>2 DEF Entered
  <2>4. PICK at \in PointsOf(map, OrderIds(input)) : TRUE
    BY <2>3, MapPoints, FS_EmptySet
  <2> DEFINE id == at[1]
             entry == Entry(map, id)
  <2>5. PICK i \in DOMAIN entry.evidence : at[2] \in DOMAIN entry.evidence[i].points
    BY DEF PointsOf
  <2>6. id \in DOMAIN map
    <3>1. CASE id \notin DOMAIN map
      <4>1. entry.evidence = <<>>
        BY <3>1 DEF Entry, NewKeyframe
      <4>2. DOMAIN entry.evidence = {}
        BY <4>1
      <4> QED
        BY <2>5, <4>2
    <3> QED
      BY <3>1
  <2> HIDE DEF entry, id
  <2>7. Apply(entry.pose, entry.evidence[i].points[at[2]]) \in WorldPointsForKeyframe(map, id)
    <3> DEFINE Points(j) == {Apply(entry.pose, entry.evidence[j].points[p]) :
                               p \in DOMAIN entry.evidence[j].points}
    <3>1. WorldPointsForKeyframe(map, id) = UNION {Points(j) : j \in DOMAIN entry.evidence}
      BY DEF WorldPointsForKeyframe, entry
    <3>2. Apply(entry.pose, entry.evidence[i].points[at[2]]) \in Points(i)
      BY <2>5
    <3> HIDE DEF Points
    <3> QED
      BY <3>1, <3>2
  <2> QED
    BY <2>6, <2>7
<1> QED
  BY <1>2, <1>3

\* A gate that is passed bounds what it judges.
LEMMA PassedGates ==
  ASSUME MapInv, TallyInv, CorrectedInv, NEW converged \in BOOLEAN, Failures(converged) = {}
  PROVE  EarnedBy(input, map, fusions)
<1> DEFINE ate == ComputeAte(Estimated, input.truth, AteMaxDelta)
           gates == Gates(input.config)
           scored == ScoredIn(input)
           N == Len(input.order)
           inForce(g) == DeclaredIn(input, g)
<1>1. input \in Inputs
  BY DEF MapInv, StageInv
<1>2. /\ DOMAIN input.order = 1 .. N /\ N \in Nat /\ input.truth \in Seq(Poses)
      /\ \A k \in 1 .. N : input.time[input.order[k]] \in Int /\ input.solved[input.order[k]] \in Int
  <2>1. \A k \in DOMAIN input.order :
          input.time[input.order[k]] \in Int /\ input.solved[input.order[k]] \in Int
    BY <1>1, InputsAssumption
  <2> QED
    BY <1>1, <2>1, OrderFacts, InputsAssumption DEF Poses
<1>3. Estimated \in [1 .. N -> Poses]
  BY <1>2 DEF Estimated, Order, Poses
<1>4. \A k \in 1 .. N : /\ Estimated[k].time = input.time[input.order[k]]
                        /\ Estimated[k].place = input.solved[input.order[k]]
  BY <1>2 DEF Estimated, Order
<1>5. scored = {k \in 1 .. N : \E i \in DOMAIN input.truth :
                  Magnitude(input.truth[i].time - Estimated[k].time) <= AteMaxDelta}
  BY <1>2, <1>4 DEF ScoredIn
<1>6. /\ IsFiniteSet(scored) /\ ate.matched = Cardinality(scored) /\ ate.squares \in Nat
      /\ \A k \in scored : \E i \in DOMAIN input.truth :
           Square(Estimated[k].place - input.truth[i].place) <= ate.squares
  <2>1. AteMaxDelta \in Nat
    BY AcousticOpticAssumption
  <2> DEFINE est == Estimated
             truth == input.truth
             near == {k \in 1 .. N : \E i \in DOMAIN truth :
                        Magnitude(truth[i].time - est[k].time) <= AteMaxDelta}
             score == ComputeAte(est, truth, AteMaxDelta)
  <2>2. N \in Nat /\ est \in [1 .. N -> Poses] /\ truth \in Seq(Poses)
    BY <1>2, <1>3
  <2>3. scored = near /\ ate = score
    BY <1>5
  <2> HIDE DEF ate, scored, est, truth, N
  <2>4. /\ IsFiniteSet(near) /\ score.matched = Cardinality(near) /\ score.squares \in Nat
        /\ \A k \in near : \E i \in DOMAIN truth :
             Square(est[k].place - truth[i].place) <= score.squares
    <3>1. AteSound(N, est, truth, AteMaxDelta)
      BY <2>1, <2>2, AteFacts
    <3> QED
      BY <3>1, Zenon DEF AteSound, near, score
  <2> HIDE DEF near, score
  <2> QED
    BY <2>3, <2>4 DEF est, truth
<1>7. \A k \in scored : k \in 1 .. N
  BY <1>5
<1>8. \A g \in DOMAIN BuiltInGates : g \in DOMAIN gates /\ gates[g] = inForce(g)
  BY <1>1, GateInForce
<1>9. /\ inForce("require_nonempty_map") \in BOOLEAN
      /\ {inForce("max_ate_rmse_m"), inForce("min_matched_ate_poses"),
          inForce("min_acoustic_optic_accepted"), inForce("min_acoustic_optic_map_points")} \subseteq Int
  BY <1>1, GateInForce DEF BuiltInGates
<1>10. {"require_nonempty_map", "max_ate_rmse_m", "min_matched_ate_poses",
        "min_acoustic_optic_accepted", "min_acoustic_optic_map_points"} \subseteq DOMAIN BuiltInGates
  BY DEF BuiltInGates
<1>11. GateFailures(gates, converged, ate, Len(map["landmarks"].evidence), tally) = {}
  BY DEF Failures
<1> HIDE DEF gates, ate, inForce, scored
<1>12. /\ ~(inForce("require_nonempty_map")
              /\ Len(map["landmarks"].evidence) + tally.opticalOnly + tally.acousticOptic = 0)
       /\ ~(inForce("min_acoustic_optic_accepted") > 0 /\ tally.accepted < inForce("min_acoustic_optic_accepted"))
       /\ ~(inForce("min_acoustic_optic_map_points") > 0
              /\ tally.acousticOptic < inForce("min_acoustic_optic_map_points"))
       /\ ~(inForce("min_matched_ate_poses") > 0 /\ ate.matched < inForce("min_matched_ate_poses"))
       /\ ~(inForce("max_ate_rmse_m") >= 0 /\ RmseAbove(ate, inForce("max_ate_rmse_m")))
  BY <1>8, <1>10, <1>11 DEF GateFailures
<1>13. /\ tally.accepted = tally.acousticOptic /\ tally.acousticOptic = Cardinality(Corrected(fusions))
       /\ Cardinality(Corrected(fusions)) \in Nat /\ Cardinality(scored) \in Nat
  BY <1>6, FS_CardinalityType DEF TallyInv, CountsAgree, CorrectedInv
<1>14. inForce("require_nonempty_map") => \E id \in DOMAIN map : WorldPointsForKeyframe(map, id) # {}
  BY <1>12, SomePoint
<1>15. /\ Cardinality(Corrected(fusions)) >= inForce("min_acoustic_optic_accepted")
       /\ Cardinality(Corrected(fusions)) >= inForce("min_acoustic_optic_map_points")
       /\ Cardinality(scored) >= inForce("min_matched_ate_poses")
  BY <1>6, <1>9, <1>12, <1>13
<1>16. ASSUME inForce("max_ate_rmse_m") >= 0, NEW k \in scored
       PROVE  \E i \in DOMAIN input.truth :
                Square(input.solved[input.order[k]] - input.truth[i].place)
                  <= Cardinality(scored) * Square(inForce("max_ate_rmse_m"))
  <2> DEFINE max == inForce("max_ate_rmse_m")
             c == Cardinality(scored)
  <2>1. PICK i \in DOMAIN input.truth : Square(Estimated[k].place - input.truth[i].place) <= ate.squares
    BY <1>6
  <2>2. ~(ate.squares > c * max * max)
    BY <1>6, <1>12, <1>16 DEF RmseAbove
  <2>3. max \in Int /\ c \in Nat
    BY <1>9, <1>13
  <2> DEFINE e == Square(Estimated[k].place - input.truth[i].place)
  <2>4. e \in Int
    <3>1. Estimated[k] \in Poses /\ input.truth[i] \in Poses
      BY <1>2, <1>3, <1>7
    <3>2. Estimated[k].place - input.truth[i].place \in Int
      BY <3>1 DEF Poses
    <3> QED
      BY <3>2, SquareNat DEF Square
  <2>5. e = Square(input.solved[input.order[k]] - input.truth[i].place)
    BY <1>4, <1>7
  <2> HIDE DEF max, c, e
  <2>6. e <= c * Square(max)
    <3>1. c * max * max = c * (max * max) /\ c * (max * max) \in Int
      BY <2>3
    <3> QED
      BY <1>6, <2>1, <2>2, <2>4, <3>1 DEF Square, e
  <2> QED
    BY <2>5, <2>6 DEF max, c
<1> QED
  BY <1>14, <1>15, <1>16 DEF EarnedBy, inForce, scored

LEMMA GreenStep ==
  MapInv /\ TallyInv /\ CorrectedInv /\ RunTyped /\ GreenInv /\ [Next]_vars => GreenInv'
<1> SUFFICES ASSUME MapInv, TallyInv, CorrectedInv, RunTyped, GreenInv, [Next]_vars, pc' = "done"
             PROVE  EarnedBy(input', map', fusions')
  BY DEF GreenInv
<1>1. CASE UNCHANGED vars
  BY <1>1 DEF vars, GreenInv
<1>2. CASE Finished
  <2>1. PICK converged \in BOOLEAN : Failures(converged) = {}
    BY <1>2 DEF Finished
  <2> QED
    BY <1>2, <2>1, PassedGates DEF Finished
<1>3. CASE ~Finished /\ ~UNCHANGED vars
  <2>1. pc' # "done"
    BY <1>3 DEF Next, Load, SonarFrame, Publish, SkipKeyframe, TimePair, FusePair
  <2> QED
    BY <2>1
<1> QED
  BY <1>1, <1>2, <1>3

\* A run that exits 0 left behind what its gates ask for: points in the map,
\* corrected points, enough keyframes to compare with the truth, and none further
\* from it than the gate on the trajectory error allows.  For any configuration
\* whose gates are read, whichever layer declares them.
THEOREM GreenIsEarned == Spec => []GreenRunEarned
<1>1. GreenInv /\ MapInv /\ IInv => GreenRunEarned
  <2> SUFFICES ASSUME EarnedBy(input, map, fusions), MapInv, IInv, pc = "done" PROVE GreenRunEarned
    BY DEF GreenInv, GreenRunEarned
  <2>1. \A gate : Declared(gate) = DeclaredIn(input, gate)
    <3>1. ASSUME NEW gate PROVE Declared(gate) = DeclaredIn(input, gate)
      <4>1. "gates" \notin DOMAIN input.config.defaults =>
              DOMAIN SectionOf(input.config.defaults, "gates") = {}
        BY DEF SectionOf
      <4>2. "gates" \in DOMAIN input.config.defaults =>
              SectionOf(input.config.defaults, "gates") = input.config.defaults["gates"]
        BY DEF SectionOf
      <4> QED
        BY <4>1, <4>2, Zenon DEF Declared, DeclaredIn
    <3> QED
      BY <3>1
  <2>2. ScoredKeyframes = ScoredIn(input)
    BY Zenon DEF ScoredKeyframes, ScoredIn, Order
  <2>3. {at \in (DOMAIN fusions) \X Pixels : at[2] \in AcousticPixels(fusions[at[1]])} = Corrected(fusions)
    <3>1. DOMAIN fusions = 1 .. Len(fusions)
      BY LenProperties DEF IInv
    <3> QED
      BY <3>1 DEF Corrected
  <2> QED
    BY <2>1, <2>2, <2>3, Zenon DEF GreenRunEarned, EarnedBy, Order
<1>2. Init => GreenInv
  BY DEF Init, GreenInv
<1>3. Spec => []CorrectedInv
  BY Invariance, SpecTallyInv, CorrectedStart, CorrectedStep, PTL DEF Spec
<1>4. Spec => []GreenInv
  BY <1>2, <1>3, SpecMapInv, SpecTallyInv, SpecRunTyped, GreenStep, PTL DEF Spec
<1> QED
  BY <1>1, <1>4, SpecMapInv, Invariance, PTL
=============================================================================
