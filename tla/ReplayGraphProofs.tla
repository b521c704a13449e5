------------------------- MODULE ReplayGraphProofs -------------------------
(***************************************************************************)
(* What the pipeline hands to the solver and publishes is sound, for any    *)
(* bag, any mode and any choice of the frontends.                           *)
(***************************************************************************)
EXTENDS ReplayGraph, TLAPS, SequenceTheorems, FiniteSetTheorems, FunctionTheorems,
        NaturalsInduction, WellFoundedInduction

\* The VO pass drives the frontend of StereoVo; its lemmas are used here.
VP == INSTANCE StereoVoProofs WITH NoReference <- NoKeyframe

-----------------------------------------------------------------------------
(* Numbers and sequences.                                                   *)

LEMMA LeastElement ==
  ASSUME NEW T, T \subseteq Nat, T # {}
  PROVE  \E x \in T : \A y \in T : x <= y
<1>1. IsWellFoundedOn(OpToRel(<, Nat), Nat)
  BY NatLessThanWellFounded
<1>2. PICK x \in T : \A y \in T : <<y, x>> \notin OpToRel(<, Nat)
  BY <1>1, WFMin
<1>3. ASSUME NEW y \in T PROVE x <= y
  <2>1. ~ (y < x)
    BY <1>2 DEF OpToRel
  <2> QED
    BY <2>1
<1> QED
  BY <1>3

\* A set of numbers up to N that holds 0, and each number after one it holds.
LEMMA UpTo ==
  ASSUME NEW N \in Nat, NEW T, T \subseteq 0 .. N, 0 \in T,
         \A n \in 1 .. N : n - 1 \in T => n \in T
  PROVE  T = 0 .. N
<1> DEFINE R == (0 .. N) \ T
<1>1. ASSUME R # {} PROVE FALSE
  <2>1. PICK n \in R : \A m \in R : n <= m
    <3>1. R \subseteq Nat
      OBVIOUS
    <3> HIDE DEF R
    <3> QED
      BY <1>1, <3>1, LeastElement
  <2>2. n \in 1 .. N /\ n - 1 \in 0 .. N /\ n - 1 \notin R
    BY <2>1
  <2> QED
    BY <2>1, <2>2
<1> QED
  BY <1>1

\* An element put at the end of a sequence.
LEMMA Appended ==
  ASSUME NEW S, NEW s \in Seq(S), NEW e \in S
  PROVE  /\ Append(s, e) \in Seq(S)
         /\ Len(Append(s, e)) = Len(s) + 1 /\ Len(s) \in Nat
         /\ DOMAIN s = 1 .. Len(s) /\ DOMAIN Append(s, e) = 1 .. Len(s) + 1
         /\ \A i \in 1 .. Len(s) : Append(s, e)[i] = s[i]
         /\ Append(s, e)[Len(s) + 1] = e
         /\ ToSet(Append(s, e)) = ToSet(s) \cup {e}
<1>1. /\ Append(s, e) \in Seq(S)
      /\ Len(Append(s, e)) = Len(s) + 1 /\ Len(s) \in Nat
      /\ \A i \in 1 .. Len(s) : Append(s, e)[i] = s[i]
      /\ Append(s, e)[Len(s) + 1] = e
  BY AppendProperties, LenProperties
<1>2. DOMAIN s = 1 .. Len(s) /\ DOMAIN Append(s, e) = 1 .. Len(s) + 1
  BY <1>1, LenProperties
<1>3. ToSet(Append(s, e)) = ToSet(s) \cup {e}
  <2> DEFINE t == Append(s, e)
  <2>1. /\ ToSet(t) = {t[i] : i \in 1 .. Len(s) + 1}
        /\ ToSet(s) = {s[i] : i \in 1 .. Len(s)}
    BY <1>2 DEF ToSet
  <2> HIDE DEF t
  <2>2. /\ \A i \in 1 .. Len(s) : t[i] = s[i]
        /\ t[Len(s) + 1] = e /\ Len(s) \in Nat
    BY <1>1 DEF t
  <2>3. \A i \in 1 .. Len(s) + 1 : i \in 1 .. Len(s) \/ i = Len(s) + 1
    BY <2>2
  <2>4. \A i \in 1 .. Len(s) : i \in 1 .. Len(s) + 1
    BY <2>2
  <2>5. Len(s) + 1 \in 1 .. Len(s) + 1
    BY <2>2
  <2>6. ToSet(t) = ToSet(s) \cup {e}
    BY <2>1, <2>2, <2>3, <2>4, <2>5
  <2> QED
    BY <2>6 DEF t
<1> QED
  BY <1>1, <1>2, <1>3

LEMMA MembersOf ==
  ASSUME NEW S, NEW s \in Seq(S)
  PROVE  /\ ToSet(s) \subseteq S /\ IsFiniteSet(ToSet(s))
         /\ DOMAIN s = 1 .. Len(s) /\ Len(s) \in Nat
         /\ ToSet(s) = {s[i] : i \in 1 .. Len(s)}
         /\ \A i \in 1 .. Len(s) : s[i] \in S /\ s[i] \in ToSet(s)
<1>1. DOMAIN s = 1 .. Len(s) /\ Len(s) \in Nat /\ \A i \in 1 .. Len(s) : s[i] \in S
  BY LenProperties, ElementOfSeq
<1>2. ToSet(s) = {s[i] : i \in 1 .. Len(s)}
  BY <1>1 DEF ToSet
<1>3. IsFiniteSet(ToSet(s))
  <2>1. s \in [1 .. Len(s) -> ToSet(s)]
    BY <1>1, <1>2
  <2>2. s \in Surjection(1 .. Len(s), ToSet(s))
    BY <1>2, <2>1, Fun_IsSurj
  <2>3. IsFiniteSet(1 .. Len(s))
    BY <1>1, FS_Interval
  <2> QED
    BY <2>2, <2>3, FS_Surjection
<1> QED
  BY <1>1, <1>2, <1>3

-----------------------------------------------------------------------------
(* The order of the camera keyframes.                                       *)

\* CameraOrder of an input.
NextOrder(before, f) ==
  IF f.camera = "other" \/ Contains(before, f.keyframe) THEN before
  ELSE Append(before, f.keyframe)

OrderOf(in) ==
  LET order[n \in 0 .. Len(in.images)] ==
        IF n = 0 THEN <<>>
        ELSE LET before == order[n - 1]  f == in.images[n] IN
             IF f.camera = "other" \/ Contains(before, f.keyframe) THEN before
             ELSE Append(before, f.keyframe)
  IN IF in.cameras THEN order[Len(in.images)] ELSE <<>>

LEMMA OrderIs == CameraOrder = OrderOf(input)
BY DEF CameraOrder, OrderOf

Orders(N, images, f) ==
  f[0] = <<>> /\ \A n \in 1 .. N : f[n] = NextOrder(f[n - 1], images[n])

Listing(s) == s \in Seq(Keyframes) /\ Distinct(s)

Frames == [keyframe : Keyframes, camera : Cameras]

LEMMA NextListing ==
  ASSUME NEW s, Listing(s), NEW f \in Frames
  PROVE  Listing(NextOrder(s, f))
<1>1. s \in Seq(Keyframes) /\ Distinct(s) /\ f.keyframe \in Keyframes
  BY DEF Listing, Frames
<1>2. CASE ~ Contains(s, f.keyframe)
  <2>1. /\ Append(s, f.keyframe) \in Seq(Keyframes) /\ Len(s) \in Nat
        /\ DOMAIN s = 1 .. Len(s) /\ DOMAIN Append(s, f.keyframe) = 1 .. Len(s) + 1
        /\ \A i \in 1 .. Len(s) : Append(s, f.keyframe)[i] = s[i]
        /\ Append(s, f.keyframe)[Len(s) + 1] = f.keyframe
    BY <1>1, Appended
  <2>2. \A i \in 1 .. Len(s) : s[i] # f.keyframe
    BY <1>2 DEF Contains
  <2>3. \A i \in 1 .. Len(s) + 1 : i \in 1 .. Len(s) \/ i = Len(s) + 1
    BY <2>1
  <2>4. Distinct(Append(s, f.keyframe))
    BY <1>1, <2>1, <2>2, <2>3 DEF Distinct
  <2> QED
    BY <1>1, <2>1, <2>4 DEF Listing, NextOrder
<1> QED
  BY <1>1, <1>2 DEF Listing, NextOrder

LEMMA OrdersExist ==
  ASSUME NEW N \in Nat, NEW images \in [1 .. N -> Frames]
  PROVE  \E f : f = [n \in 0 .. N |-> f[n]] /\ Orders(N, images, f)
<1> DEFINE T == {n \in 0 .. N : \E f : f = [i \in 0 .. n |-> f[i]] /\ Orders(n, images, f)}
<1>1. 0 \in T
  <2> DEFINE f == [i \in 0 .. 0 |-> <<>>]
  <2>1. f = [i \in 0 .. 0 |-> f[i]] /\ Orders(0, images, f)
    BY DEF Orders
  <2> QED
    BY <2>1
<1>2. ASSUME NEW n \in 1 .. N, n - 1 \in T PROVE n \in T
  <2>1. PICK f : f = [i \in 0 .. n - 1 |-> f[i]] /\ Orders(n - 1, images, f)
    BY <1>2
  <2> DEFINE g == [i \in 0 .. n |-> IF i = n THEN NextOrder(f[n - 1], images[n]) ELSE f[i]]
  <2>2. g = [i \in 0 .. n |-> g[i]]
    OBVIOUS
  <2>3. g[0] = <<>>
    BY <2>1 DEF Orders
  <2>4. ASSUME NEW i \in 1 .. n PROVE g[i] = NextOrder(g[i - 1], images[i])
    <3>1. CASE i = n
      BY <3>1
    <3>2. CASE i # n
      <4>1. i \in 1 .. n - 1 /\ i - 1 # n /\ i \in 0 .. n /\ i - 1 \in 0 .. n
        BY <3>2
      <4>2. g[i] = f[i] /\ g[i - 1] = f[i - 1]
        BY <3>2, <4>1
      <4>3. f[i] = NextOrder(f[i - 1], images[i])
        BY <2>1, <4>1 DEF Orders
      <4> QED
        BY <4>2, <4>3
    <3> QED
      BY <3>1, <3>2
  <2>5. Orders(n, images, g)
    BY <2>3, <2>4 DEF Orders
  <2> HIDE DEF g
  <2> QED
    BY <2>2, <2>5
<1>3. T = 0 .. N
  <2> HIDE DEF T
  <2>1. T \subseteq 0 .. N
    BY DEF T
  <2> QED
    BY <1>1, <1>2, <2>1, UpTo
<1>4. N \in T
  BY <1>3
<1> QED
  BY <1>4

LEMMA OrdersList ==
  ASSUME NEW N \in Nat, NEW images \in [1 .. N -> Frames], NEW f, Orders(N, images, f)
  PROVE  Listing(f[N])
<1> DEFINE T == {n \in 0 .. N : Listing(f[n])}
<1>1. 0 \in T
  <2>1. Listing(<<>>)
    BY DEF Listing, Distinct
  <2> QED
    BY <2>1 DEF Orders
<1>2. ASSUME NEW n \in 1 .. N, n - 1 \in T PROVE n \in T
  <2>1. Listing(f[n - 1]) /\ images[n] \in Frames /\ f[n] = NextOrder(f[n - 1], images[n])
    BY <1>2 DEF Orders
  <2>2. Listing(f[n])
    BY <2>1, NextListing
  <2> QED
    BY <2>2
<1>3. T = 0 .. N
  <2> HIDE DEF T
  <2>1. T \subseteq 0 .. N
    BY DEF T
  <2> QED
    BY <1>1, <1>2, <2>1, UpTo
<1> QED
  BY <1>3

\* The camera keyframes are listed once each.
LEMMA OrderFacts ==
  ASSUME NEW in \in InputRecords
  PROVE  Listing(OrderOf(in))
<1> DEFINE N == Len(in.images)
           NextOf(f) == [n \in 0 .. N |->
                         IF n = 0 THEN <<>> ELSE NextOrder(f[n - 1], in.images[n])]
           order == CHOOSE f : f = NextOf(f)
<1>1. N \in Nat /\ in.images \in [1 .. N -> Frames]
  <2>1. in.images \in Seq(Frames)
    BY DEF InputRecords, Frames
  <2> QED
    BY <2>1, LenProperties
<1>2. \E f : f = NextOf(f)
  <2>1. PICK f : f = [n \in 0 .. N |-> f[n]] /\ Orders(N, in.images, f)
    BY <1>1, OrdersExist
  <2>2. ASSUME NEW n \in 0 .. N PROVE f[n] = NextOf(f)[n]
    <3>1. CASE n = 0
      BY <2>1, <3>1 DEF Orders
    <3>2. CASE n # 0
      <4>1. n \in 1 .. N
        BY <1>1, <3>2
      <4>2. f[n] = NextOrder(f[n - 1], in.images[n])
        BY <2>1, <4>1 DEF Orders
      <4> QED
        BY <3>2, <4>2
    <3> QED
      BY <3>1, <3>2
  <2>3. NextOf(f) = [n \in 0 .. N |-> NextOf(f)[n]]
    OBVIOUS
  <2>4. f = NextOf(f)
    <3> HIDE DEF NextOf
    <3>1. [n \in 0 .. N |-> f[n]] = [n \in 0 .. N |-> NextOf(f)[n]]
      BY <2>2
    <3> QED
      BY <2>1, <2>3, <3>1
  <2> QED
    BY <2>4
<1>3. order = NextOf(order)
  <2> HIDE DEF NextOf
  <2> QED
    BY <1>2
<1>4. OrderOf(in) = IF in.cameras THEN order[N] ELSE <<>>
  BY DEF OrderOf, NextOrder
<1> HIDE DEF order
<1>5. Orders(N, in.images, order)
  <2>1. \A n \in 0 .. N : order[n] = IF n = 0 THEN <<>> ELSE NextOrder(order[n - 1], in.images[n])
    <3>1. \A n \in 0 .. N :
            NextOf(order)[n] = IF n = 0 THEN <<>> ELSE NextOrder(order[n - 1], in.images[n])
      OBVIOUS
    <3> HIDE DEF NextOf
    <3> QED
      BY <1>3, <3>1
  <2>2. 0 \in 0 .. N /\ \A n \in 1 .. N : n \in 0 .. N /\ n # 0
    BY <1>1
  <2> QED
    BY <2>1, <2>2 DEF Orders
<1>6. Listing(order[N])
  BY <1>1, <1>5, OrdersList
<1>7. Listing(<<>>)
  BY DEF Listing, Distinct
<1> QED
  BY <1>4, <1>6, <1>7

-----------------------------------------------------------------------------
(* The operations of the graph.                                             *)

Refs == {"P", "I"} \X Keyframes
Models == {"relative_pose", "loop_closure", "imu_preintegration", "inertial_prior",
           "sonar_range", "depth"}
Owners == Keyframes \cup {NoKeyframe}
Blocks == [model : Models, refs : SUBSET Refs, owner : Owners]
Graphs == [poses : Seq(Keyframes), fixed : SUBSET Keyframes, inertial : Seq(Keyframes),
           blocks : Seq(Blocks), thrown : BOOLEAN]

\* A list of keyframes and one that may be in it already.
With(s, k) == IF k \in ToSet(s) THEN s ELSE Append(s, k)

Block(model, refs, owner) == [model |-> model, refs |-> refs, owner |-> owner]

\* g with one block more, for the poses and inertial states given.
Grows(g, h, poses, inertial, b) ==
  /\ g \in Graphs /\ h \in Graphs /\ b \in Blocks
  /\ h.poses = poses /\ h.inertial = inertial
  /\ h.fixed = g.fixed /\ h.thrown = g.thrown
  /\ h.blocks = Append(g.blocks, b)

LEMMA WithTyped ==
  ASSUME NEW s \in Seq(Keyframes), NEW k \in Keyframes
  PROVE  With(s, k) \in Seq(Keyframes) /\ ToSet(With(s, k)) = ToSet(s) \cup {k}
BY Appended DEF With

LEMMA EmptyTyped == EmptyGraph \in Graphs
BY DEF EmptyGraph, Graphs

LEMMA KeyframeAdded ==
  ASSUME NEW g \in Graphs, NEW k \in Keyframes, NEW f \in BOOLEAN
  PROVE  LET h == AddKeyframe(g, k, f) IN
         /\ h \in Graphs
         /\ h.poses = With(g.poses, k)
         /\ h.inertial = g.inertial /\ h.blocks = g.blocks /\ h.thrown = g.thrown
         /\ h.fixed = IF f /\ k \notin ToSet(g.poses) THEN g.fixed \cup {k} ELSE g.fixed
<1>1. g.poses \in Seq(Keyframes) /\ g.fixed \in SUBSET Keyframes
  BY DEF Graphs
<1>2. Append(g.poses, k) \in Seq(Keyframes) /\ (g.fixed \cup {k}) \in SUBSET Keyframes
  BY <1>1, Appended
<1> DEFINE p == Append(g.poses, k)
<1>3. AddKeyframe(g, k, f) = IF k \in ToSet(g.poses) THEN g
        ELSE [g EXCEPT !.poses = p, !.fixed = IF f THEN g.fixed \cup {k} ELSE g.fixed]
  BY DEF AddKeyframe, HasKeyframe
<1>4. With(g.poses, k) = IF k \in ToSet(g.poses) THEN g.poses ELSE p
  BY DEF With
<1>5. p \in Seq(Keyframes)
  BY <1>2
<1> HIDE DEF p
<1> QED
  BY <1>2, <1>3, <1>4, <1>5 DEF Graphs

LEMMA InertialAdded ==
  ASSUME NEW g \in Graphs, NEW k \in Keyframes
  PROVE  LET h == AddInertialState(g, k) IN
         /\ h \in Graphs
         /\ h.poses = g.poses /\ h.blocks = g.blocks /\ h.fixed = g.fixed
         /\ k \in ToSet(g.poses) => h.inertial = With(g.inertial, k) /\ h.thrown = g.thrown
<1>1. g.inertial \in Seq(Keyframes)
  BY DEF Graphs
<1> DEFINE p == Append(g.inertial, k)
<1>2. p \in Seq(Keyframes)
  BY <1>1, Appended
<1>3. AddInertialState(g, k) = IF k \notin ToSet(g.poses) THEN [g EXCEPT !.thrown = TRUE]
        ELSE IF k \in ToSet(g.inertial) THEN g ELSE [g EXCEPT !.inertial = p]
  BY DEF AddInertialState, HasKeyframe, HasInertialState
<1>4. With(g.inertial, k) = IF k \in ToSet(g.inertial) THEN g.inertial ELSE p
  BY DEF With
<1> HIDE DEF p
<1> QED
  BY <1>2, <1>3, <1>4 DEF Graphs

LEMMA BlockTyped ==
  ASSUME NEW m \in Models, NEW refs \in SUBSET Refs, NEW o \in Owners
  PROVE  Block(m, refs, o) \in Blocks
BY DEF Block, Blocks

LEMMA BlockAdded ==
  ASSUME NEW g \in Graphs, NEW m \in Models, NEW refs \in SUBSET Refs, NEW o \in Owners
  PROVE  LET h == AddResidualBlock(g, m, refs, o) IN
         /\ h \in Graphs
         /\ (\A ref \in refs : Registered(g, ref)) =>
              Grows(g, h, g.poses, g.inertial, Block(m, refs, o))
<1> DEFINE b == Block(m, refs, o)
           s == Append(g.blocks, b)
<1>1. b \in Blocks
  BY BlockTyped
<1>2. s \in Seq(Blocks)
  <2>1. g.blocks \in Seq(Blocks)
    BY DEF Graphs
  <2> HIDE DEF b
  <2> QED
    BY <1>1, <2>1, Appended
<1>3. AddResidualBlock(g, m, refs, o) =
        IF \A ref \in refs : Registered(g, ref) THEN [g EXCEPT !.blocks = s]
        ELSE [g EXCEPT !.thrown = TRUE]
  BY DEF AddResidualBlock, Block
<1> DEFINE all == \A ref \in refs : Registered(g, ref)
<1>4. [g EXCEPT !.blocks = s] \in Graphs /\ [g EXCEPT !.thrown = TRUE] \in Graphs
  <2> HIDE DEF s
  <2> QED
    BY <1>2 DEF Graphs
<1>5. LET h == [g EXCEPT !.blocks = s] IN
        /\ h.poses = g.poses /\ h.inertial = g.inertial /\ h.fixed = g.fixed
        /\ h.thrown = g.thrown /\ h.blocks = s
  <2> HIDE DEF s
  <2> QED
    BY DEF Graphs
<1>6. Grows(g, [g EXCEPT !.blocks = s], g.poses, g.inertial, b)
  <2>1. s = Append(g.blocks, b)
    OBVIOUS
  <2> HIDE DEF s, b
  <2> QED
    BY <1>1, <1>4, <1>5, <2>1 DEF Grows
<1> HIDE DEF s, all
<1>7. CASE all
  BY <1>3, <1>4, <1>6, <1>7 DEF all
<1>8. CASE ~ all
  BY <1>3, <1>4, <1>8 DEF all
<1> QED
  BY <1>7, <1>8

LEMMA RefFacts ==
  ASSUME NEW k \in Keyframes
  PROVE  /\ PoseRef(k) \in Refs /\ InertialRef(k) \in Refs
         /\ PoseRef(k)[1] = "P" /\ PoseRef(k)[2] = k
         /\ InertialRef(k)[1] = "I" /\ InertialRef(k)[2] = k
BY DEF PoseRef, InertialRef, Refs

LEMMA RegisteredFacts ==
  ASSUME NEW g \in Graphs, NEW k \in Keyframes
  PROVE  /\ Registered(g, PoseRef(k)) <=> k \in ToSet(g.poses)
         /\ Registered(g, InertialRef(k)) <=> k \in ToSet(g.inertial)
BY RefFacts DEF Registered, HasKeyframe, HasInertialState

EdgeRefs(from, to) == {PoseRef(from), PoseRef(to)}

LEMMA EdgeTyped ==
  ASSUME NEW g \in Graphs, NEW from \in Keyframes, NEW to \in Keyframes
  PROVE  AddRelativePoseEdge(g, from, to) \in Graphs
<1>1. AddKeyframe(g, to, FALSE) \in Graphs
  BY KeyframeAdded
<1>2. {PoseRef(from), PoseRef(to)} \in SUBSET Refs /\ to \in Owners /\ "relative_pose" \in Models
  BY RefFacts DEF Owners, Models
<1> QED
  BY <1>1, <1>2, BlockAdded DEF AddRelativePoseEdge

\* An edge from a keyframe that is there brings in the one it leads to.
LEMMA EdgeAdded ==
  ASSUME NEW g \in Graphs, NEW from \in Keyframes, NEW to \in Keyframes,
         HasKeyframe(g, from)
  PROVE  Grows(g, AddRelativePoseEdge(g, from, to), With(g.poses, to), g.inertial,
               Block("relative_pose", EdgeRefs(from, to), to))
<1> DEFINE k == AddKeyframe(g, to, FALSE)
           b == Block("relative_pose", EdgeRefs(from, to), to)
           h == AddResidualBlock(k, "relative_pose", EdgeRefs(from, to), to)
<1>1. /\ k \in Graphs /\ k.poses = With(g.poses, to) /\ k.inertial = g.inertial
      /\ k.blocks = g.blocks /\ k.thrown = g.thrown /\ k.fixed = g.fixed
  BY KeyframeAdded
<1>2. EdgeRefs(from, to) \in SUBSET Refs /\ to \in Owners /\ "relative_pose" \in Models
  BY RefFacts DEF Owners, Models, EdgeRefs
<1>3. ToSet(k.poses) = ToSet(g.poses) \cup {to}
  BY <1>1, WithTyped DEF Graphs
<1>4. AddRelativePoseEdge(g, from, to) = h
  BY DEF AddRelativePoseEdge, EdgeRefs
<1> HIDE DEF k
<1>5. \A ref \in EdgeRefs(from, to) : Registered(k, ref)
  BY <1>1, <1>3, RegisteredFacts DEF EdgeRefs, HasKeyframe
<1>6. Grows(k, h, k.poses, k.inertial, b)
  BY <1>1, <1>2, <1>5, BlockAdded
<1> HIDE DEF h, b
<1>7. Grows(g, h, With(g.poses, to), g.inertial, b)
  BY <1>1, <1>6 DEF Grows
<1> QED
  BY <1>4, <1>7 DEF h, b

LEMMA AbsoluteTyped ==
  ASSUME NEW g \in Graphs, NEW k \in Keyframes, NEW m \in Models
  PROVE  /\ Absolute(g, m, k) \in Graphs
         /\ HasKeyframe(g, k) =>
              Grows(g, Absolute(g, m, k), g.poses, g.inertial, Block(m, {PoseRef(k)}, k))
<1>1. {PoseRef(k)} \in SUBSET Refs /\ k \in Owners
  BY RefFacts DEF Owners
<1>2. HasKeyframe(g, k) => \A ref \in {PoseRef(k)} : Registered(g, ref)
  BY RegisteredFacts DEF HasKeyframe
<1> QED
  BY <1>1, <1>2, BlockAdded DEF Absolute

PriorOf(g, k) ==
  AddResidualBlock(AddInertialState(g, k), "inertial_prior", {InertialRef(k)}, NoKeyframe)

LEMMA PriorAdded ==
  ASSUME NEW g \in Graphs, NEW k \in Keyframes
  PROVE  /\ PriorOf(g, k) \in Graphs
         /\ HasKeyframe(g, k) =>
              Grows(g, PriorOf(g, k), g.poses, With(g.inertial, k),
                    Block("inertial_prior", {InertialRef(k)}, NoKeyframe))
<1> DEFINE s == AddInertialState(g, k)
           b == Block("inertial_prior", {InertialRef(k)}, NoKeyframe)
<1>1. /\ s \in Graphs /\ s.poses = g.poses /\ s.blocks = g.blocks /\ s.fixed = g.fixed
      /\ HasKeyframe(g, k) => s.inertial = With(g.inertial, k) /\ s.thrown = g.thrown
  BY InertialAdded DEF HasKeyframe
<1>2. {InertialRef(k)} \in SUBSET Refs /\ NoKeyframe \in Owners /\ "inertial_prior" \in Models
  BY RefFacts DEF Owners, Models
<1>3. PriorOf(g, k) = AddResidualBlock(s, "inertial_prior", {InertialRef(k)}, NoKeyframe)
  BY DEF PriorOf
<1> HIDE DEF s
<1>4. PriorOf(g, k) \in Graphs
  BY <1>1, <1>2, <1>3, BlockAdded
<1>5. ASSUME HasKeyframe(g, k)
      PROVE  Grows(g, PriorOf(g, k), g.poses, With(g.inertial, k), b)
  <2>1. ToSet(s.inertial) = ToSet(g.inertial) \cup {k}
    BY <1>1, <1>5, WithTyped DEF Graphs
  <2>2. \A ref \in {InertialRef(k)} : Registered(s, ref)
    BY <1>1, <2>1, RegisteredFacts
  <2>3. Grows(s, PriorOf(g, k), s.poses, s.inertial, b)
    BY <1>1, <1>2, <1>3, <2>2, BlockAdded
  <2> HIDE DEF b
  <2> QED
    BY <1>1, <1>5, <2>3 DEF Grows
<1> QED
  BY <1>4, <1>5

LEMMA IntervalTyped ==
  ASSUME NEW g \in Graphs, NEW from \in Keyframes, NEW to \in Keyframes
  PROVE  AddInterval(g, from, to) \in Graphs
<1>1. AddInertialState(AddKeyframe(g, to, FALSE), to) \in Graphs
  BY KeyframeAdded, InertialAdded
<1>2. IntervalRefs(from, to) \in SUBSET Refs /\ to \in Owners /\ "imu_preintegration" \in Models
  BY RefFacts DEF Owners, Models, IntervalRefs
<1> QED
  BY <1>1, <1>2, BlockAdded DEF AddInterval

\* An interval brings in the pose and the inertial state it leads to.
LEMMA IntervalAdded ==
  ASSUME NEW g \in Graphs, NEW from \in Keyframes, NEW to \in Keyframes,
         HasKeyframe(g, from), HasInertialState(g, from)
  PROVE  Grows(g, AddInterval(g, from, to), With(g.poses, to), With(g.inertial, to),
               Block("imu_preintegration", IntervalRefs(from, to), to))
<1> DEFINE k == AddKeyframe(g, to, FALSE)
           s == AddInertialState(k, to)
           b == Block("imu_preintegration", IntervalRefs(from, to), to)
           h == AddResidualBlock(s, "imu_preintegration", IntervalRefs(from, to), to)
<1>1. /\ k \in Graphs /\ k.poses = With(g.poses, to) /\ k.inertial = g.inertial
      /\ k.blocks = g.blocks /\ k.thrown = g.thrown /\ k.fixed = g.fixed
  BY KeyframeAdded
<1>2. IntervalRefs(from, to) \in SUBSET Refs /\ to \in Owners /\ "imu_preintegration" \in Models
  BY RefFacts DEF Owners, Models, IntervalRefs
<1>3. ToSet(k.poses) = ToSet(g.poses) \cup {to}
  BY <1>1, WithTyped DEF Graphs
<1>4. AddInterval(g, from, to) = h
  BY DEF AddInterval
<1> HIDE DEF k
<1>5. /\ s \in Graphs /\ s.poses = k.poses /\ s.blocks = k.blocks /\ s.fixed = k.fixed
      /\ s.inertial = With(k.inertial, to) /\ s.thrown = k.thrown
  BY <1>1, <1>3, InertialAdded
<1>6. ToSet(s.inertial) = ToSet(g.inertial) \cup {to}
  BY <1>1, <1>5, WithTyped DEF Graphs
<1> HIDE DEF s
<1>7. \A ref \in IntervalRefs(from, to) : Registered(s, ref)
  BY <1>1, <1>3, <1>5, <1>6, RegisteredFacts DEF IntervalRefs, HasKeyframe, HasInertialState
<1>8. Grows(s, h, s.poses, s.inertial, b)
  BY <1>2, <1>5, <1>7, BlockAdded
<1> HIDE DEF h, b
<1>9. Grows(g, h, With(g.poses, to), With(g.inertial, to), b)
  BY <1>1, <1>5, <1>8 DEF Grows
<1> QED
  BY <1>4, <1>9 DEF h, b

LoopBlock(from, to) == Block("loop_closure", EdgeRefs(from, to), to)

LEMMA LoopBlockTyped ==
  ASSUME NEW from \in Keyframes, NEW to \in Keyframes
  PROVE  LoopBlock(from, to) \in Blocks
<1>1. EdgeRefs(from, to) \in SUBSET Refs /\ to \in Owners /\ "loop_closure" \in Models
  BY RefFacts DEF Owners, Models, EdgeRefs
<1> QED
  BY <1>1, BlockTyped DEF LoopBlock

\* Loop edges stand behind the blocks that were there.
LEMMA LoopsAdded ==
  ASSUME NEW g \in Graphs, NEW n \in Nat, NEW loops \in [1 .. n -> Keyframes],
         NEW to \in Keyframes
  PROVE  LET h == AddLoopEdges(g, loops, to) IN
         /\ h \in Graphs
         /\ h.poses = g.poses /\ h.inertial = g.inertial
         /\ h.fixed = g.fixed /\ h.thrown = g.thrown
         /\ Len(h.blocks) = Len(g.blocks) + n
         /\ \A i \in 1 .. Len(g.blocks) : h.blocks[i] = g.blocks[i]
         /\ \A i \in 1 .. n : h.blocks[Len(g.blocks) + i] = LoopBlock(loops[i], to)
<1> DEFINE t == [i \in 1 .. n |-> LoopBlock(loops[i], to)]
           s == g.blocks \o t
<1>1. t \in Seq(Blocks) /\ Len(t) = n
  <2>1. \A i \in 1 .. n : LoopBlock(loops[i], to) \in Blocks
    BY LoopBlockTyped
  <2>2. t \in [1 .. n -> Blocks]
    BY <2>1
  <2> HIDE DEF t
  <2> QED
    BY <2>2, LenProperties
<1>2. g.blocks \in Seq(Blocks)
  BY DEF Graphs
<1>3. \A i \in 1 .. n : t[i] = LoopBlock(loops[i], to)
  OBVIOUS
<1>4. AddLoopEdges(g, loops, to) = [g EXCEPT !.blocks = s]
  <2>1. DOMAIN loops = 1 .. n
    OBVIOUS
  <2> QED
    BY <2>1 DEF AddLoopEdges, LoopBlock, Block, EdgeRefs
<1> HIDE DEF t
<1>5. /\ s \in Seq(Blocks) /\ Len(s) = Len(g.blocks) + n /\ Len(g.blocks) \in Nat
      /\ \A i \in 1 .. Len(g.blocks) : s[i] = g.blocks[i]
      /\ \A i \in 1 .. n : s[Len(g.blocks) + i] = LoopBlock(loops[i], to)
  <2>1. /\ s \in Seq(Blocks) /\ Len(s) = Len(g.blocks) + Len(t) /\ Len(g.blocks) \in Nat
        /\ \A i \in 1 .. Len(s) :
             s[i] = IF i <= Len(g.blocks) THEN g.blocks[i] ELSE t[i - Len(g.blocks)]
    BY <1>1, <1>2, ConcatProperties, LenProperties
  <2> HIDE DEF s
  <2>2. \A i \in 1 .. Len(g.blocks) : s[i] = g.blocks[i]
    BY <1>1, <2>1
  <2>3. ASSUME NEW i \in 1 .. n PROVE s[Len(g.blocks) + i] = LoopBlock(loops[i], to)
    <3>1. PICK j \in 1 .. Len(s) :
            j = Len(g.blocks) + i /\ ~ (j <= Len(g.blocks)) /\ j - Len(g.blocks) = i
      <4>1. PICK N \in Nat : N = Len(g.blocks)
        BY <2>1
      <4>2. Len(s) = N + n
        BY <1>1, <2>1, <4>1
      <4>3. N + i \in 1 .. N + n /\ ~ (N + i <= N) /\ N + i - N = i
        OBVIOUS
      <4> QED
        BY <4>1, <4>2, <4>3
    <3>2. s[j] = t[j - Len(g.blocks)]
      BY <2>1, <3>1
    <3>3. t[j - Len(g.blocks)] = LoopBlock(loops[i], to)
      BY <1>3, <3>1
    <3> QED
      BY <3>1, <3>2, <3>3
  <2> QED
    BY <1>1, <2>1, <2>2, <2>3
<1> HIDE DEF s
<1> QED
  BY <1>4, <1>5 DEF Graphs

-----------------------------------------------------------------------------
(* Rows and degrees of freedom.                                             *)

RowsTo(n, g, f) == f[0] = 0 /\ \A i \in 1 .. n : f[i] = f[i - 1] + RowsOf(g, g.blocks[i])

LEMMA DimTyped == \A m \in Models : ResidualDim(m) \in Nat
BY DEF Models, ResidualDim

LEMMA RowsTyped ==
  ASSUME NEW g, NEW b \in Blocks
  PROVE  RowsOf(g, b) \in Nat
BY DimTyped DEF RowsOf, Blocks

LEMMA RowsExist ==
  ASSUME NEW g \in Graphs, NEW N \in Nat, N = Len(g.blocks)
  PROVE  \E f : f = [i \in 0 .. N |-> f[i]] /\ RowsTo(N, g, f)
<1> DEFINE T == {n \in 0 .. N : \E f : f = [i \in 0 .. n |-> f[i]] /\ RowsTo(n, g, f)}
<1>1. 0 \in T
  <2> DEFINE f == [i \in 0 .. 0 |-> 0]
  <2>1. f = [i \in 0 .. 0 |-> f[i]] /\ RowsTo(0, g, f)
    BY DEF RowsTo
  <2> QED
    BY <2>1
<1>2. ASSUME NEW n \in 1 .. N, n - 1 \in T PROVE n \in T
  <2>1. PICK f : f = [i \in 0 .. n - 1 |-> f[i]] /\ RowsTo(n - 1, g, f)
    BY <1>2
  <2> DEFINE e == f[n - 1] + RowsOf(g, g.blocks[n])
             k == [i \in 0 .. n |-> IF i = n THEN e ELSE f[i]]
  <2>2. k = [i \in 0 .. n |-> k[i]]
    OBVIOUS
  <2>3. k[0] = 0
    BY <2>1 DEF RowsTo
  <2>4. ASSUME NEW i \in 1 .. n PROVE k[i] = k[i - 1] + RowsOf(g, g.blocks[i])
    <3>1. CASE i = n
      BY <3>1
    <3>2. CASE i # n
      <4>1. i \in 1 .. n - 1 /\ i - 1 # n /\ i \in 0 .. n /\ i - 1 \in 0 .. n
        BY <3>2
      <4>2. k[i] = f[i] /\ k[i - 1] = f[i - 1]
        BY <3>2, <4>1
      <4>3. f[i] = f[i - 1] + RowsOf(g, g.blocks[i])
        BY <2>1, <4>1 DEF RowsTo
      <4> QED
        BY <4>2, <4>3
    <3> QED
      BY <3>1, <3>2
  <2>5. RowsTo(n, g, k)
    BY <2>3, <2>4 DEF RowsTo
  <2> HIDE DEF k
  <2> QED
    BY <2>2, <2>5
<1>3. T = 0 .. N
  <2> HIDE DEF T
  <2>1. T \subseteq 0 .. N
    BY DEF T
  <2> QED
    BY <1>1, <1>2, <2>1, UpTo
<1>4. N \in T
  BY <1>3
<1> QED
  BY <1>4

\* The rows are the last of the running sums.
LEMMA RowsSum ==
  ASSUME NEW g \in Graphs
  PROVE  /\ Len(g.blocks) \in Nat
         /\ \E f : /\ RowsTo(Len(g.blocks), g, f)
                   /\ \A n \in 0 .. Len(g.blocks) : f[n] \in Nat
                   /\ ResidualRows(g) = f[Len(g.blocks)]
<1> DEFINE N == Len(g.blocks)
           NextOf(f) == [n \in 0 .. N |-> IF n = 0 THEN 0 ELSE f[n - 1] + RowsOf(g, g.blocks[n])]
           rows == CHOOSE f : f = NextOf(f)
<1>0. g.blocks \in Seq(Blocks) /\ N \in Nat /\ \A i \in 1 .. N : g.blocks[i] \in Blocks
  <2>1. g.blocks \in Seq(Blocks)
    BY DEF Graphs
  <2> QED
    BY <2>1, MembersOf
<1>2. \E f : f = NextOf(f)
  <2>1. PICK f : f = [n \in 0 .. N |-> f[n]] /\ RowsTo(N, g, f)
    BY <1>0, RowsExist
  <2>2. ASSUME NEW n \in 0 .. N PROVE f[n] = NextOf(f)[n]
    <3>1. CASE n = 0
      BY <2>1, <3>1 DEF RowsTo
    <3>2. CASE n # 0
      <4>1. n \in 1 .. N
        BY <1>0, <3>2
      <4>2. f[n] = f[n - 1] + RowsOf(g, g.blocks[n])
        BY <2>1, <4>1 DEF RowsTo
      <4> QED
        BY <3>2, <4>2
    <3> QED
      BY <3>1, <3>2
  <2>3. NextOf(f) = [n \in 0 .. N |-> NextOf(f)[n]]
    OBVIOUS
  <2>4. f = NextOf(f)
    <3> HIDE DEF NextOf
    <3>1. [n \in 0 .. N |-> f[n]] = [n \in 0 .. N |-> NextOf(f)[n]]
      BY <2>2
    <3> QED
      BY <2>1, <2>3, <3>1
  <2> QED
    BY <2>4
<1>3. rows = NextOf(rows)
  <2> HIDE DEF NextOf
  <2> QED
    BY <1>2
<1>4. ResidualRows(g) = rows[N]
  BY DEF ResidualRows
<1> HIDE DEF rows
<1>5. RowsTo(N, g, rows)
  <2>1. \A n \in 0 .. N : rows[n] = IF n = 0 THEN 0 ELSE rows[n - 1] + RowsOf(g, g.blocks[n])
    <3>1. \A n \in 0 .. N :
            NextOf(rows)[n] = IF n = 0 THEN 0 ELSE rows[n - 1] + RowsOf(g, g.blocks[n])
      OBVIOUS
    <3> HIDE DEF NextOf
    <3> QED
      BY <1>3, <3>1
  <2>2. 0 \in 0 .. N /\ \A n \in 1 .. N : n \in 0 .. N /\ n # 0
    BY <1>0
  <2> QED
    BY <2>1, <2>2 DEF RowsTo
<1> DEFINE T == {n \in 0 .. N : rows[n] \in Nat}
<1>6. T = 0 .. N
  <2>1. 0 \in T
    BY <1>0, <1>5 DEF RowsTo
  <2>2. ASSUME NEW n \in 1 .. N, n - 1 \in T PROVE n \in T
    <3>1. rows[n] = rows[n - 1] + RowsOf(g, g.blocks[n]) /\ rows[n - 1] \in Nat
      BY <1>5, <2>2 DEF RowsTo
    <3>2. RowsOf(g, g.blocks[n]) \in Nat
      BY <1>0, RowsTyped
    <3> QED
      BY <3>1, <3>2
  <2> HIDE DEF T
  <2>3. T \subseteq 0 .. N
    BY DEF T
  <2> QED
    BY <1>0, <2>1, <2>2, <2>3, UpTo
<1> QED
  BY <1>0, <1>4, <1>5, <1>6

\* Blocks and free parameters that are added take no rows away.
LEMMA RowsGrow ==
  ASSUME NEW g \in Graphs, NEW h \in Graphs,
         Len(g.blocks) <= Len(h.blocks),
         \A i \in 1 .. Len(g.blocks) : h.blocks[i] = g.blocks[i],
         FreeBlocks(g) \subseteq FreeBlocks(h)
  PROVE  /\ ResidualRows(g) \in Nat /\ ResidualRows(h) \in Nat
         /\ ResidualRows(g) <= ResidualRows(h)
         /\ Len(h.blocks) = Len(g.blocks) + 1 =>
              ResidualRows(g) + RowsOf(h, h.blocks[Len(h.blocks)]) <= ResidualRows(h)
<1>n. PICK N \in Nat, M \in Nat : N = Len(g.blocks) /\ M = Len(h.blocks)
  BY RowsSum
<1>1. PICK f : RowsTo(N, g, f) /\ (\A n \in 0 .. N : f[n] \in Nat) /\ ResidualRows(g) = f[N]
  BY <1>n, RowsSum
<1>2. PICK k : RowsTo(M, h, k) /\ (\A n \in 0 .. M : k[n] \in Nat) /\ ResidualRows(h) = k[M]
  BY <1>n, RowsSum
<1>3. N <= M
  BY <1>n
<1>4. ASSUME NEW i \in 1 .. M PROVE RowsOf(h, h.blocks[i]) \in Nat
  <2>1. h.blocks \in Seq(Blocks)
    BY DEF Graphs
  <2> QED
    BY <1>n, <2>1, ElementOfSeq, RowsTyped
<1>5. ASSUME NEW i \in 1 .. N
      PROVE  RowsOf(g, g.blocks[i]) \in Nat /\ RowsOf(g, g.blocks[i]) <= RowsOf(h, h.blocks[i])
  <2>1. g.blocks \in Seq(Blocks)
    BY DEF Graphs
  <2>2. g.blocks[i] \in Blocks /\ h.blocks[i] = g.blocks[i]
    BY <1>n, <2>1, ElementOfSeq
  <2>3. ResidualDim(g.blocks[i].model) \in Nat
    BY <2>2, DimTyped DEF Blocks
  <2> QED
    BY <2>2, <2>3 DEF RowsOf
<1> DEFINE T == {n \in 0 .. N : f[n] <= k[n]}
<1>6. T = 0 .. N
  <2>1. 0 \in T
    BY <1>1, <1>2 DEF RowsTo
  <2>2. ASSUME NEW n \in 1 .. N, n - 1 \in T PROVE n \in T
    <3>1. n \in 1 .. M /\ n - 1 \in 0 .. N /\ n - 1 \in 0 .. M /\ n \in 0 .. N
      BY <1>3
    <3>2. /\ f[n] = f[n - 1] + RowsOf(g, g.blocks[n])
          /\ k[n] = k[n - 1] + RowsOf(h, h.blocks[n])
      BY <1>1, <1>2, <3>1 DEF RowsTo
    <3>3. f[n - 1] \in Nat /\ k[n - 1] \in Nat /\ f[n - 1] <= k[n - 1]
      BY <1>1, <1>2, <2>2, <3>1
    <3>4. f[n] <= k[n]
      BY <1>4, <1>5, <3>1, <3>2, <3>3
    <3> QED
      BY <3>1, <3>4
  <2> HIDE DEF T
  <2>3. T \subseteq 0 .. N
    BY DEF T
  <2> QED
    BY <2>1, <2>2, <2>3, UpTo
<1>7. f[N] <= k[N]
  <2>1. N \in T
    BY <1>6
  <2> QED
    BY <2>1
<1> DEFINE U == {n \in 0 .. M - N : k[N] <= k[N + n]}
<1>8. U = 0 .. M - N
  <2>0. M - N \in Nat
    BY <1>3
  <2>1. 0 \in U
    BY <1>2, <1>3
  <2>2. ASSUME NEW n \in 1 .. M - N, n - 1 \in U PROVE n \in U
    <3>1. PICK m \in 1 .. M : m = N + n /\ m - 1 = N + (n - 1) /\ m - 1 \in 0 .. M /\ N \in 0 .. M
      BY <1>3
    <3>2. k[m] = k[m - 1] + RowsOf(h, h.blocks[m])
      BY <1>2 DEF RowsTo
    <3>3. k[m - 1] \in Nat /\ k[N] \in Nat /\ k[N] <= k[m - 1]
      BY <1>2, <2>2, <3>1
    <3>4. k[N] <= k[m]
      BY <1>4, <3>2, <3>3
    <3> QED
      BY <3>1, <3>4
  <2> HIDE DEF U
  <2>3. U \subseteq 0 .. M - N
    BY DEF U
  <2> QED
    BY <2>0, <2>1, <2>2, <2>3, UpTo
<1>9. k[N] <= k[M]
  <2>1. M - N \in 0 .. M - N /\ N + (M - N) = M
    BY <1>3
  <2>2. M - N \in U
    BY <1>8, <2>1
  <2> QED
    BY <2>1, <2>2
<1>10. N \in 0 .. N /\ N \in 0 .. M /\ M \in 0 .. M
  BY <1>3
<1>11. f[N] \in Nat /\ k[N] \in Nat /\ k[M] \in Nat
  BY <1>1, <1>2, <1>10
<1>12. ASSUME M = N + 1 PROVE f[N] + RowsOf(h, h.blocks[M]) <= k[M]
  <2>1. M \in 1 .. M /\ M - 1 = N
    BY <1>12
  <2>2. k[M] = k[N] + RowsOf(h, h.blocks[M])
    BY <1>2, <2>1 DEF RowsTo
  <2> QED
    BY <1>4, <1>7, <1>11, <2>1, <2>2
<1>13. ResidualRows(g) = f[N] /\ ResidualRows(h) = k[M]
  BY <1>1, <1>2
<1> HIDE DEF T, U
<1>14. f[N] <= k[M]
  BY <1>7, <1>9, <1>11
<1>15. Len(h.blocks) = Len(g.blocks) + 1 =>
         ResidualRows(g) + RowsOf(h, h.blocks[Len(h.blocks)]) <= ResidualRows(h)
  BY <1>n, <1>12, <1>13
<1> QED
  BY <1>11, <1>13, <1>14, <1>15

LEMMA GrowsBlocks ==
  ASSUME NEW g, NEW h, NEW p, NEW s, NEW b, Grows(g, h, p, s, b)
  PROVE  /\ Len(g.blocks) \in Nat /\ Len(h.blocks) = Len(g.blocks) + 1
         /\ DOMAIN g.blocks = 1 .. Len(g.blocks) /\ DOMAIN h.blocks = 1 .. Len(g.blocks) + 1
         /\ \A i \in 1 .. Len(g.blocks) : h.blocks[i] = g.blocks[i]
         /\ h.blocks[Len(g.blocks) + 1] = b
         /\ ToSet(h.blocks) = ToSet(g.blocks) \cup {b}
<1>1. g.blocks \in Seq(Blocks) /\ b \in Blocks /\ h.blocks = Append(g.blocks, b)
  BY DEF Grows, Graphs
<1> QED
  BY <1>1, Appended

LEMMA FreeFacts ==
  ASSUME NEW g \in Graphs
  PROVE  /\ ToSet(g.poses) \subseteq Keyframes /\ ToSet(g.inertial) \subseteq Keyframes
         /\ IsFiniteSet(FreePoses(g)) /\ IsFiniteSet(ToSet(g.inertial))
         /\ Cardinality(FreePoses(g)) \in Nat /\ Cardinality(ToSet(g.inertial)) \in Nat
         /\ FreeParameterDim(g) \in Nat
<1>1. g.poses \in Seq(Keyframes) /\ g.inertial \in Seq(Keyframes)
  BY DEF Graphs
<1>2. /\ ToSet(g.poses) \subseteq Keyframes /\ ToSet(g.inertial) \subseteq Keyframes
      /\ IsFiniteSet(ToSet(g.poses)) /\ IsFiniteSet(ToSet(g.inertial))
  BY <1>1, MembersOf
<1>3. FreePoses(g) \in SUBSET ToSet(g.poses)
  BY DEF FreePoses
<1>4. IsFiniteSet(FreePoses(g))
  BY <1>2, <1>3, FS_Subset
<1>5. Cardinality(FreePoses(g)) \in Nat /\ Cardinality(ToSet(g.inertial)) \in Nat
  BY <1>2, <1>4, FS_CardinalityType
<1> QED
  BY <1>2, <1>4, <1>5 DEF FreeParameterDim

\* A pose and an inertial state come with rows enough and a block that names
\* them.
LEMMA GrowsObservable ==
  ASSUME NEW g, NEW h, NEW p, NEW s, NEW b, NEW k \in Keyframes,
         Grows(g, h, p, s, b), Observable(g),
         ToSet(p) = ToSet(g.poses) \/ ToSet(p) = ToSet(g.poses) \cup {k},
         ToSet(s) = ToSet(g.inertial) \/ ToSet(s) = ToSet(g.inertial) \cup {k},
         ToSet(p) # ToSet(g.poses) => PoseRef(k) \in b.refs /\ ResidualDim(b.model) >= 6,
         ToSet(s) # ToSet(g.inertial) => InertialRef(k) \in b.refs /\ ResidualDim(b.model) >= 9,
         ToSet(p) # ToSet(g.poses) /\ ToSet(s) # ToSet(g.inertial) => ResidualDim(b.model) >= 15
  PROVE  Observable(h)
<1> DEFINE F == FreePoses(g)  G == FreePoses(h)  I == ToSet(g.inertial)  J == ToSet(h.inertial)
           x == IF G = F THEN 0 ELSE 1
           y == IF J = I THEN 0 ELSE 1
<1>0. /\ g \in Graphs /\ h \in Graphs /\ b \in Blocks
      /\ h.poses = p /\ h.inertial = s /\ h.fixed = g.fixed
  BY DEF Grows
<1>1. G = F \/ (G = F \cup {k} /\ ToSet(p) # ToSet(g.poses))
  BY <1>0 DEF FreePoses
<1>2. J = I \/ (J = I \cup {k} /\ ToSet(s) # ToSet(g.inertial))
  BY <1>0
<1>3. /\ FreeBlocks(g) \subseteq FreeBlocks(h)
      /\ \A ref \in FreeBlocks(h) \ FreeBlocks(g) :
           \/ ref = PoseRef(k) /\ G # F
           \/ ref = InertialRef(k) /\ J # I
      /\ G # F => PoseRef(k) \in FreeBlocks(h)
      /\ J # I => InertialRef(k) \in FreeBlocks(h)
  BY <1>1, <1>2 DEF FreeBlocks
<1>4. Referenced(h) = Referenced(g) \cup b.refs
  <2>1. ToSet(h.blocks) = ToSet(g.blocks) \cup {b}
    BY GrowsBlocks
  <2> QED
    BY <2>1 DEF Referenced
<1>5. FreeBlocks(h) \subseteq Referenced(h)
  <2>1. ASSUME NEW ref \in FreeBlocks(h) PROVE ref \in Referenced(g) \cup b.refs
    <3>1. CASE ref \in FreeBlocks(g)
      BY <3>1 DEF Observable
    <3>2. CASE ref = PoseRef(k) /\ G # F
      BY <1>1, <3>2
    <3>3. CASE ref = InertialRef(k) /\ J # I
      BY <1>2, <3>3
    <3> QED
      BY <1>3, <2>1, <3>1, <3>2, <3>3
  <2> QED
    BY <1>4, <2>1
<1>6. /\ IsFiniteSet(F) /\ IsFiniteSet(I)
      /\ Cardinality(F) \in Nat /\ Cardinality(G) \in Nat
      /\ Cardinality(I) \in Nat /\ Cardinality(J) \in Nat
  BY <1>0, FreeFacts
<1>7. Cardinality(G) <= Cardinality(F) + x /\ Cardinality(J) <= Cardinality(I) + y
  <2>1. Cardinality(F \cup {k}) = Cardinality(F) \/ Cardinality(F \cup {k}) = Cardinality(F) + 1
    BY <1>6, FS_AddElement
  <2>2. Cardinality(I \cup {k}) = Cardinality(I) \/ Cardinality(I \cup {k}) = Cardinality(I) + 1
    BY <1>6, FS_AddElement
  <2>3. G = F \/ G = F \cup {k}
    BY <1>1
  <2>4. J = I \/ J = I \cup {k}
    BY <1>2
  <2> HIDE DEF F, G, I, J
  <2>5. Cardinality(G) <= Cardinality(F) + x
    <3>1. x = IF G = F THEN 0 ELSE 1
      OBVIOUS
    <3>2. Cardinality(G) = Cardinality(F) \/ (G # F /\ Cardinality(G) = Cardinality(F) + 1)
      BY <2>1, <2>3
    <3> HIDE DEF x
    <3> QED
      BY <1>6, <3>1, <3>2
  <2>6. Cardinality(J) <= Cardinality(I) + y
    <3>1. y = IF J = I THEN 0 ELSE 1
      OBVIOUS
    <3>2. Cardinality(J) = Cardinality(I) \/ (J # I /\ Cardinality(J) = Cardinality(I) + 1)
      BY <2>2, <2>4
    <3> HIDE DEF y
    <3> QED
      BY <1>6, <3>1, <3>2
  <2> QED
    BY <2>5, <2>6
<1>8. FreeParameterDim(h) <= FreeParameterDim(g) + 6 * x + 9 * y
  <2>2. /\ FreeParameterDim(g) = 6 * Cardinality(F) + 9 * Cardinality(I)
        /\ FreeParameterDim(h) = 6 * Cardinality(G) + 9 * Cardinality(J)
    BY DEF FreeParameterDim
  <2>3. x \in Nat /\ y \in Nat
    OBVIOUS
  <2> HIDE DEF F, G, I, J, x, y
  <2> QED
    BY <1>6, <1>7, <2>2, <2>3
<1>9. /\ Len(h.blocks) = Len(g.blocks) + 1 /\ Len(g.blocks) \in Nat
      /\ \A i \in 1 .. Len(g.blocks) : h.blocks[i] = g.blocks[i]
      /\ h.blocks[Len(h.blocks)] = b
  BY GrowsBlocks
<1>10. /\ ResidualRows(g) \in Nat /\ ResidualRows(h) \in Nat
       /\ ResidualRows(g) + RowsOf(h, b) <= ResidualRows(h)
  <2>1. Len(g.blocks) <= Len(h.blocks)
    BY <1>9
  <2> QED
    BY <1>0, <1>3, <1>9, <2>1, RowsGrow
<1>11. RowsOf(h, b) \in Nat /\ ResidualDim(b.model) \in Nat
  BY <1>0, RowsTyped, DimTyped DEF Blocks
<1>12. RowsOf(h, b) >= 6 * x + 9 * y
  <2>1. CASE G = F /\ J = I
    BY <1>11, <2>1
  <2>2. CASE G # F \/ J # I
    <3>1. b.refs \cap FreeBlocks(h) # {}
      BY <1>1, <1>2, <1>3, <2>2
    <3>2. RowsOf(h, b) = ResidualDim(b.model)
      BY <3>1 DEF RowsOf
    <3>3. ResidualDim(b.model) >= 6 * x + 9 * y
      BY <1>1, <1>2, <1>11, <2>2
    <3> QED
      BY <3>2, <3>3
  <2> QED
    BY <2>1, <2>2
<1>13. ResidualRows(g) >= FreeParameterDim(g)
  BY DEF Observable
<1>14. FreeParameterDim(g) \in Nat /\ FreeParameterDim(h) \in Nat /\ x \in Nat /\ y \in Nat
  BY <1>0, FreeFacts
<1>15. ResidualRows(h) >= FreeParameterDim(h)
  <2> HIDE DEF x, y
  <2> QED
    BY <1>8, <1>10, <1>11, <1>12, <1>13, <1>14
<1> QED
  BY <1>5, <1>15 DEF Observable

\* Blocks over parameters that are there already.
LEMMA LoopsObservable ==
  ASSUME NEW g \in Graphs, NEW h \in Graphs, Observable(g),
         h.poses = g.poses, h.inertial = g.inertial, h.fixed = g.fixed,
         Len(g.blocks) <= Len(h.blocks),
         \A i \in 1 .. Len(g.blocks) : h.blocks[i] = g.blocks[i]
  PROVE  Observable(h)
<1>1. FreeBlocks(h) = FreeBlocks(g) /\ FreeParameterDim(h) = FreeParameterDim(g)
  BY DEF FreeBlocks, FreePoses, FreeParameterDim
<1>2. ResidualRows(g) <= ResidualRows(h) /\ ResidualRows(g) \in Nat /\ ResidualRows(h) \in Nat
  BY <1>1, RowsGrow
<1>3. ToSet(g.blocks) \subseteq ToSet(h.blocks)
  <2>1. g.blocks \in Seq(Blocks) /\ h.blocks \in Seq(Blocks)
    BY DEF Graphs
  <2>2. /\ ToSet(g.blocks) = {g.blocks[i] : i \in 1 .. Len(g.blocks)} /\ Len(g.blocks) \in Nat
        /\ ToSet(h.blocks) = {h.blocks[i] : i \in 1 .. Len(h.blocks)} /\ Len(h.blocks) \in Nat
    BY <2>1, MembersOf
  <2> QED
    BY <2>2
<1>4. Referenced(g) \subseteq Referenced(h)
  BY <1>3 DEF Referenced
<1>5. FreeParameterDim(g) \in Nat
  BY FreeFacts
<1> QED
  BY <1>1, <1>2, <1>4, <1>5 DEF Observable

-----------------------------------------------------------------------------
(* The frontend inside the pass.                                            *)

LEMMA VoStart == Vo!Init => VP!IInv
<1>1. Vo!Init => VP!Init
  BY DEF Vo!Init, Vo!VoInit, VP!Init, VP!VoInit
<1> QED
  BY <1>1, VP!InitInvariant, ReplayGraphAssumption

LEMMA VoStutter == VP!IInv /\ UNCHANGED voVars => VP!IInv'
<1>1. UNCHANGED voVars => [VP!Next]_(VP!voVars)
  BY DEF voVars, VP!voVars
<1> QED
  BY <1>1, VP!StepInvariant, ReplayGraphAssumption

LEMMA VoVisit ==
  ASSUME VP!IInv, NEW k \in Keyframes, Vo!VisitKeyframe(k),
         \A i \in 1 .. Len(outcomes) : outcomes[i].keyframe # k
  PROVE  VP!IInv' /\ VP!VisitEffect(k)
<1>1. VP!VisitKeyframe(k)
  BY DEF Vo!VisitKeyframe, VP!VisitKeyframe, Vo!Process, VP!Process, Vo!Establish, VP!Establish,
     Vo!Track, VP!Track, Vo!AtMost, VP!AtMost, Vo!RecordTrackingFailure, VP!RecordTrackingFailure,
     Vo!PromoteReference, VP!PromoteReference, Vo!StatusFor, VP!StatusFor
<1>2. VP!Visit(k)
  BY <1>1 DEF VP!Visit
<1>3. VP!VisitEffect(k)
  BY <1>2, VP!VisitCases, ReplayGraphAssumption
<1>4. VP!Typed' 
  BY <1>2, VP!VisitTyped, ReplayGraphAssumption
<1>5. VP!EdgesFormPath' /\ VP!ReferenceUsable'
  BY <1>2, VP!VisitChain, ReplayGraphAssumption
<1>6. VP!ReferenceLast' /\ VP!OneFailureOneEdge'
  BY <1>2, VP!VisitEdges, ReplayGraphAssumption
<1>7. VP!FailuresCounted' /\ VP!HealthTellsFailedRun'
  BY <1>2, VP!VisitHealth, ReplayGraphAssumption
<1> QED
  BY <1>3, <1>4, <1>5, <1>6, <1>7 DEF VP!IInv

LEMMA VoTyped ==
  ASSUME VP!IInv
  PROVE  /\ reference \in Keyframes \cup {NoKeyframe}
         /\ edges \in Seq([from : Keyframes, to : Keyframes])
         /\ outcomes \in Seq([keyframe : Keyframes, tracked : BOOLEAN])
         /\ health \in Seq([keyframe : Keyframes, status : VP!Statuses])
BY DEF VP!IInv, VP!Typed, VP!TypeOK

-----------------------------------------------------------------------------
(* Types and stages.                                                        *)

Stages == {"rectify", "anchor", "times", "prior", "edges", "loops", "sonar", "depth",
           "check", "solve", "publish", "gate", "exit"}
Loops == {"edges", "loops", "sonar", "depth", "publish"}
Sources == {"none", "camera", "boundary", "reference", "depth_log", "edge_log"}
Snapshots == [keyframe : Keyframes, time : Sources, status : {"tracking", "degraded", "lost"},
              contributing : SUBSET Nat]

Basic ==
  /\ pc \in Stages /\ input \in Inputs
  /\ cursor \in Nat \ {0} /\ (pc \notin Loops => cursor = 1)
  /\ graph \in Graphs
  /\ timeOf \in [Keyframes -> Sources]
  /\ archive \in Seq(Keyframes) /\ landmarks \in Nat /\ converged \in BOOLEAN
  /\ trajectory \in Seq(Snapshots)
  /\ exitCode \in {-1, 0, 1, 2} /\ (exitCode = -1 <=> pc # "exit")
  /\ pc \notin {"rectify", "anchor", "exit"} =>
       Anchor \in Keyframes /\ (Imu => Len(input.boundaries) >= 2)

\* The frontend sees each keyframe once, in the order of the bag.
VoPlace ==
  /\ VP!IInv
  /\ ~Stereo \/ pc \in {"rectify", "anchor", "times", "prior"} => outcomes = <<>>
  /\ pc = "edges" /\ Stereo =>
       \A i \in 1 .. Len(outcomes) : \E c \in DOMAIN OrderOf(input) :
          c < cursor /\ outcomes[i].keyframe = OrderOf(input)[c]

TypeInv == Basic /\ VoPlace

LEMMA InputTyped ==
  ASSUME NEW in \in Inputs
  PROVE  /\ in \in InputRecords
         /\ in.boundaries \in Seq(Keyframes) /\ Distinct(in.boundaries)
         /\ in.evidence \in Seq(DepthEvidence \cup EdgeEvidence)
         /\ in.sonar \in Seq(Keyframes)
         /\ Listing(OrderOf(in))
<1>1. in \in InputRecords /\ Distinct(in.boundaries)
  BY ReplayGraphAssumption
<1>2. /\ in.boundaries \in Seq(Keyframes) /\ in.sonar \in Seq(Keyframes)
      /\ in.evidence \in Seq(DepthEvidence \cup EdgeEvidence)
  BY <1>1 DEF InputRecords
<1>3. Listing(OrderOf(in))
  BY <1>1, OrderFacts
<1> QED
  BY <1>1, <1>2, <1>3

LEMMA LoopNames == DOMAIN Following = Loops
BY DEF Following, Loops

\* What a loop of the function visits.
LEMMA Visited ==
  ASSUME input \in Inputs, cursor \in Nat \ {0}
  PROVE  /\ At("edges") /\ Imu =>
              /\ cursor \in 1 .. Len(input.boundaries) /\ cursor + 1 \in 1 .. Len(input.boundaries)
              /\ pc = "edges" /\ Item = input.boundaries[cursor + 1]
              /\ Item \in Keyframes /\ input.boundaries[cursor] \in Keyframes
         /\ (At("edges") /\ Stereo) \/ At("loops") =>
              /\ cursor \in DOMAIN OrderOf(input) /\ Item = OrderOf(input)[cursor]
              /\ Item \in Keyframes /\ Stereo
         /\ (At("edges") /\ ~Imu /\ ~Stereo) \/ At("depth") =>
              /\ cursor \in 1 .. Len(input.evidence) /\ Item = input.evidence[cursor]
              /\ Item \in DepthEvidence \cup EdgeEvidence
         /\ At("sonar") =>
              /\ cursor \in 1 .. Len(input.sonar) /\ Item = input.sonar[cursor]
              /\ Item \in Keyframes
<1>0. /\ input.boundaries \in Seq(Keyframes) /\ input.sonar \in Seq(Keyframes)
      /\ input.evidence \in Seq(DepthEvidence \cup EdgeEvidence)
      /\ OrderOf(input) \in Seq(Keyframes) /\ CameraOrder = OrderOf(input)
  BY InputTyped, OrderIs DEF Listing
<1>1. ASSUME At("edges"), Imu
      PROVE  /\ cursor \in 1 .. Len(input.boundaries) /\ cursor + 1 \in 1 .. Len(input.boundaries)
             /\ pc = "edges" /\ Item = input.boundaries[cursor + 1]
             /\ Item \in Keyframes /\ input.boundaries[cursor] \in Keyframes
  <2> DEFINE s == input.boundaries
  <2>1. cursor \in DOMAIN Tail(s) /\ Item = Tail(s)[cursor] /\ pc = "edges"
    BY <1>1 DEF At, Item, Work
  <2>2. s \in Seq(Keyframes)
    BY <1>0
  <2> HIDE DEF s
  <2>3. s # <<>>
    BY <2>1
  <2>4. /\ Tail(s) \in Seq(Keyframes) /\ Len(Tail(s)) = Len(s) - 1 /\ Len(s) \in Nat
        /\ \A i \in 1 .. Len(Tail(s)) : Tail(s)[i] = s[i + 1]
    BY <2>2, <2>3, HeadTailProperties, LenProperties
  <2>5. cursor \in 1 .. Len(Tail(s))
    BY <2>1, <2>4, MembersOf
  <2>6. cursor \in 1 .. Len(s) /\ cursor + 1 \in 1 .. Len(s)
    BY <2>4, <2>5
  <2> QED
    BY <2>1, <2>2, <2>4, <2>5, <2>6, ElementOfSeq DEF s
<1>2. ASSUME (At("edges") /\ Stereo) \/ At("loops")
      PROVE  /\ cursor \in DOMAIN OrderOf(input) /\ Item = OrderOf(input)[cursor]
             /\ Item \in Keyframes /\ Stereo
  <2>1. Stereo => ~Imu
    BY DEF Stereo, Imu
  <2>2. /\ cursor \in DOMAIN OrderOf(input) /\ Item = OrderOf(input)[cursor] /\ Stereo
    BY <1>0, <1>2, <2>1 DEF At, Item, Work
  <2> QED
    BY <1>0, <2>2, MembersOf
<1>3. ASSUME (At("edges") /\ ~Imu /\ ~Stereo) \/ At("depth")
      PROVE  /\ cursor \in 1 .. Len(input.evidence) /\ Item = input.evidence[cursor]
             /\ Item \in DepthEvidence \cup EdgeEvidence
  <2>1. cursor \in DOMAIN input.evidence /\ Item = input.evidence[cursor]
    BY <1>3 DEF At, Item, Work
  <2> QED
    BY <1>0, <2>1, MembersOf
<1>4. ASSUME At("sonar")
      PROVE  /\ cursor \in 1 .. Len(input.sonar) /\ Item = input.sonar[cursor]
             /\ Item \in Keyframes
  <2>1. cursor \in DOMAIN input.sonar /\ Item = input.sonar[cursor]
    BY <1>4 DEF At, Item, Work
  <2> QED
    BY <1>0, <2>1, MembersOf
<1> QED
  BY <1>1, <1>2, <1>3, <1>4

\* How the control moves.
Moves ==
  /\ input' = input
  /\ \/ /\ pc \in Loops /\ At(pc) /\ pc' = pc /\ cursor' = cursor + 1 /\ exitCode' = exitCode
     \/ /\ pc # "exit" /\ cursor' = 1 /\ pc' \in Stages /\ pc' # pc
        /\ IF pc' = "exit" THEN exitCode' \in {0, 1, 2} ELSE exitCode' = exitCode
     \/ pc' = pc /\ cursor' = cursor /\ exitCode' = exitCode

LEMMA StepMoves ==
  ASSUME Basic, [Next]_vars
  PROVE  Moves
<1>1. CASE UNCHANGED vars \/ Done
  BY <1>1 DEF vars, Done, Moves
<1>2. CASE Rectify \/ ChooseAnchor \/ CollectTimes \/ AnchorInertial
  BY <1>2 DEF Rectify, ChooseAnchor, CollectTimes, AnchorInertial, Fail, Moves, Stages, Basic, Loops
<1>3. CASE ImuInterval \/ VoFrame \/ BagEdge
  BY <1>3 DEF ImuInterval, VoFrame, BagEdge, Advance, At, Moves, Loops
<1>4. CASE LoopFrame \/ SonarFrame \/ DepthRecord \/ Publish
  BY <1>4 DEF LoopFrame, SonarFrame, DepthRecord, Publish, Advance, At, Moves, Loops
<1>5. CASE EndOfLoop
  BY <1>5, LoopNames DEF EndOfLoop, Fail, Moves, Stages, Following, Loops
<1>6. CASE CheckObservability \/ Solve \/ Gate
  BY <1>6 DEF CheckObservability, Solve, Gate, Fail, Moves, Stages, Basic, Loops
<1> QED
  BY <1>1, <1>2, <1>3, <1>4, <1>5, <1>6 DEF Next, Step

LEMMA MovesTyped ==
  ASSUME Basic, Moves
  PROVE  /\ pc' \in Stages /\ input' \in Inputs
         /\ cursor' \in Nat \ {0} /\ (pc' \notin Loops => cursor' = 1)
         /\ exitCode' \in {-1, 0, 1, 2} /\ (exitCode' = -1 <=> pc' # "exit")
BY DEF Basic, Moves, Loops

Outcome(k, tracked) == [keyframe |-> k, tracked |-> tracked]
Outcomes == [keyframe : Keyframes, tracked : BOOLEAN]

\* What a visited frame does to the graph and to what is known of the frames.
FrameFails(k) ==
  /\ outcomes' = Append(outcomes, Outcome(k, FALSE))
  /\ reference' = reference /\ graph' = graph

FrameFirst(k) ==
  /\ outcomes' = Append(outcomes, Outcome(k, TRUE))
  /\ reference = NoKeyframe /\ reference' = k /\ graph' = graph

FrameTracks(k) ==
  /\ outcomes' = Append(outcomes, Outcome(k, TRUE))
  /\ reference \in Keyframes /\ reference' = k
  /\ graph' = AddRelativePoseEdge(graph, reference, k)

LEMMA FrameEffect ==
  ASSUME Basic, VoPlace, VoFrame
  PROVE  LET k == OrderOf(input)[cursor] IN
         /\ pc = "edges" /\ Stereo /\ cursor \in DOMAIN OrderOf(input) /\ k \in Keyframes
         /\ pc' = pc /\ input' = input /\ cursor' = cursor + 1 /\ exitCode' = exitCode
         /\ UNCHANGED runVars
         /\ VP!IInv'
         /\ \/ UNCHANGED <<graph, voVars>>
            \/ /\ \A i \in 1 .. Len(outcomes) : outcomes[i].keyframe # k
               /\ VP!VisitEffect(k)
               /\ FrameFails(k) \/ FrameFirst(k) \/ FrameTracks(k)
<1> DEFINE k == OrderOf(input)[cursor]
<1>1. At("edges") /\ Stereo /\ pc = "edges"
  BY DEF VoFrame, At
<1>2. cursor \in DOMAIN OrderOf(input) /\ k \in Keyframes /\ Item = k
  BY <1>1, Visited DEF Basic
<1>3. UNCHANGED runVars /\ pc' = pc /\ input' = input /\ cursor' = cursor + 1 /\ exitCode' = exitCode
  BY DEF VoFrame, Advance
<1>4. CASE ~GetRectified(Item)
  <2>1. UNCHANGED <<graph, voVars>>
    BY <1>4 DEF VoFrame
  <2>2. VP!IInv'
    BY <2>1, VoStutter DEF VoPlace
  <2> QED
    BY <1>1, <1>2, <1>3, <2>1, <2>2
<1>5. CASE GetRectified(Item)
  <2>1. /\ Vo!VisitKeyframe(k)
        /\ graph' = IF edges' = edges THEN graph
                    ELSE AddRelativePoseEdge(graph, Last(edges').from, Last(edges').to)
    BY <1>2, <1>5 DEF VoFrame
  <2>2. ASSUME NEW i \in 1 .. Len(outcomes) PROVE outcomes[i].keyframe # k
    <3>1. PICK c \in DOMAIN OrderOf(input) : c < cursor /\ outcomes[i].keyframe = OrderOf(input)[c]
      BY <1>1 DEF VoPlace
    <3>2. Distinct(OrderOf(input)) /\ c # cursor
      BY <3>1, InputTyped DEF Listing, Basic
    <3> QED
      BY <1>2, <3>1, <3>2 DEF Distinct
  <2>3. VP!IInv' /\ VP!VisitEffect(k)
    BY <1>2, <2>1, <2>2, VoVisit DEF VoPlace
  <2>4. reference \in Keyframes \cup {NoKeyframe} /\ edges \in Seq([from : Keyframes, to : Keyframes])
    BY VoTyped DEF VoPlace
  <2>5. outcomes' = Append(outcomes, Outcome(k, reference' = k))
    BY <2>3 DEF VP!VisitEffect, Outcome
  <2>6. CASE reference' = k /\ reference = NoKeyframe /\ edges' = edges
    <3>1. Outcome(k, reference' = k) = Outcome(k, TRUE)
      BY <2>6 DEF Outcome
    <3>2. FrameFirst(k)
      BY <2>1, <2>5, <2>6, <3>1 DEF FrameFirst
    <3> QED
      BY <1>1, <1>2, <1>3, <2>2, <2>3, <3>2
  <2>7. CASE reference' = k /\ reference # NoKeyframe
             /\ edges' = Append(edges, [from |-> reference, to |-> k])
    <3>1. Outcome(k, reference' = k) = Outcome(k, TRUE)
      BY <2>7 DEF Outcome
    <3> DEFINE e == [from |-> reference, to |-> k]
    <3>2. e \in [from : Keyframes, to : Keyframes] /\ e.from = reference /\ e.to = k
      BY <1>2, <2>4, <2>7
    <3>3. edges' = Append(edges, e)
      BY <2>7
    <3> HIDE DEF e
    <3>4. Len(edges') = Len(edges) + 1 /\ edges'[Len(edges) + 1] = e /\ Len(edges) \in Nat
      BY <2>4, <3>2, <3>3, Appended
    <3>5. edges' # edges
      BY <3>4
    <3>6. Last(edges') = e
      BY <3>4 DEF Last
    <3>7. graph' = AddRelativePoseEdge(graph, reference, k)
      BY <2>1, <3>2, <3>5, <3>6
    <3>8. FrameTracks(k)
      BY <2>4, <2>5, <2>7, <3>1, <3>7 DEF FrameTracks
    <3> QED
      BY <1>1, <1>2, <1>3, <2>2, <2>3, <3>8
  <2>8. CASE reference' = reference /\ reference # k /\ edges' = edges
    <3>1. Outcome(k, reference' = k) = Outcome(k, FALSE)
      BY <2>8 DEF Outcome
    <3>2. FrameFails(k)
      BY <2>1, <2>5, <2>8, <3>1 DEF FrameFails
    <3> QED
      BY <1>1, <1>2, <1>3, <2>2, <2>3, <3>2
  <2> QED
    BY <2>3, <2>6, <2>7, <2>8 DEF VP!VisitEffect, VP!Tracks, VP!Fails
<1> QED
  BY <1>4, <1>5

LEMMA AnchorTyped ==
  ASSUME input \in Inputs, Imu => Len(input.boundaries) >= 2
  PROVE  Anchor \in Keyframes /\ (Imu => Anchor = input.boundaries[1])
<1>1. CASE Imu
  <2>1. input.boundaries \in Seq(Keyframes) /\ input.boundaries # <<>>
    BY <1>1, InputTyped
  <2>2. Head(input.boundaries) \in Keyframes /\ Head(input.boundaries) = input.boundaries[1]
    BY <2>1, HeadTailProperties
  <2> QED
    BY <1>1, <2>2 DEF Anchor
<1>2. CASE ~Imu
  BY <1>2, ReplayGraphAssumption DEF Anchor
<1> QED
  BY <1>1, <1>2

\* Every operation yields a graph.
LEMMA GraphTyped ==
  ASSUME Basic, VoPlace, [Next]_vars
  PROVE  graph' \in Graphs
<1>0. graph \in Graphs /\ input \in Inputs
  BY DEF Basic
<1>1. CASE UNCHANGED graph
  BY <1>0, <1>1
<1>2. CASE ChooseAnchor
  <2>1. UNCHANGED graph \/ Anchor \in Keyframes
    BY <1>0, <1>2, AnchorTyped DEF ChooseAnchor
  <2> QED
    BY <1>0, <1>1, <1>2, <2>1, KeyframeAdded DEF ChooseAnchor
<1>3. CASE AnchorInertial
  <2>1. Anchor \in Keyframes
    BY <1>3 DEF AnchorInertial, Basic
  <2> QED
    BY <1>0, <1>3, <2>1, PriorAdded DEF AnchorInertial, PriorOf
<1>4. CASE ImuInterval
  <2>1. At("edges") /\ Imu
    BY <1>4 DEF ImuInterval
  <2>2. Item \in Keyframes /\ input.boundaries[cursor] \in Keyframes
    BY <2>1, Visited DEF Basic
  <2>3. [graph EXCEPT !.thrown = TRUE] \in Graphs
    BY <1>0 DEF Graphs
  <2>4. \/ graph' = graph \/ graph' = [graph EXCEPT !.thrown = TRUE]
        \/ graph' = AddInterval(graph, input.boundaries[cursor], Item)
    BY <1>4 DEF ImuInterval
  <2> QED
    BY <1>0, <2>2, <2>3, <2>4, IntervalTyped
<1>5. CASE VoFrame
  BY <1>0, <1>5, FrameEffect, EdgeTyped DEF FrameFails, FrameFirst, FrameTracks
<1>6. CASE BagEdge
  <2>1. At("edges") /\ ~Imu /\ ~Stereo
    BY <1>6 DEF BagEdge
  <2>2. Item \in DepthEvidence \cup EdgeEvidence
    BY <2>1, Visited DEF Basic
  <2>3. CASE Item.kind = "relative_pose"
    <3>1. Item.from \in Keyframes /\ Item.to \in Keyframes
      BY <2>2, <2>3 DEF DepthEvidence, EdgeEvidence
    <3> QED
      BY <1>0, <1>6, <2>3, <3>1, EdgeTyped DEF BagEdge
  <2> QED
    BY <1>0, <1>6, <2>3 DEF BagEdge
<1>7. CASE LoopFrame
  <2>1. At("loops") /\ (graph' = graph \/
          \E n \in 0 .. MaxLoopEdges :
          \E loops \in [1 .. n -> {k \in Candidates : HasKeyframe(graph, k)}] :
            graph' = AddLoopEdges(graph, loops, Item))
    BY <1>7 DEF LoopFrame
  <2>2. Item \in Keyframes
    BY <2>1, Visited DEF Basic
  <2>3. CASE graph' # graph
    <3>1. PICK n \in 0 .. MaxLoopEdges :
            \E loops \in [1 .. n -> {k \in Candidates : HasKeyframe(graph, k)}] :
               graph' = AddLoopEdges(graph, loops, Item)
      BY <2>1, <2>3
    <3>2. PICK loops \in [1 .. n -> {k \in Candidates : HasKeyframe(graph, k)}] :
            graph' = AddLoopEdges(graph, loops, Item)
      BY <3>1
    <3>3. {k \in Candidates : HasKeyframe(graph, k)} \subseteq Keyframes
      BY <1>0, FreeFacts DEF HasKeyframe
    <3>4. loops \in [1 .. n -> Keyframes] /\ n \in Nat
      BY <3>2, <3>3, ReplayGraphAssumption
    <3> QED
      BY <1>0, <2>2, <3>2, <3>4, LoopsAdded
  <2> QED
    BY <1>0, <2>3
<1>8. CASE SonarFrame
  <2>1. At("sonar") /\ (graph' = graph \/ graph' = Absolute(graph, "sonar_range", Item))
    BY <1>8 DEF SonarFrame
  <2>2. Item \in Keyframes /\ "sonar_range" \in Models
    BY <2>1, Visited DEF Basic, Models
  <2> QED
    BY <1>0, <2>1, <2>2, AbsoluteTyped
<1>9. CASE DepthRecord
  <2>1. At("depth")
    BY <1>9 DEF DepthRecord
  <2>2. HasKeyframe(graph, Item.source) => Item.source \in Keyframes
    BY <1>0, FreeFacts DEF HasKeyframe
  <2>3. "depth" \in Models
    BY DEF Models
  <2> QED
    BY <1>0, <1>9, <2>2, <2>3, AbsoluteTyped DEF DepthRecord
<1>10. CASE Rectify \/ CollectTimes \/ EndOfLoop \/ CheckObservability \/ Solve \/ Publish \/ Gate
  BY <1>1, <1>10 DEF Rectify, CollectTimes, EndOfLoop, CheckObservability, Solve, Publish, Gate
<1>11. CASE UNCHANGED vars \/ Done
  BY <1>1, <1>11 DEF vars, Done
<1> QED
  BY <1>2, <1>3, <1>4, <1>5, <1>6, <1>7, <1>8, <1>9, <1>10, <1>11 DEF Next, Step

LEMMA LoopEnds ==
  /\ Following["edges"] = "loops" /\ Following["loops"] = "sonar" /\ Following["sonar"] = "depth"
  /\ Following["depth"] = "check" /\ Following["publish"] = "gate"
BY DEF Following

\* The stages come one after the other; a failed run exits from five of them.
Arrows ==
  \/ pc' = pc
  \/ pc' = "exit" /\ exitCode' = 1 /\ pc \in {"rectify", "anchor", "prior", "edges", "check"}
  \/ pc = "rectify" /\ pc' = "anchor" /\ Rectify
  \/ pc = "anchor" /\ pc' = "times" /\ ChooseAnchor
  \/ pc = "times" /\ pc' = (IF Imu THEN "prior" ELSE "edges") /\ CollectTimes
  \/ pc = "prior" /\ pc' = "edges" /\ AnchorInertial
  \/ pc = "edges" /\ pc' = "loops" /\ EndOfLoop
  \/ pc = "loops" /\ pc' = "sonar" /\ EndOfLoop
  \/ pc = "sonar" /\ pc' = "depth" /\ EndOfLoop
  \/ pc = "depth" /\ pc' = "check" /\ EndOfLoop
  \/ pc = "check" /\ pc' = "solve" /\ CheckObservability
  \/ pc = "solve" /\ pc' = "publish" /\ Solve
  \/ pc = "publish" /\ pc' = "gate" /\ EndOfLoop
  \/ pc = "gate" /\ pc' = "exit" /\ Gate

LEMMA StepArrows ==
  ASSUME [Next]_vars
  PROVE  Arrows
<1>1. CASE UNCHANGED vars \/ Done
  BY <1>1 DEF vars, Done, Arrows
<1>2. CASE Rectify \/ ChooseAnchor
  BY <1>2 DEF Rectify, ChooseAnchor, Fail, Arrows
<1>3. CASE CollectTimes \/ AnchorInertial
  BY <1>3 DEF CollectTimes, AnchorInertial, Fail, Arrows
<1>4. CASE ImuInterval \/ VoFrame \/ BagEdge \/ LoopFrame \/ SonarFrame \/ DepthRecord \/ Publish
  BY <1>4 DEF ImuInterval, VoFrame, BagEdge, LoopFrame, SonarFrame, DepthRecord, Publish, Advance,
     Arrows
<1>5. CASE EndOfLoop
  <2>1. Truncated => pc = "edges"
    BY DEF Truncated
  <2>2. pc \in Loops /\ ((pc' = "exit" /\ exitCode' = 1 /\ pc = "edges") \/ pc' = Following[pc])
    BY <1>5, <2>1, LoopNames DEF EndOfLoop, Fail
  <2> QED
    BY <1>5, <2>2, LoopEnds DEF Loops, Arrows
<1>6. CASE CheckObservability \/ Solve \/ Gate
  BY <1>6 DEF CheckObservability, Solve, Gate, Fail, Arrows
<1> QED
  BY <1>1, <1>2, <1>3, <1>4, <1>5, <1>6 DEF Next, Step

LEMMA TimesTyped ==
  ASSUME Basic
  PROVE  CaptureTimes \in [Keyframes -> Sources]
<1>1. ASSUME NEW f \in [Keyframes -> Sources], NEW ks, NEW s \in Sources
      PROVE  Emplace(f, ks, s) \in [Keyframes -> Sources]
  BY DEF Emplace
<1>2. timeOf \in [Keyframes -> Sources]
  BY DEF Basic
<1> DEFINE camera == Emplace(timeOf, IF input.cameras THEN Seen("left") ELSE {}, "camera")
           truth == Emplace(camera, ToSet(input.references), "reference")
           depth == Emplace(truth, {e.source : e \in Of("depth")}, "depth_log")
           edge == Emplace(depth, {e.to : e \in Of("relative_pose")}, "edge_log")
           bounds == [k \in Keyframes |->
                        IF Contains(input.boundaries, k) THEN "boundary" ELSE camera[k]]
<1>3. /\ "camera" \in Sources /\ "reference" \in Sources /\ "depth_log" \in Sources
      /\ "edge_log" \in Sources /\ "boundary" \in Sources
  BY DEF Sources
<1>4. camera \in [Keyframes -> Sources]
  BY <1>1, <1>2, <1>3
<1>5. CaptureTimes = IF Imu THEN bounds ELSE edge
  BY DEF CaptureTimes
<1>6. truth \in [Keyframes -> Sources]
  <2> HIDE DEF camera
  <2> QED
    BY <1>1, <1>3, <1>4
<1>7. depth \in [Keyframes -> Sources]
  <2> HIDE DEF truth
  <2> QED
    BY <1>1, <1>3, <1>6
<1>8. edge \in [Keyframes -> Sources]
  <2> HIDE DEF depth
  <2> QED
    BY <1>1, <1>3, <1>7
<1>9. bounds \in [Keyframes -> Sources]
  <2> HIDE DEF camera
  <2> QED
    BY <1>3, <1>4
<1> HIDE DEF edge, bounds
<1> QED
  BY <1>5, <1>8, <1>9

LEMMA SnapshotTyped ==
  ASSUME Basic, At("publish")
  PROVE  /\ cursor \in 1 .. Len(graph.poses) /\ Item = graph.poses[cursor]
         /\ BuildStateSnapshot(Item) \in Snapshots
<1>1. cursor \in DOMAIN graph.poses /\ Item = graph.poses[cursor]
  BY DEF At, Item, Work
<1>2. graph.poses \in Seq(Keyframes) /\ graph.blocks \in Seq(Blocks)
  BY DEF Basic, Graphs
<1>3. cursor \in 1 .. Len(graph.poses) /\ Item \in Keyframes
  BY <1>1, <1>2, MembersOf
<1>4. timeOf[Item] \in Sources
  BY <1>3 DEF Basic
<1>5. \A v : DecideTrackingStatus(v) \in {"tracking", "degraded", "lost"}
  BY DEF DecideTrackingStatus
<1>6. Owned(Item) \in SUBSET Nat
  <2>1. DOMAIN graph.blocks = 1 .. Len(graph.blocks) /\ Len(graph.blocks) \in Nat
    BY <1>2, MembersOf
  <2> QED
    BY <2>1 DEF Owned
<1> QED
  BY <1>1, <1>3, <1>4, <1>5, <1>6 DEF BuildStateSnapshot, Snapshots

LEMMA BasicStart == Init => Basic
<1> SUFFICES ASSUME Init PROVE Basic
  OBVIOUS
<1>1. graph \in Graphs
  BY EmptyTyped DEF Init
<1>2. timeOf \in [Keyframes -> Sources]
  BY DEF Init, Sources
<1>3. archive \in Seq(Keyframes) /\ trajectory \in Seq(Snapshots)
  BY EmptySeq DEF Init
<1>4. pc = "rectify" /\ input \in Inputs /\ cursor = 1 /\ landmarks = 0 /\ exitCode = -1
  BY DEF Init
<1>5. converged \in BOOLEAN
  BY DEF Init
<1> QED
  BY <1>1, <1>2, <1>3, <1>4, <1>5 DEF Basic, Stages, Loops

LEMMA BasicStep == Basic /\ VoPlace /\ [Next]_vars => Basic'
<1> SUFFICES ASSUME Basic, VoPlace, [Next]_vars PROVE Basic'
  OBVIOUS
<1>1. Moves
  BY StepMoves
<1>2. /\ pc' \in Stages /\ input' \in Inputs
      /\ cursor' \in Nat \ {0} /\ (pc' \notin Loops => cursor' = 1)
      /\ exitCode' \in {-1, 0, 1, 2} /\ (exitCode' = -1 <=> pc' # "exit")
  BY <1>1, MovesTyped
<1>3. graph' \in Graphs
  BY GraphTyped
<1>4. timeOf' \in [Keyframes -> Sources]
  <2>1. timeOf' = timeOf \/ timeOf' = CaptureTimes
    BY DEF Next, Step, Rectify, ChooseAnchor, CollectTimes, AnchorInertial, ImuInterval, VoFrame,
       BagEdge, LoopFrame, SonarFrame, DepthRecord, EndOfLoop, CheckObservability, Solve, Publish,
       Gate, Done, vars, runVars
  <2> QED
    BY <2>1, TimesTyped DEF Basic
<1>5. archive' \in Seq(Keyframes)
  <2>1. archive' = archive \/ (At("loops") /\ archive' = Append(archive, Item))
    BY DEF Next, Step, Rectify, ChooseAnchor, CollectTimes, AnchorInertial, ImuInterval, VoFrame,
       BagEdge, LoopFrame, SonarFrame, DepthRecord, EndOfLoop, CheckObservability, Solve, Publish,
       Gate, Done, vars, runVars
  <2> QED
    BY <2>1, Visited, Appended DEF Basic
<1>6. landmarks' \in Nat
  <2>1. landmarks' = landmarks \/ landmarks' = landmarks + 1
    BY DEF Next, Step, Rectify, ChooseAnchor, CollectTimes, AnchorInertial, ImuInterval, VoFrame,
       BagEdge, LoopFrame, SonarFrame, DepthRecord, EndOfLoop, CheckObservability, Solve, Publish,
       Gate, Done, vars, runVars
  <2> QED
    BY <2>1 DEF Basic
<1>7. converged' \in BOOLEAN
  <2>1. converged' = converged \/ converged' \in BOOLEAN
    BY DEF Next, Step, Rectify, ChooseAnchor, CollectTimes, AnchorInertial, ImuInterval, VoFrame,
       BagEdge, LoopFrame, SonarFrame, DepthRecord, EndOfLoop, CheckObservability, Solve, Publish,
       Gate, Done, vars, runVars
  <2> QED
    BY <2>1 DEF Basic
<1>8. trajectory' \in Seq(Snapshots)
  <2>1. trajectory' = trajectory
        \/ (At("publish") /\ trajectory' = Append(trajectory, BuildStateSnapshot(Item)))
    BY DEF Next, Step, Rectify, ChooseAnchor, CollectTimes, AnchorInertial, ImuInterval, VoFrame,
       BagEdge, LoopFrame, SonarFrame, DepthRecord, EndOfLoop, CheckObservability, Solve, Publish,
       Gate, Done, vars, runVars
  <2> QED
    BY <2>1, SnapshotTyped, Appended DEF Basic
<1>9. ASSUME pc' \notin {"rectify", "anchor", "exit"}
      PROVE  Anchor' \in Keyframes /\ (Imu' => Len(input'.boundaries) >= 2)
  <2>1. input' = input
    BY <1>1 DEF Moves
  <2>2. Anchor' = Anchor /\ Imu' = Imu
    BY <2>1 DEF Anchor, Imu
  <2>3. pc \notin {"rectify", "anchor", "exit"} \/ (Imu => Len(input.boundaries) >= 2)
    BY <1>9, StepArrows DEF Arrows, ChooseAnchor, Fail
  <2> QED
    BY <2>1, <2>2, <2>3, AnchorTyped DEF Basic
<1> QED
  BY <1>2, <1>3, <1>4, <1>5, <1>6, <1>7, <1>8, <1>9 DEF Basic

LEMMA VoPlaceStart == Init => VoPlace
<1>1. Init => VP!IInv
  BY VoStart DEF Init
<1> QED
  BY <1>1 DEF Init, Vo!Init, Vo!VoInit, VoPlace

LEMMA VoPlaceStep == Basic /\ VoPlace /\ [Next]_vars => VoPlace'
<1> SUFFICES ASSUME Basic, VoPlace, [Next]_vars PROVE VoPlace'
  OBVIOUS
<1>1. Moves
  BY StepMoves
<1>2. input' = input /\ Stereo' = Stereo
  BY <1>1 DEF Moves, Stereo
<1>3. CASE VoFrame
  <2> DEFINE k == OrderOf(input)[cursor]
  <2>1. /\ pc = "edges" /\ Stereo /\ cursor \in DOMAIN OrderOf(input)
        /\ pc' = pc /\ cursor' = cursor + 1 /\ VP!IInv'
        /\ outcomes' = outcomes \/ \E t \in BOOLEAN : outcomes' = Append(outcomes, Outcome(k, t))
    BY <1>3, FrameEffect DEF FrameFails, FrameFirst, FrameTracks, voVars
  <2>2. \A i \in 1 .. Len(outcomes) : \E c \in DOMAIN OrderOf(input) :
          c < cursor /\ outcomes[i].keyframe = OrderOf(input)[c]
    BY <2>1 DEF VoPlace
  <2>3. cursor \in Nat /\ DOMAIN OrderOf(input) \subseteq Nat
    <3>1. OrderOf(input) \in Seq(Keyframes)
      BY InputTyped DEF Listing, Basic
    <3> QED
      BY <3>1, MembersOf DEF Basic
  <2>4. ASSUME NEW i \in 1 .. Len(outcomes')
        PROVE  \E c \in DOMAIN OrderOf(input) :
                 c < cursor + 1 /\ outcomes'[i].keyframe = OrderOf(input)[c]
    <3>1. CASE outcomes' = outcomes
      BY <2>2, <2>3, <3>1
    <3>2. ASSUME NEW t \in BOOLEAN, outcomes' = Append(outcomes, Outcome(k, t))
          PROVE  \E c \in DOMAIN OrderOf(input) :
                   c < cursor + 1 /\ outcomes'[i].keyframe = OrderOf(input)[c]
      <4>1. k \in Keyframes
        BY <1>3, FrameEffect
      <4>2. Outcome(k, t) \in Outcomes /\ Outcome(k, t).keyframe = k
        BY <4>1 DEF Outcome, Outcomes
      <4>3. outcomes \in Seq(Outcomes)
        BY VoTyped DEF VoPlace, Outcomes
      <4>4. /\ Len(outcomes') = Len(outcomes) + 1 /\ Len(outcomes) \in Nat
            /\ outcomes'[Len(outcomes) + 1].keyframe = k
            /\ \A j \in 1 .. Len(outcomes) : outcomes'[j] = outcomes[j]
        BY <3>2, <4>2, <4>3, Appended
      <4>5. CASE i = Len(outcomes) + 1
        BY <2>1, <2>3, <4>4, <4>5
      <4>6. CASE i \in 1 .. Len(outcomes)
        BY <2>2, <2>3, <4>4, <4>6
      <4> QED
        BY <4>4, <4>5, <4>6
    <3> QED
      BY <2>1, <3>1, <3>2
  <2> QED
    BY <1>2, <2>1, <2>4 DEF VoPlace
<1>4. CASE ~VoFrame
  <2>1. UNCHANGED voVars
    BY <1>4 DEF Next, Step, Rectify, ChooseAnchor, CollectTimes, AnchorInertial, ImuInterval,
       BagEdge, LoopFrame, SonarFrame, DepthRecord, EndOfLoop, CheckObservability, Solve, Publish,
       Gate, Done, vars
  <2>2. VP!IInv'
    BY <2>1, VoStutter DEF VoPlace
  <2>3. outcomes' = outcomes
    BY <2>1 DEF voVars
  <2>4. pc' \in {"rectify", "anchor", "times", "prior"} => pc \in {"rectify", "anchor", "times", "prior"}
    BY StepArrows DEF Arrows
  <2>5. CASE pc' = "edges" /\ pc = "edges" /\ Stereo
    <3>1. cursor' = cursor \/ cursor' = cursor + 1
      BY <1>1, <2>5 DEF Moves
    <3>2. cursor \in Nat /\ DOMAIN OrderOf(input) \subseteq Nat
      <4>1. OrderOf(input) \in Seq(Keyframes)
        BY InputTyped DEF Listing, Basic
      <4> QED
        BY <4>1, MembersOf DEF Basic
    <3>3. \A i \in 1 .. Len(outcomes) : \E c \in DOMAIN OrderOf(input) :
            c < cursor' /\ outcomes[i].keyframe = OrderOf(input)[c]
      BY <2>5, <3>1, <3>2 DEF VoPlace
    <3> QED
      BY <1>2, <2>2, <2>3, <2>4, <2>5, <3>3 DEF VoPlace
  <2>6. CASE pc' = "edges" /\ pc # "edges"
    <3>1. pc \in {"rectify", "anchor", "times", "prior"}
      BY <2>6, StepArrows DEF Arrows
    <3>2. outcomes = <<>>
      BY <3>1 DEF VoPlace
    <3> QED
      BY <1>2, <2>2, <2>3, <3>2 DEF VoPlace
  <2>7. CASE pc' # "edges" \/ ~Stereo
    BY <1>2, <2>2, <2>3, <2>4, <2>7 DEF VoPlace
  <2> QED
    BY <2>5, <2>6, <2>7
<1> QED
  BY <1>3, <1>4

LEMMA TypeInvariance == Spec => [](Basic /\ VoPlace)
<1>1. Init => Basic /\ VoPlace
  BY BasicStart, VoPlaceStart
<1>2. Basic /\ VoPlace /\ [Next]_vars => (Basic /\ VoPlace)'
  BY BasicStep, VoPlaceStep
<1> QED
  BY <1>1, <1>2, PTL DEF Spec

\* The state keeps its types, whatever the bag holds; a published status is
\* one of the three a reader of the trajectory knows.
THEOREM TypeCorrect == Spec => []TypeOK
<1>1. ASSUME Basic, VoPlace PROVE TypeOK
  <2>1. reference \in Keyframes \cup {NoKeyframe}
    BY <1>1, VoTyped DEF VoPlace
  <2>2. \A s \in ToSet(trajectory) : s.status \in {"tracking", "degraded", "lost"}
    <3>1. ToSet(trajectory) \subseteq Snapshots
      BY <1>1, MembersOf DEF Basic
    <3> QED
      BY <3>1 DEF Snapshots
  <2> QED
    BY <1>1, <2>1, <2>2 DEF TypeOK, Basic, Graphs, Stages, Sources
<1> QED
  BY <1>1, TypeInvariance, PTL

-----------------------------------------------------------------------------
(* The graph is observable and its poses are explained.                     *)

\* Each pose but the first has a residual, listed under it, that relates it to
\* an earlier one.
Explained(g) ==
  \A i \in 2 .. Len(g.poses) : \E b \in 1 .. Len(g.blocks), j \in 1 .. i - 1 :
     g.blocks[b].owner = g.poses[i] /\ Relates(g.blocks[b], g.poses[i], g.poses[j])

Sound(g) == ~g.thrown /\ Observable(g) /\ Explained(g)

LEMMA ExplainedGrows ==
  ASSUME NEW g, NEW h, NEW p, NEW s, NEW b, NEW k \in Keyframes,
         Grows(g, h, p, s, b), Explained(g),
         \/ p = g.poses
         \/ /\ p = With(g.poses, k) /\ b.owner = k
            /\ \E l \in ToSet(g.poses) : Relates(b, k, l)
  PROVE  Explained(h)
<1>0. /\ g \in Graphs /\ h \in Graphs /\ b \in Blocks /\ h.poses = p
  BY DEF Grows
<1>1. /\ Len(g.blocks) \in Nat /\ Len(h.blocks) = Len(g.blocks) + 1
      /\ \A i \in 1 .. Len(g.blocks) : h.blocks[i] = g.blocks[i]
      /\ h.blocks[Len(g.blocks) + 1] = b
  BY GrowsBlocks
<1>2. g.poses \in Seq(Keyframes)
  BY <1>0 DEF Graphs
<1>3. PICK N \in Nat, L \in Nat : N = Len(g.blocks) /\ L = Len(g.poses)
  BY <1>1, <1>2, LenProperties
<1>4. \A i \in 2 .. L : \E c \in 1 .. N, j \in 1 .. i - 1 :
         g.blocks[c].owner = g.poses[i] /\ Relates(g.blocks[c], g.poses[i], g.poses[j])
  BY <1>3 DEF Explained
<1>5. CASE p = g.poses
  <2>1. ASSUME NEW i \in 2 .. L
        PROVE  \E c \in 1 .. N + 1, j \in 1 .. i - 1 :
                 h.blocks[c].owner = h.poses[i] /\ Relates(h.blocks[c], h.poses[i], h.poses[j])
    <3>1. PICK c \in 1 .. N, j \in 1 .. i - 1 :
            g.blocks[c].owner = g.poses[i] /\ Relates(g.blocks[c], g.poses[i], g.poses[j])
      BY <1>4
    <3>2. c \in 1 .. N + 1 /\ h.blocks[c] = g.blocks[c]
      BY <1>1, <1>3
    <3> QED
      BY <1>0, <1>5, <3>1, <3>2
  <2> QED
    BY <1>0, <1>1, <1>3, <1>5, <2>1 DEF Explained
<1>6. CASE p # g.poses
  <2>1. /\ p = Append(g.poses, k) /\ b.owner = k
        /\ \E l \in ToSet(g.poses) : Relates(b, k, l)
    BY <1>6 DEF With
  <2>2. /\ Len(p) = L + 1 /\ p[L + 1] = k /\ \A i \in 1 .. L : p[i] = g.poses[i]
        /\ ToSet(g.poses) = {g.poses[i] : i \in 1 .. L}
    BY <1>2, <1>3, <2>1, Appended, MembersOf
  <2>3. PICK l \in 1 .. L : Relates(b, k, g.poses[l])
    BY <2>1, <2>2
  <2>4. ASSUME NEW i \in 2 .. L + 1
        PROVE  \E c \in 1 .. N + 1, j \in 1 .. i - 1 :
                 h.blocks[c].owner = p[i] /\ Relates(h.blocks[c], p[i], p[j])
    <3>1. CASE i = L + 1
      <4>1. N + 1 \in 1 .. N + 1 /\ l \in 1 .. i - 1 /\ p[l] = g.poses[l]
        BY <1>3, <2>2, <3>1
      <4>2. h.blocks[N + 1].owner = p[i] /\ Relates(h.blocks[N + 1], p[i], p[l])
        BY <1>1, <1>3, <2>1, <2>2, <2>3, <3>1, <4>1
      <4> QED
        BY <4>1, <4>2
    <3>2. CASE i \in 2 .. L
      <4>1. PICK c \in 1 .. N, j \in 1 .. i - 1 :
              g.blocks[c].owner = g.poses[i] /\ Relates(g.blocks[c], g.poses[i], g.poses[j])
        BY <1>4, <3>2
      <4>2. c \in 1 .. N + 1 /\ h.blocks[c] = g.blocks[c]
        BY <1>1, <1>3
      <4>3. p[i] = g.poses[i] /\ p[j] = g.poses[j]
        BY <1>3, <2>2, <3>2
      <4> QED
        BY <4>1, <4>2, <4>3
    <3> QED
      BY <1>3, <3>1, <3>2
  <2> QED
    BY <1>0, <1>1, <1>3, <2>2, <2>4 DEF Explained
<1> QED
  BY <1>5, <1>6

LEMMA EdgeSound ==
  ASSUME NEW g \in Graphs, NEW from \in Keyframes, NEW to \in Keyframes, Sound(g),
         HasKeyframe(g, from)
  PROVE  Sound(AddRelativePoseEdge(g, from, to))
<1> DEFINE b == Block("relative_pose", EdgeRefs(from, to), to)
           h == AddRelativePoseEdge(g, from, to)
<1>1. Grows(g, h, With(g.poses, to), g.inertial, b)
  BY EdgeAdded
<1>2. /\ b.refs = {PoseRef(from), PoseRef(to)} /\ ResidualDim(b.model) = 6 /\ b.owner = to
  BY DEF Block, EdgeRefs, ResidualDim
<1>3. ToSet(With(g.poses, to)) = ToSet(g.poses) \cup {to}
  BY WithTyped DEF Graphs
<1> HIDE DEF b, h
<1>4. Observable(h)
  BY <1>1, <1>2, <1>3, GrowsObservable DEF Sound
<1>5. Explained(h)
  <2>1. from \in ToSet(g.poses) /\ Relates(b, to, from)
    BY <1>2 DEF HasKeyframe, Relates
  <2> QED
    BY <1>1, <1>2, <2>1, ExplainedGrows DEF Sound
<1>6. ~h.thrown
  BY <1>1 DEF Grows, Sound
<1> QED
  BY <1>4, <1>5, <1>6 DEF Sound, h

LEMMA AbsoluteSound ==
  ASSUME NEW g \in Graphs, NEW k \in Keyframes, NEW m \in Models, Sound(g), HasKeyframe(g, k)
  PROVE  Sound(Absolute(g, m, k))
<1> DEFINE b == Block(m, {PoseRef(k)}, k)
           h == Absolute(g, m, k)
<1>1. Grows(g, h, g.poses, g.inertial, b)
  BY AbsoluteTyped
<1> HIDE DEF b, h
<1>2. Observable(h)
  BY <1>1, GrowsObservable DEF Sound
<1>3. Explained(h)
  BY <1>1, ExplainedGrows DEF Sound
<1>4. ~h.thrown
  BY <1>1 DEF Grows, Sound
<1> QED
  BY <1>2, <1>3, <1>4 DEF Sound, h

LEMMA PriorSound ==
  ASSUME NEW g \in Graphs, NEW k \in Keyframes, Sound(g), HasKeyframe(g, k)
  PROVE  Sound(PriorOf(g, k))
<1> DEFINE b == Block("inertial_prior", {InertialRef(k)}, NoKeyframe)
           h == PriorOf(g, k)
<1>1. Grows(g, h, g.poses, With(g.inertial, k), b)
  BY PriorAdded
<1>2. b.refs = {InertialRef(k)} /\ ResidualDim(b.model) = 9
  BY DEF Block, ResidualDim
<1>3. ToSet(With(g.inertial, k)) = ToSet(g.inertial) \cup {k}
  BY WithTyped DEF Graphs
<1> HIDE DEF b, h
<1>4. Observable(h)
  BY <1>1, <1>2, <1>3, GrowsObservable DEF Sound
<1>5. Explained(h)
  BY <1>1, ExplainedGrows DEF Sound
<1>6. ~h.thrown
  BY <1>1 DEF Grows, Sound
<1> QED
  BY <1>4, <1>5, <1>6 DEF Sound, h

LEMMA IntervalSound ==
  ASSUME NEW g \in Graphs, NEW from \in Keyframes, NEW to \in Keyframes, Sound(g),
         HasKeyframe(g, from), HasInertialState(g, from)
  PROVE  Sound(AddInterval(g, from, to))
<1> DEFINE b == Block("imu_preintegration", IntervalRefs(from, to), to)
           h == AddInterval(g, from, to)
<1>1. Grows(g, h, With(g.poses, to), With(g.inertial, to), b)
  BY IntervalAdded
<1>2. /\ b.refs = IntervalRefs(from, to) /\ ResidualDim(b.model) = 15 /\ b.owner = to
  BY DEF Block, ResidualDim
<1>3. /\ ToSet(With(g.poses, to)) = ToSet(g.poses) \cup {to}
      /\ ToSet(With(g.inertial, to)) = ToSet(g.inertial) \cup {to}
  BY WithTyped DEF Graphs
<1>4. {PoseRef(from), PoseRef(to), InertialRef(to)} \subseteq IntervalRefs(from, to)
  BY DEF IntervalRefs
<1> HIDE DEF b, h
<1>5. Observable(h)
  BY <1>1, <1>2, <1>3, <1>4, GrowsObservable DEF Sound
<1>6. Explained(h)
  <2>1. from \in ToSet(g.poses) /\ Relates(b, to, from)
    BY <1>2, <1>4 DEF HasKeyframe, Relates
  <2> QED
    BY <1>1, <1>2, <2>1, ExplainedGrows DEF Sound
<1>7. ~h.thrown
  BY <1>1 DEF Grows, Sound
<1> QED
  BY <1>5, <1>6, <1>7 DEF Sound, h

LEMMA LoopsSound ==
  ASSUME NEW g \in Graphs, NEW n \in Nat, NEW loops \in [1 .. n -> Keyframes],
         NEW to \in Keyframes, Sound(g)
  PROVE  Sound(AddLoopEdges(g, loops, to))
<1> DEFINE h == AddLoopEdges(g, loops, to)
<1>1. /\ h \in Graphs
      /\ h.poses = g.poses /\ h.inertial = g.inertial
      /\ h.fixed = g.fixed /\ h.thrown = g.thrown
      /\ Len(h.blocks) = Len(g.blocks) + n
      /\ \A i \in 1 .. Len(g.blocks) : h.blocks[i] = g.blocks[i]
  BY LoopsAdded
<1> HIDE DEF h
<1>2. Len(g.blocks) \in Nat
  BY RowsSum
<1>3. Observable(h)
  <2>1. Len(g.blocks) <= Len(h.blocks)
    BY <1>1, <1>2
  <2> QED
    BY <1>1, <2>1, LoopsObservable DEF Sound
<1>4. Explained(h)
  <2>1. ASSUME NEW i \in 2 .. Len(g.poses)
        PROVE  \E b \in 1 .. Len(h.blocks), j \in 1 .. i - 1 :
           h.blocks[b].owner = g.poses[i] /\ Relates(h.blocks[b], g.poses[i], g.poses[j])
    <3>1. PICK b \in 1 .. Len(g.blocks), j \in 1 .. i - 1 :
            g.blocks[b].owner = g.poses[i] /\ Relates(g.blocks[b], g.poses[i], g.poses[j])
      BY DEF Sound, Explained
    <3>2. b \in 1 .. Len(h.blocks) /\ h.blocks[b] = g.blocks[b]
      BY <1>1, <1>2
    <3> QED
      BY <3>1, <3>2
  <2> QED
    BY <1>1, <2>1 DEF Explained
<1> QED
  BY <1>1, <1>3, <1>4 DEF Sound, h

\* The graph of the anchor alone.
AnchorGraph(k) == AddKeyframe(EmptyGraph, k, TRUE)

LEMMA AnchorAdded ==
  ASSUME NEW k \in Keyframes
  PROVE  LET g == AnchorGraph(k) IN
         /\ g \in Graphs /\ g.poses = <<k>> /\ g.inertial = <<>> /\ g.blocks = <<>>
         /\ g.fixed = {k} /\ ~g.thrown
<1>1. EmptyGraph.poses = <<>> /\ EmptyGraph.inertial = <<>> /\ EmptyGraph.blocks = <<>>
      /\ EmptyGraph.fixed = {} /\ EmptyGraph.thrown = FALSE
  BY DEF EmptyGraph
<1>2. k \notin ToSet(<<>>)
  BY DEF ToSet
<1>3. With(<<>>, k) = <<k>>
  BY <1>2 DEF With
<1>4. LET g == AnchorGraph(k) IN
         /\ g \in Graphs /\ g.poses = With(<<>>, k) /\ g.inertial = <<>> /\ g.blocks = <<>>
         /\ g.fixed = {} \cup {k} /\ g.thrown = FALSE
  BY <1>1, <1>2, EmptyTyped, KeyframeAdded DEF AnchorGraph
<1> QED
  BY <1>3, <1>4

LEMMA NothingFree ==
  ASSUME NEW g \in Graphs, FreePoses(g) = {}, g.inertial = <<>>, g.blocks = <<>>,
         ~g.thrown, Len(g.poses) \in {0, 1}
  PROVE  Sound(g)
<1>1. ToSet(g.inertial) = {}
  BY DEF ToSet
<1>2. FreeBlocks(g) = {}
  BY <1>1 DEF FreeBlocks
<1>3. FreeParameterDim(g) = 0
  <2>1. Cardinality(FreePoses(g)) = 0 /\ Cardinality(ToSet(g.inertial)) = 0
    BY <1>1, FS_EmptySet
  <2> QED
    BY <2>1 DEF FreeParameterDim
<1>4. ResidualRows(g) \in Nat
  <2>1. Len(g.blocks) \in Nat
    BY RowsSum
  <2> QED
    BY <2>1, RowsGrow
<1>5. Observable(g)
  BY <1>2, <1>3, <1>4 DEF Observable
<1>6. Explained(g)
  <2>1. 2 .. Len(g.poses) = {}
    <3>1. \A n \in {0, 1} : 2 .. n = {}
      OBVIOUS
    <3> QED
      BY <3>1
  <2> QED
    BY <2>1 DEF Explained
<1> QED
  BY <1>5, <1>6 DEF Sound

LEMMA AnchorSound ==
  /\ Sound(EmptyGraph)
  /\ \A k \in Keyframes : Sound(AnchorGraph(k))
<1>1. Sound(EmptyGraph)
  <2>1. FreePoses(EmptyGraph) = {}
    BY DEF FreePoses, EmptyGraph, ToSet
  <2> QED
    BY <2>1, EmptyTyped, NothingFree DEF EmptyGraph
<1>2. ASSUME NEW k \in Keyframes PROVE Sound(AnchorGraph(k))
  <2> DEFINE g == AnchorGraph(k)
  <2>1. /\ g \in Graphs /\ g.poses = <<k>> /\ g.inertial = <<>> /\ g.blocks = <<>>
        /\ g.fixed = {k} /\ ~g.thrown
    BY AnchorAdded
  <2> HIDE DEF g
  <2>2. FreePoses(g) = {}
    BY <2>1 DEF FreePoses, ToSet
  <2>3. Len(g.poses) \in {0, 1}
    BY <2>1
  <2>4. Sound(g)
    BY <2>1, <2>2, <2>3, NothingFree
  <2> QED
    BY <2>4 DEF g
<1> QED
  BY <1>1, <1>2

-----------------------------------------------------------------------------
(* How the graph is built.                                                  *)

\* The relative motion is in the graph.
Built == pc \in {"loops", "sonar", "depth", "check", "solve", "publish", "gate"} \/ Published

\* The chain of intervals so far: the first boundaries, each with its state.
ImuChain(g, in, c) ==
  /\ g.inertial = g.poses
  /\ Len(g.poses) \in 1 .. c /\ Len(g.poses) <= Len(in.boundaries)
  /\ \A i \in 1 .. Len(g.poses) : g.poses[i] = in.boundaries[i]

BuildInv ==
  /\ Sound(graph)
  /\ pc \in {"rectify", "anchor"} => graph = EmptyGraph
  /\ pc \in {"times", "prior"} => graph = AnchorGraph(Anchor)
  /\ Imu /\ pc = "edges" => ImuChain(graph, input, cursor)
  /\ Imu /\ Built => graph.poses = input.boundaries /\ graph.inertial = input.boundaries

MoveAnchor ==
  pc = "anchor" /\ pc' = "times" /\ Anchor \in Keyframes /\ graph' = AnchorGraph(Anchor)

MovePrior ==
  pc = "prior" /\ pc' = "edges" /\ cursor' = cursor /\ Anchor \in Keyframes
  /\ graph' = PriorOf(graph, Anchor)

MoveInterval ==
  /\ pc = "edges" /\ pc' = pc /\ Imu /\ cursor' = cursor + 1
  /\ cursor \in 1 .. Len(input.boundaries) /\ cursor + 1 \in 1 .. Len(input.boundaries)
  /\ HasKeyframe(graph, input.boundaries[cursor])
  /\ HasInertialState(graph, input.boundaries[cursor])
  /\ graph' = AddInterval(graph, input.boundaries[cursor], input.boundaries[cursor + 1])

MoveEdge ==
  /\ pc = "edges" /\ pc' = pc /\ ~Imu
  /\ \E from, to \in Keyframes :
       HasKeyframe(graph, from) /\ graph' = AddRelativePoseEdge(graph, from, to)

\* Loops from archived keyframes of the graph to the one visited.
MoveLoops ==
  /\ At("loops") /\ pc' = pc /\ cursor' = cursor + 1
  /\ HasKeyframe(graph, Item) /\ archive' = Append(archive, Item)
  /\ \E n \in 0 .. MaxLoopEdges :
     \E loops \in [1 .. n -> {k \in Candidates : HasKeyframe(graph, k)}] :
        graph' = AddLoopEdges(graph, loops, Item)

MoveAbsolute ==
  /\ pc \in {"sonar", "depth"} /\ pc' = pc
  /\ \E k \in Keyframes, m \in {"sonar_range", "depth"} :
       HasKeyframe(graph, k) /\ graph' = Absolute(graph, m, k)

GraphMove ==
  \/ graph' = graph
  \/ MoveAnchor \/ MovePrior \/ MoveInterval \/ MoveEdge \/ MoveLoops \/ MoveAbsolute

LEMMA GraphMoves ==
  ASSUME Basic, VoPlace, BuildInv, [Next]_vars
  PROVE  GraphMove
<1>0. graph \in Graphs /\ input \in Inputs
  BY DEF Basic
<1>1. CASE ChooseAnchor
  <2>1. \/ graph' = graph
        \/ /\ pc = "anchor" /\ pc' = "times" /\ graph' = AddKeyframe(graph, Anchor, TRUE)
           /\ Imu => Len(input.boundaries) >= 2
    BY <1>1 DEF ChooseAnchor
  <2> QED
    BY <1>0, <2>1, AnchorTyped DEF BuildInv, AnchorGraph, MoveAnchor, GraphMove
<1>2. CASE AnchorInertial
  <2>1. \/ graph' = graph
        \/ /\ pc = "prior" /\ pc' = "edges" /\ cursor' = cursor /\ graph' = PriorOf(graph, Anchor)
    BY <1>2 DEF AnchorInertial, PriorOf
  <2> QED
    BY <2>1 DEF Basic, MovePrior, GraphMove
<1>3. CASE ImuInterval
  <2>1. At("edges") /\ Imu /\ pc' = pc /\ cursor' = cursor + 1
    BY <1>3 DEF ImuInterval, Advance
  <2>2. /\ cursor \in 1 .. Len(input.boundaries) /\ cursor + 1 \in 1 .. Len(input.boundaries)
        /\ pc = "edges" /\ Item = input.boundaries[cursor + 1]
    BY <2>1, Visited DEF Basic
  <2> DEFINE from == input.boundaries[cursor]
  <2>3. ImuChain(graph, input, cursor)
    BY <2>1, <2>2 DEF BuildInv
  <2>4. HasKeyframe(graph, from) => HasInertialState(graph, from)
    BY <2>3 DEF ImuChain, HasKeyframe, HasInertialState
  <2>5. \/ graph' = graph
        \/ HasKeyframe(graph, from) /\ graph' = AddInterval(graph, from, input.boundaries[cursor + 1])
    BY <1>3, <2>2, <2>4 DEF ImuInterval
  <2> QED
    BY <2>1, <2>2, <2>4, <2>5 DEF MoveInterval, GraphMove
<1>4. CASE VoFrame
  <2> DEFINE k == OrderOf(input)[cursor]
  <2>1. /\ pc = "edges" /\ Stereo /\ pc' = pc /\ k \in Keyframes
        /\ \/ graph' = graph
           \/ reference \in Keyframes /\ graph' = AddRelativePoseEdge(graph, reference, k)
    BY <1>4, FrameEffect DEF FrameFails, FrameFirst, FrameTracks
  <2>2. ~Imu
    BY <2>1 DEF Stereo, Imu
  <2>3. ~HasKeyframe(graph, reference) => AddRelativePoseEdge(graph, reference, k) = graph
    BY DEF AddRelativePoseEdge
  <2> QED
    BY <2>1, <2>2, <2>3 DEF MoveEdge, GraphMove
<1>5. CASE BagEdge
  <2>1. At("edges") /\ ~Imu /\ ~Stereo /\ pc = "edges" /\ pc' = pc
    BY <1>5 DEF BagEdge, At, Advance
  <2>2. Item \in DepthEvidence \cup EdgeEvidence
    BY <2>1, Visited DEF Basic
  <2>3. CASE Item.kind = "relative_pose"
    <3>1. Item.from \in Keyframes /\ Item.to \in Keyframes
      BY <2>2, <2>3 DEF DepthEvidence, EdgeEvidence
    <3>2. graph' = AddRelativePoseEdge(graph, Item.from, Item.to)
      BY <1>5, <2>3 DEF BagEdge
    <3>3. ~HasKeyframe(graph, Item.from) => graph' = graph
      BY <3>2 DEF AddRelativePoseEdge
    <3> QED
      BY <2>1, <3>1, <3>2, <3>3 DEF MoveEdge, GraphMove
  <2> QED
    BY <1>5, <2>3 DEF BagEdge, GraphMove
<1>6. CASE LoopFrame
  BY <1>6 DEF LoopFrame, Advance, MoveLoops, GraphMove
<1>7. CASE SonarFrame
  <2>1. At("sonar") /\ pc = "sonar" /\ pc' = pc
        /\ (graph' = graph \/ (HasKeyframe(graph, Item) /\ graph' = Absolute(graph, "sonar_range", Item)))
    BY <1>7 DEF SonarFrame, Advance, At
  <2>2. Item \in Keyframes
    BY <2>1, Visited DEF Basic
  <2> QED
    BY <2>1, <2>2 DEF MoveAbsolute, GraphMove
<1>8. CASE DepthRecord
  <2>1. /\ pc = "depth" /\ pc' = pc
        /\ \/ graph' = graph
           \/ HasKeyframe(graph, Item.source) /\ graph' = Absolute(graph, "depth", Item.source)
    BY <1>8 DEF DepthRecord, Advance, At
  <2>2. HasKeyframe(graph, Item.source) => Item.source \in Keyframes
    BY <1>0, FreeFacts DEF HasKeyframe
  <2> QED
    BY <2>1, <2>2 DEF MoveAbsolute, GraphMove
<1>9. CASE Rectify \/ CollectTimes \/ EndOfLoop \/ CheckObservability \/ Solve \/ Publish \/ Gate
  BY <1>9 DEF Rectify, CollectTimes, EndOfLoop, CheckObservability, Solve, Publish, Gate, GraphMove
<1>10. CASE UNCHANGED vars \/ Done
  BY <1>10 DEF vars, Done, GraphMove
<1> QED
  BY <1>1, <1>2, <1>3, <1>4, <1>5, <1>6, <1>7, <1>8, <1>9, <1>10 DEF Next, Step

LEMMA LoopItem ==
  ASSUME Basic, NEW n \in 0 .. MaxLoopEdges,
         NEW loops \in [1 .. n -> {k \in Candidates : HasKeyframe(graph, k)}]
  PROVE  n \in Nat /\ loops \in [1 .. n -> Keyframes] /\ loops \in [1 .. n -> Candidates]
<1>1. {k \in Candidates : HasKeyframe(graph, k)} \subseteq Keyframes
  BY FreeFacts DEF HasKeyframe, Basic
<1> QED
  BY <1>1, ReplayGraphAssumption

LEMMA SoundStep == Basic /\ VoPlace /\ BuildInv /\ [Next]_vars => Sound(graph')
<1> SUFFICES ASSUME Basic, VoPlace, BuildInv, [Next]_vars PROVE Sound(graph')
  OBVIOUS
<1>0. GraphMove /\ graph \in Graphs /\ Sound(graph)
  BY GraphMoves DEF Basic, BuildInv
<1>1. CASE graph' = graph \/ MoveAnchor
  BY <1>0, <1>1, AnchorSound DEF MoveAnchor
<1>2. CASE MovePrior
  <2>1. Anchor \in Keyframes /\ graph = AnchorGraph(Anchor) /\ graph' = PriorOf(graph, Anchor)
    BY <1>2 DEF MovePrior, BuildInv
  <2>2. ToSet(graph.poses) = {Anchor}
    BY <2>1, AnchorAdded DEF ToSet
  <2> QED
    BY <1>0, <2>1, <2>2, PriorSound DEF HasKeyframe
<1>3. CASE MoveInterval
  <2>1. /\ input.boundaries[cursor] \in Keyframes /\ input.boundaries[cursor + 1] \in Keyframes
    BY <1>3, InputTyped, ElementOfSeq DEF MoveInterval, Basic
  <2> QED
    BY <1>0, <1>3, <2>1, IntervalSound DEF MoveInterval
<1>4. CASE MoveEdge
  BY <1>0, <1>4, EdgeSound DEF MoveEdge
<1>5. CASE MoveLoops
  <2>1. Item \in Keyframes
    BY <1>5, Visited DEF MoveLoops, Basic
  <2> QED
    BY <1>0, <1>5, <2>1, LoopItem, LoopsSound DEF MoveLoops
<1>6. CASE MoveAbsolute
  <2>1. {"sonar_range", "depth"} \subseteq Models
    BY DEF Models
  <2> QED
    BY <1>0, <1>6, <2>1, AbsoluteSound DEF MoveAbsolute
<1> QED
  BY <1>0, <1>1, <1>2, <1>3, <1>4, <1>5, <1>6 DEF GraphMove

LEMMA BuiltSteps ==
  ASSUME Basic, [Next]_vars, Built'
  PROVE  /\ Built \/ (pc = "edges" /\ pc' = "loops" /\ EndOfLoop)
         /\ Published' => Published \/ (pc = "gate" /\ Gate)
<1>1. Moves /\ Arrows
  BY StepMoves, StepArrows
<1>2. Published => pc = "exit"
  BY DEF Published, Basic
<1>3. ASSUME Published' PROVE Published \/ (pc = "gate" /\ Gate)
  <2>1. exitCode' \in {0, 2} /\ pc' = "exit"
    BY <1>1, <1>3, MovesTyped DEF Published
  <2> QED
    BY <1>1, <2>1 DEF Moves, Arrows, Published
<1>4. ASSUME pc' \in {"loops", "sonar", "depth", "check", "solve", "publish", "gate"}
      PROVE  Built \/ (pc = "edges" /\ pc' = "loops" /\ EndOfLoop)
  BY <1>1, <1>4 DEF Arrows, Built
<1>5. Published' => Built
  BY <1>3 DEF Built
<1> QED
  BY <1>3, <1>4, <1>5 DEF Built

\* After the motion loop residuals are added, poses never.
LEMMA PosesStay ==
  ASSUME Basic, VoPlace, BuildInv, [Next]_vars, pc \notin {"anchor", "prior", "edges"}
  PROVE  graph'.poses = graph.poses /\ graph'.inertial = graph.inertial
<1>0. GraphMove /\ graph \in Graphs
  BY GraphMoves DEF Basic
<1>1. CASE MoveLoops
  <2>1. Item \in Keyframes
    BY <1>1, Visited DEF MoveLoops, Basic
  <2> QED
    BY <1>0, <1>1, <2>1, LoopItem, LoopsAdded DEF MoveLoops
<1>2. CASE MoveAbsolute
  <2>1. {"sonar_range", "depth"} \subseteq Models
    BY DEF Models
  <2> QED
    <3>1. PICK k \in Keyframes, m \in Models :
            HasKeyframe(graph, k) /\ graph' = Absolute(graph, m, k)
      BY <1>2, <2>1 DEF MoveAbsolute
    <3>2. Grows(graph, graph', graph.poses, graph.inertial, Block(m, {PoseRef(k)}, k))
      BY <1>0, <3>1, AbsoluteTyped
    <3> QED
      BY <3>2 DEF Grows
<1> QED
  BY <1>0, <1>1, <1>2 DEF GraphMove, MoveAnchor, MovePrior, MoveInterval, MoveEdge

LEMMA ImuChainStep ==
  ASSUME Basic, BuildInv, MoveInterval
  PROVE  ImuChain(graph', input, cursor + 1)
<1> DEFINE s == input.boundaries  from == s[cursor]  to == s[cursor + 1]  p == graph.poses
<1>1. /\ s \in Seq(Keyframes) /\ Distinct(s) /\ p \in Seq(Keyframes) /\ graph \in Graphs
  BY InputTyped DEF Basic, Graphs
<1>2. cursor \in 1 .. Len(s) /\ cursor + 1 \in 1 .. Len(s) /\ cursor \in Nat
  BY DEF MoveInterval, Basic
<1>3. /\ graph.inertial = p /\ Len(p) \in 1 .. cursor
      /\ \A i \in 1 .. Len(p) : p[i] = s[i]
  BY DEF MoveInterval, BuildInv, ImuChain
<1>4. /\ from \in ToSet(p) /\ from \in Keyframes /\ to \in Keyframes
      /\ HasKeyframe(graph, from) /\ HasInertialState(graph, from)
  BY <1>1, <1>2, ElementOfSeq DEF MoveInterval, HasKeyframe
<1>5. ToSet(p) = {p[i] : i \in 1 .. Len(p)} /\ DOMAIN s = 1 .. Len(s) /\ Len(s) \in Nat
  BY <1>1, MembersOf
<1>d. \A i, j \in 1 .. Len(s) : s[i] = s[j] => i = j
  BY <1>1, <1>5 DEF Distinct
<1> HIDE DEF s, p
<1>6. PICK i \in 1 .. Len(p) : p[i] = from
  BY <1>4, <1>5
<1>7. i = cursor /\ Len(p) = cursor
  BY <1>2, <1>3, <1>5, <1>6, <1>d
<1>8. to \notin ToSet(p)
  <2>1. ASSUME NEW j \in 1 .. Len(p) PROVE p[j] # to
    <3>1. j \in 1 .. Len(s) /\ j # cursor + 1
      BY <1>2, <1>5, <1>7
    <3> QED
      BY <1>2, <1>3, <1>d, <3>1
  <2> QED
    BY <1>5, <2>1
<1>9. With(p, to) = Append(p, to)
  BY <1>8 DEF With
<1>10. Grows(graph, graph', With(p, to), With(graph.inertial, to),
             Block("imu_preintegration", IntervalRefs(from, to), to))
  BY <1>1, <1>4, IntervalAdded DEF MoveInterval, s, p
<1>11. graph'.poses = Append(p, to) /\ graph'.inertial = Append(p, to)
  BY <1>3, <1>9, <1>10 DEF Grows
<1>12. /\ Len(Append(p, to)) = cursor + 1 /\ Append(p, to)[cursor + 1] = to
       /\ \A j \in 1 .. cursor : Append(p, to)[j] = p[j]
  BY <1>1, <1>4, <1>7, Appended
<1>13. \A j \in 1 .. cursor + 1 : Append(p, to)[j] = s[j]
  BY <1>2, <1>3, <1>7, <1>12
<1> QED
  BY <1>2, <1>5, <1>11, <1>12, <1>13 DEF ImuChain, s

LEMMA BuildStart == Init => BuildInv
<1> SUFFICES ASSUME Init PROVE BuildInv
  OBVIOUS
<1>1. graph = EmptyGraph /\ pc = "rectify" /\ exitCode = -1
  BY DEF Init
<1>2. ~Built
  BY <1>1 DEF Built, Published
<1> QED
  BY <1>1, <1>2, AnchorSound DEF BuildInv

LEMMA BuildStep == Basic /\ VoPlace /\ BuildInv /\ [Next]_vars => BuildInv'
<1> SUFFICES ASSUME Basic, VoPlace, BuildInv, [Next]_vars PROVE BuildInv'
  OBVIOUS
<1>0. /\ GraphMove /\ Moves /\ Arrows /\ input' = input /\ Imu' = Imu /\ Anchor' = Anchor
  BY GraphMoves, StepMoves, StepArrows DEF Moves, Imu, Anchor
<1>1. Sound(graph')
  BY SoundStep
<1>2. pc' \in {"rectify", "anchor"} => graph' = EmptyGraph
  BY <1>0 DEF BuildInv, GraphMove, Arrows, MoveAnchor, MovePrior, MoveInterval, MoveEdge, MoveLoops,
     MoveAbsolute, At
<1>3. pc' \in {"times", "prior"} => graph' = AnchorGraph(Anchor)
  <2>1. CASE pc = "anchor" /\ pc' = "times"
    <3>1. ChooseAnchor /\ pc' # "exit"
      BY <1>0, <2>1 DEF Arrows
    <3>2. graph' = AddKeyframe(graph, Anchor, TRUE)
      BY <3>1 DEF ChooseAnchor, Fail
    <3> QED
      BY <2>1, <3>2 DEF BuildInv, AnchorGraph
  <2>2. CASE pc \in {"times", "prior"} /\ pc' \in {"times", "prior"}
    BY <1>0, <2>2 DEF BuildInv, GraphMove, MoveAnchor, MovePrior, MoveInterval, MoveEdge, MoveLoops,
       MoveAbsolute, At
  <2>3. pc' \in {"times", "prior"} =>
           (pc = "anchor" /\ pc' = "times") \/ (pc \in {"times", "prior"})
    BY <1>0 DEF Arrows
  <2> QED
    BY <2>1, <2>2, <2>3
<1>4. ASSUME Imu, pc' = "edges" PROVE ImuChain(graph', input, cursor')
  <2>1. CASE pc = "prior"
    <3>1. AnchorInertial /\ pc' # "exit"
      BY <1>0, <1>4, <2>1 DEF Arrows
    <3>2. graph' = PriorOf(graph, Anchor) /\ cursor' = cursor
      BY <3>1 DEF AnchorInertial, Fail, PriorOf
    <3>3. graph = AnchorGraph(Anchor) /\ cursor = 1 /\ Anchor \in Keyframes
          /\ Len(input.boundaries) >= 2
      BY <1>4, <2>1 DEF BuildInv, Basic, Loops
    <3>4. /\ graph \in Graphs /\ graph.poses = <<Anchor>> /\ graph.inertial = <<>>
      BY <3>3, AnchorAdded
    <3>5. HasKeyframe(graph, Anchor) /\ Anchor \notin ToSet(<<>>)
      BY <3>4 DEF HasKeyframe, ToSet
    <3>6. graph'.poses = <<Anchor>> /\ graph'.inertial = <<Anchor>>
      <4>1. Grows(graph, graph', graph.poses, With(graph.inertial, Anchor),
                  Block("inertial_prior", {InertialRef(Anchor)}, NoKeyframe))
        BY <3>2, <3>3, <3>4, <3>5, PriorAdded
      <4>2. With(<<>>, Anchor) = <<Anchor>>
        BY <3>5 DEF With
      <4> QED
        BY <3>4, <4>1, <4>2 DEF Grows
    <3>7. Anchor = input.boundaries[1]
      BY <1>4, <3>3, AnchorTyped DEF Basic
    <3>8. Len(<<Anchor>>) = 1 /\ <<Anchor>>[1] = Anchor
      OBVIOUS
    <3>9. Len(graph'.poses) = 1 /\ graph'.poses[1] = input.boundaries[1]
      BY <3>6, <3>7, <3>8
    <3>10. input.boundaries \in Seq(Keyframes) /\ Len(input.boundaries) \in Nat
      BY InputTyped, LenProperties DEF Basic
    <3> QED
      BY <3>2, <3>3, <3>6, <3>9, <3>10 DEF ImuChain
  <2>2. CASE pc = "edges"
    <3>1. CASE MoveInterval
      BY <3>1, ImuChainStep DEF MoveInterval
    <3>2. CASE graph' = graph
      <4>1. ImuChain(graph, input, cursor)
        BY <1>4, <2>2 DEF BuildInv
      <4>2. cursor' = cursor \/ cursor' = cursor + 1
        BY <1>0, <1>4, <2>2 DEF Moves
      <4>3. cursor \in Nat
        BY DEF Basic
      <4>4. \A n \in 1 .. cursor : n \in 1 .. cursor'
        BY <4>2, <4>3
      <4> QED
        BY <3>2, <4>1, <4>4 DEF ImuChain
    <3> QED
      BY <1>0, <1>4, <2>2, <3>1, <3>2 DEF GraphMove, MoveAnchor, MovePrior, MoveEdge, MoveLoops,
         MoveAbsolute, At
  <2> QED
    BY <1>0, <1>4, <2>1, <2>2 DEF Arrows
<1>5. ASSUME Imu, Built' PROVE graph'.poses = input.boundaries /\ graph'.inertial = input.boundaries
  <2>1. CASE Built
    <3>1. pc \notin {"anchor", "prior", "edges"}
      BY <2>1 DEF Built, Published, Basic
    <3> QED
      BY <1>5, <2>1, <3>1, PosesStay DEF BuildInv
  <2>2. CASE pc = "edges" /\ pc' = "loops" /\ EndOfLoop
    <3>1. graph' = graph /\ ~Truncated
      BY <2>2 DEF EndOfLoop, Fail
    <3>2. Len(graph.poses) = Len(input.boundaries)
      BY <1>5, <2>2, <3>1 DEF Truncated
    <3>3. /\ graph.inertial = graph.poses
          /\ \A i \in 1 .. Len(graph.poses) : graph.poses[i] = input.boundaries[i]
      BY <1>5, <2>2 DEF BuildInv, ImuChain
    <3>4. graph.poses \in Seq(Keyframes) /\ input.boundaries \in Seq(Keyframes)
      BY InputTyped DEF Basic, Graphs
    <3> QED
      BY <3>1, <3>2, <3>3, <3>4, SeqEqual
  <2> QED
    BY <1>5, <2>1, <2>2, BuiltSteps
<1> QED
  BY <1>0, <1>1, <1>2, <1>3, <1>4, <1>5 DEF BuildInv

-----------------------------------------------------------------------------
(* Capture times.                                                           *)

SeenIn(in, camera) == {f.keyframe : f \in {g \in ToSet(in.images) : g.camera = camera}}
EvidenceIn(in, kind) == {e \in ToSet(in.evidence) : e.kind = kind}

\* The best source a bag without IMU boundaries has for a keyframe.
BestSource(in, k) ==
  IF in.cameras /\ k \in SeenIn(in, "left") THEN "camera"
  ELSE IF k \in ToSet(in.references) THEN "reference"
  ELSE IF k \in {e.source : e \in EvidenceIn(in, "depth")} THEN "depth_log"
  ELSE IF k \in {e.to : e \in EvidenceIn(in, "relative_pose")} THEN "edge_log"
  ELSE "none"

Timed == pc \notin {"rectify", "anchor", "times", "exit"} \/ Published

TimeInv ==
  /\ pc \in {"rectify", "anchor", "times"} => \A k \in Keyframes : timeOf[k] = "none"
  /\ Timed => \A k \in Keyframes :
       /\ Imu /\ Contains(input.boundaries, k) => timeOf[k] = "boundary"
       /\ ~Imu => timeOf[k] = BestSource(input, k)

LEMMA EmplaceIs ==
  ASSUME NEW f, NEW ks, NEW s, NEW k \in Keyframes
  PROVE  Emplace(f, ks, s)[k] = IF f[k] = "none" /\ k \in ks THEN s ELSE f[k]
BY DEF Emplace

LEMMA CapturedTimes ==
  ASSUME \A k \in Keyframes : timeOf[k] = "none", NEW k \in Keyframes
  PROVE  /\ Imu /\ Contains(input.boundaries, k) => CaptureTimes[k] = "boundary"
         /\ ~Imu => CaptureTimes[k] = BestSource(input, k)
<1> DEFINE camera == Emplace(timeOf, IF input.cameras THEN Seen("left") ELSE {}, "camera")
           truth == Emplace(camera, ToSet(input.references), "reference")
           depth == Emplace(truth, {e.source : e \in Of("depth")}, "depth_log")
           edge == Emplace(depth, {e.to : e \in Of("relative_pose")}, "edge_log")
           bounds == [l \in Keyframes |->
                        IF Contains(input.boundaries, l) THEN "boundary" ELSE camera[l]]
<1>1. CaptureTimes = IF Imu THEN bounds ELSE edge
  BY DEF CaptureTimes
<1>2. Imu /\ Contains(input.boundaries, k) => CaptureTimes[k] = "boundary"
  <2> HIDE DEF camera, edge
  <2> QED
    BY <1>1
<1>3. camera[k] = IF input.cameras /\ k \in Seen("left") THEN "camera" ELSE "none"
  BY EmplaceIs
<1>4. truth[k] = IF camera[k] = "none" /\ k \in ToSet(input.references) THEN "reference" ELSE camera[k]
  <2> HIDE DEF camera
  <2> QED
    BY EmplaceIs
<1>5. depth[k] = IF truth[k] = "none" /\ k \in {e.source : e \in Of("depth")} THEN "depth_log"
                 ELSE truth[k]
  <2> HIDE DEF truth
  <2> QED
    BY EmplaceIs
<1>6. edge[k] = IF depth[k] = "none" /\ k \in {e.to : e \in Of("relative_pose")} THEN "edge_log"
                ELSE depth[k]
  <2> HIDE DEF depth
  <2> QED
    BY EmplaceIs
<1>7. /\ Seen("left") = SeenIn(input, "left")
      /\ Of("depth") = EvidenceIn(input, "depth")
      /\ Of("relative_pose") = EvidenceIn(input, "relative_pose")
  BY DEF Seen, SeenIn, Of, EvidenceIn
<1> HIDE DEF camera, truth, depth, edge
<1>8. edge[k] = BestSource(input, k)
  BY <1>3, <1>4, <1>5, <1>6, <1>7 DEF BestSource
<1> QED
  BY <1>1, <1>2, <1>8

LEMMA TimeStart == Init => TimeInv
<1> SUFFICES ASSUME Init PROVE TimeInv
  OBVIOUS
<1>1. ~Timed
  BY DEF Init, Timed, Published
<1> QED
  BY <1>1 DEF Init, TimeInv

LEMMA TimeStep == Basic /\ TimeInv /\ [Next]_vars => TimeInv'
<1> SUFFICES ASSUME Basic, TimeInv, [Next]_vars PROVE TimeInv'
  OBVIOUS
<1>0. Moves /\ Arrows /\ input' = input /\ Imu' = Imu
  BY StepMoves, StepArrows DEF Moves, Imu
<1>1. timeOf' = timeOf \/ CollectTimes
  BY DEF Next, Step, Rectify, ChooseAnchor, CollectTimes, AnchorInertial, ImuInterval, VoFrame,
     BagEdge, LoopFrame, SonarFrame, DepthRecord, EndOfLoop, CheckObservability, Solve, Publish,
     Gate, Done, vars, runVars
<1>2. CASE CollectTimes
  <2>1. timeOf' = CaptureTimes /\ pc = "times"
    BY <1>2 DEF CollectTimes
  <2>2. pc' \notin {"rectify", "anchor", "times"}
    BY <1>2 DEF CollectTimes
  <2>3. ASSUME NEW k \in Keyframes
        PROVE  /\ Imu /\ Contains(input.boundaries, k) => CaptureTimes[k] = "boundary"
               /\ ~Imu => CaptureTimes[k] = BestSource(input, k)
    BY <2>1, CapturedTimes DEF TimeInv
  <2> QED
    BY <1>0, <2>1, <2>2, <2>3 DEF TimeInv
<1>3. CASE timeOf' = timeOf /\ ~CollectTimes
  <2>1. pc' \in {"rectify", "anchor", "times"} => pc \in {"rectify", "anchor", "times"}
    BY <1>0 DEF Arrows
  <2>2. ASSUME Timed' PROVE Timed
    <3>1. CASE Published'
      BY <3>1, <2>2, BuiltSteps DEF Built, Timed
    <3>2. CASE pc' \notin {"rectify", "anchor", "times", "exit"}
      BY <1>0, <1>3, <3>2 DEF Arrows, Timed
    <3> QED
      BY <2>2, <3>1, <3>2 DEF Timed
  <2> QED
    BY <1>0, <1>3, <2>1, <2>2 DEF TimeInv
<1> QED
  BY <1>1, <1>2, <1>3

-----------------------------------------------------------------------------
(* Publication.                                                             *)

\* The status of a keyframe, from the health records.
StatusIn(stereo, done, records, k) ==
  LET recorded == {i \in DOMAIN records : records[i].keyframe = k}
      v == IF recorded = {} THEN "unspecified" ELSE records[CHOOSE i \in recorded : TRUE].status
  IN IF stereo /\ v = "unavailable" THEN "lost"
     ELSE IF ~done \/ (stereo /\ v = "suspect") THEN "degraded"
     ELSE "tracking"

OwnedIn(g, k) == {i \in DOMAIN g.blocks : g.blocks[i].owner = k}

\* A snapshot tells what is known of a keyframe.
Tells(s, g, times, stereo, done, records, k) ==
  /\ s.keyframe = k /\ s.time = times[k] /\ s.contributing = OwnedIn(g, k)
  /\ s.status = StatusIn(stereo, done, records, k)

PublishInv ==
  /\ trajectory # <<>> => pc \in {"publish", "gate"} \/ Published
  /\ pc = "publish" => Len(trajectory) = cursor - 1
  /\ pc = "gate" \/ Published => Len(trajectory) = Len(graph.poses)
  /\ Len(trajectory) <= Len(graph.poses)
  /\ \A i \in 1 .. Len(trajectory) :
       Tells(trajectory[i], graph, timeOf, Stereo, converged, health, graph.poses[i])

LEMMA SnapshotTells ==
  ASSUME NEW k
  PROVE  Tells(BuildStateSnapshot(k), graph, timeOf, Stereo, converged, health, k)
<1>1. DecideTrackingStatus(VoHealth(k)) = StatusIn(Stereo, converged, health, k)
  BY DEF DecideTrackingStatus, VoHealth, StatusIn
<1>2. Owned(k) = OwnedIn(graph, k)
  BY DEF Owned, OwnedIn
<1> QED
  BY <1>1, <1>2 DEF Tells, BuildStateSnapshot

\* What the snapshots are taken from is settled when the first one is.
LEMMA PublishSettled ==
  ASSUME Basic, [Next]_vars, pc \in {"publish", "gate", "exit"}
  PROVE  /\ graph' = graph /\ timeOf' = timeOf /\ converged' = converged /\ health' = health
         /\ Stereo' = Stereo
         /\ (trajectory' = trajectory /\ store' = store) \/ Publish
<1>1. UNCHANGED vars \/ Done \/ EndOfLoop \/ Publish \/ Gate
  BY DEF Next, Step, Rectify, ChooseAnchor, CollectTimes, AnchorInertial, ImuInterval, VoFrame,
     BagEdge, LoopFrame, SonarFrame, DepthRecord, CheckObservability, Solve, At
<1>2. Stereo' = Stereo
  BY StepMoves DEF Moves, Stereo
<1> QED
  BY <1>1, <1>2 DEF vars, runVars, voVars, Done, EndOfLoop, Publish, Gate

LEMMA PublishOnly ==
  ASSUME [Next]_vars
  PROVE  (trajectory' = trajectory /\ store' = store) \/ Publish
BY DEF Next, Step, Rectify, ChooseAnchor, CollectTimes, AnchorInertial, ImuInterval, VoFrame,
     BagEdge, LoopFrame, SonarFrame, DepthRecord, EndOfLoop, CheckObservability, Solve, Gate, Done,
     vars, runVars

LEMMA PublishStart == Init => PublishInv
<1> SUFFICES ASSUME Init PROVE PublishInv
  OBVIOUS
<1>1. /\ trajectory = <<>> /\ pc = "rectify" /\ exitCode = -1 /\ Len(graph.poses) = 0
  BY DEF Init, EmptyGraph
<1>2. ~Published /\ Len(trajectory) = 0
  BY <1>1 DEF Published
<1> QED
  BY <1>1, <1>2 DEF PublishInv

LEMMA PublishStep == Basic /\ VoPlace /\ PublishInv /\ [Next]_vars => PublishInv'
<1> SUFFICES ASSUME Basic, VoPlace, PublishInv, [Next]_vars PROVE PublishInv'
  OBVIOUS
<1>0. Moves /\ Arrows /\ trajectory \in Seq(Snapshots) /\ graph.poses \in Seq(Keyframes)
      /\ Len(graph.poses) \in Nat
  BY StepMoves, StepArrows, LenProperties DEF Basic, Graphs
<1>t. Len(trajectory) \in Nat
  BY <1>0, LenProperties
<1>1. CASE Publish
  <2>1. /\ At("publish") /\ pc = "publish" /\ pc' = pc /\ cursor' = cursor + 1 /\ exitCode' = exitCode
        /\ trajectory' = Append(trajectory, BuildStateSnapshot(Item))
    BY <1>1 DEF Publish, Advance, At
  <2>2. /\ cursor \in 1 .. Len(graph.poses) /\ Item = graph.poses[cursor]
        /\ BuildStateSnapshot(Item) \in Snapshots
    BY <2>1, SnapshotTyped
  <2>3. /\ graph' = graph /\ timeOf' = timeOf /\ converged' = converged /\ health' = health
        /\ Stereo' = Stereo
    BY <2>1, PublishSettled
  <2>4. Len(trajectory) = cursor - 1 /\ cursor \in Nat
    BY <2>1 DEF PublishInv, Basic
  <2>5. /\ Len(trajectory') = cursor /\ trajectory'[cursor] = BuildStateSnapshot(Item)
        /\ \A i \in 1 .. cursor - 1 : trajectory'[i] = trajectory[i]
    <3> DEFINE s == BuildStateSnapshot(Item)
    <3>1. s \in Snapshots /\ trajectory' = Append(trajectory, s)
      BY <2>1, <2>2
    <3> HIDE DEF s
    <3>2. /\ Len(trajectory') = Len(trajectory) + 1 /\ trajectory'[Len(trajectory) + 1] = s
          /\ \A i \in 1 .. Len(trajectory) : trajectory'[i] = trajectory[i]
      BY <1>0, <3>1, Appended
    <3>3. Len(trajectory) + 1 = cursor
      BY <2>4
    <3> QED
      BY <2>4, <3>2, <3>3 DEF s
  <2>6. ASSUME NEW i \in 1 .. Len(trajectory')
        PROVE  Tells(trajectory'[i], graph, timeOf, Stereo, converged, health, graph.poses[i])
    <3>1. CASE i = cursor
      BY <2>2, <2>5, <3>1, SnapshotTells
    <3>2. CASE i \in 1 .. cursor - 1
      BY <2>4, <2>5, <3>2 DEF PublishInv
    <3> QED
      BY <2>4, <2>5, <3>1, <3>2
  <2>7. ~Published'
    BY <2>1 DEF Published, Basic
  <2> QED
    BY <2>1, <2>2, <2>3, <2>4, <2>5, <2>6, <2>7 DEF PublishInv
<1>2. CASE ~Publish /\ pc \in {"publish", "gate", "exit"}
  <2>1. /\ graph' = graph /\ timeOf' = timeOf /\ converged' = converged /\ health' = health
        /\ Stereo' = Stereo /\ trajectory' = trajectory
    BY <1>2, PublishSettled
  <2>2. CASE pc' = pc
    <3>1. cursor' = cursor /\ exitCode' = exitCode
      <4>1. UNCHANGED vars \/ Done \/ EndOfLoop \/ Gate
        BY <1>2 DEF Next, Step, Rectify, ChooseAnchor, CollectTimes, AnchorInertial, ImuInterval,
           VoFrame, BagEdge, LoopFrame, SonarFrame, DepthRecord, CheckObservability, Solve, At
      <4>2. ~EndOfLoop /\ ~Gate
        BY <1>2, <2>2, LoopNames, LoopEnds DEF EndOfLoop, Gate, Fail, Truncated, Loops
      <4> QED
        BY <4>1, <4>2 DEF vars, Done
    <3> QED
      BY <2>1, <2>2, <3>1 DEF PublishInv, Published
  <2>3. CASE pc = "publish" /\ pc' = "gate"
    <3>1. cursor > Len(graph.poses)
      <4>1. EndOfLoop /\ Work(pc) = graph.poses
        BY <1>0, <2>3 DEF Arrows, Work
      <4> QED
        BY <4>1 DEF EndOfLoop
    <3>2. Len(trajectory) = cursor - 1 /\ cursor \in Nat /\ Len(trajectory) <= Len(graph.poses)
      BY <2>3 DEF PublishInv, Basic
    <3>3. Len(trajectory) = Len(graph.poses)
      BY <1>0, <3>1, <3>2
    <3>4. exitCode' = exitCode /\ ~Published'
      BY <1>0, <2>3 DEF Moves, Published, Basic
    <3> QED
      BY <2>1, <2>3, <3>3, <3>4 DEF PublishInv
  <2>4. CASE pc = "gate" /\ pc' = "exit"
    <3>1. Published'
      BY <1>0, <2>4 DEF Arrows, Gate, Published
    <3> QED
      BY <2>1, <2>4, <3>1 DEF PublishInv
  <2> QED
    BY <1>0, <1>2, <2>2, <2>3, <2>4 DEF Arrows
<1>3. CASE ~Publish /\ pc \notin {"publish", "gate", "exit"}
  <2>1. trajectory' = trajectory
    BY <1>3, PublishOnly
  <2>2. trajectory = <<>>
    BY <1>3 DEF PublishInv, Published, Basic
  <2>3. Len(trajectory) = 0 /\ 1 .. 0 = {}
    BY <2>2
  <2>4. pc' # "gate" /\ ~Published'
    <3>1. Published => pc = "exit"
      BY DEF Published, Basic
    <3> QED
      BY <1>0, <1>3, <3>1, BuiltSteps DEF Arrows, Built
  <2>5. pc' = "publish" => cursor' = 1
    BY <1>0, <1>3 DEF Arrows, Moves
  <2>6. Len(graph'.poses) \in Nat
    BY BasicStep, LenProperties DEF Basic, Graphs
  <2> QED
    BY <2>1, <2>2, <2>3, <2>4, <2>5, <2>6 DEF PublishInv
<1> QED
  BY <1>1, <1>2, <1>3

-----------------------------------------------------------------------------
(* The store.                                                               *)

Entries == [keyframe : Keyframes, version : Nat]

StoreInv ==
  /\ store \in [next : Nat, history : Seq(Entries)]
  /\ store.next = Len(trajectory) + 1
  /\ StoreHoldsTail

\* The newest entries of a trajectory, in a history.
TailOf(history, t) ==
  LET kept == Len(history) IN
  /\ kept = IF Len(t) > HistoryCapacity THEN HistoryCapacity ELSE Len(t)
  /\ \A i \in 1 .. kept :
       LET version == Len(t) - kept + i IN
       history[i] = [keyframe |-> t[version].keyframe, version |-> version]

LEMMA StoreIs == StoreHoldsTail <=> TailOf(store.history, trajectory)
BY DEF StoreHoldsTail, TailOf

LEMMA TailStays ==
  ASSUME NEW t \in Seq(Snapshots), NEW s \in Snapshots, NEW h \in Seq(Entries), TailOf(h, t),
         NEW e \in Entries, e.keyframe = s.keyframe, e.version = Len(t) + 1
  PROVE  LET grown == Append(h, e) IN
         /\ grown \in Seq(Entries) /\ Tail(grown) \in Seq(Entries)
         /\ TailOf(IF Len(grown) > HistoryCapacity THEN Tail(grown) ELSE grown, Append(t, s))
<1> DEFINE grown == Append(h, e)  u == Append(t, s)
           new == IF Len(grown) > HistoryCapacity THEN Tail(grown) ELSE grown
<1>n. PICK n \in Nat, k \in Nat, H \in Nat \ {0} :
        n = Len(t) /\ k = Len(h) /\ H = HistoryCapacity
  BY LenProperties, ReplayGraphAssumption
<1>1. /\ grown \in Seq(Entries) /\ Len(grown) = k + 1 /\ grown[k + 1] = e
      /\ \A i \in 1 .. k : grown[i] = h[i]
  BY <1>n, Appended
<1>2. /\ Len(u) = n + 1 /\ u[n + 1] = s /\ \A i \in 1 .. n : u[i] = t[i]
  BY <1>n, Appended
<1>3. /\ k = IF n > H THEN H ELSE n
      /\ \A i \in 1 .. k : h[i] = [keyframe |-> t[n - k + i].keyframe, version |-> n - k + i]
  BY <1>n DEF TailOf
<1>4. e = [keyframe |-> s.keyframe, version |-> n + 1]
  BY <1>n DEF Entries
<1> HIDE DEF grown, u
<1>5. /\ Tail(grown) \in Seq(Entries) /\ Len(Tail(grown)) = k
      /\ \A i \in 1 .. k : Tail(grown)[i] = grown[i + 1]
  <2>1. grown # <<>>
    <3>1. Len(grown) # 0
      BY <1>1
    <3> QED
      BY <3>1
  <2>2. /\ Tail(grown) \in Seq(Entries) /\ Len(Tail(grown)) = Len(grown) - 1
        /\ \A i \in 1 .. Len(Tail(grown)) : Tail(grown)[i] = grown[i + 1]
    BY <1>1, <2>1, HeadTailProperties
  <2>3. Len(grown) - 1 = k
    BY <1>1
  <2> QED
    BY <2>2, <2>3
<1>6. CASE k + 1 > H
  <2>1. new = Tail(grown) /\ k = H /\ n >= H
    BY <1>n, <1>1, <1>3, <1>6
  <2>2. Len(new) = IF Len(u) > HistoryCapacity THEN HistoryCapacity ELSE Len(u)
    BY <1>n, <1>2, <1>5, <2>1
  <2>3. ASSUME NEW i \in 1 .. k
        PROVE  new[i] = [keyframe |-> u[n + 1 - k + i].keyframe, version |-> n + 1 - k + i]
    <3>1. CASE i = k
      <4>1. n + 1 - k + i = n + 1 /\ i + 1 = k + 1
        BY <3>1
      <4> QED
        BY <1>1, <1>2, <1>4, <1>5, <2>1, <4>1
    <3>2. CASE i # k
      <4>1. /\ i + 1 \in 1 .. k /\ n - k + (i + 1) = n + 1 - k + i
            /\ n + 1 - k + i \in 1 .. n
        BY <2>1, <3>2
      <4>2. h[i + 1] = [keyframe |-> t[n + 1 - k + i].keyframe, version |-> n + 1 - k + i]
        BY <1>3, <4>1
      <4> QED
        BY <1>1, <1>2, <1>5, <2>1, <4>1, <4>2
    <3> QED
      BY <3>1, <3>2
  <2>4. Len(new) = k
    BY <1>5, <2>1
  <2> HIDE DEF new
  <2>5. TailOf(new, u)
    <3>1. ASSUME NEW i \in 1 .. Len(new)
          PROVE  new[i] = [keyframe |-> u[Len(u) - Len(new) + i].keyframe,
                           version |-> Len(u) - Len(new) + i]
      <4>1. i \in 1 .. k /\ Len(u) - Len(new) + i = n + 1 - k + i
        BY <1>2, <2>4
      <4> QED
        BY <2>3, <4>1
    <3> QED
      BY <2>2, <3>1 DEF TailOf
  <2> QED
    BY <1>1, <1>5, <2>5 DEF new, grown, u
<1>7. CASE ~ (k + 1 > H)
  <2>1. new = grown /\ k = n /\ n + 1 <= H
    BY <1>n, <1>1, <1>3, <1>7
  <2>2. Len(new) = IF Len(u) > HistoryCapacity THEN HistoryCapacity ELSE Len(u)
    BY <1>n, <1>1, <1>2, <2>1
  <2>3. ASSUME NEW i \in 1 .. n + 1
        PROVE  new[i] = [keyframe |-> u[i].keyframe, version |-> i]
    <3>1. CASE i = n + 1
      BY <1>1, <1>2, <1>4, <2>1, <3>1
    <3>2. CASE i # n + 1
      <4>1. i \in 1 .. n /\ n - k + i = i
        BY <2>1, <3>2
      <4>2. h[i] = [keyframe |-> t[i].keyframe, version |-> i]
        BY <1>3, <2>1, <4>1
      <4> QED
        BY <1>1, <1>2, <2>1, <4>1, <4>2
    <3> QED
      BY <3>1, <3>2
  <2>4. Len(new) = n + 1
    BY <1>1, <2>1
  <2>5. ASSUME NEW i \in 1 .. n + 1
        PROVE  new[i] = [keyframe |-> u[n + 1 - (n + 1) + i].keyframe, version |-> n + 1 - (n + 1) + i]
    <3>1. n + 1 - (n + 1) + i = i
      OBVIOUS
    <3> QED
      BY <2>3, <3>1
  <2> HIDE DEF new
  <2>6. TailOf(new, u)
    BY <1>2, <2>2, <2>4, <2>5 DEF TailOf
  <2> QED
    BY <1>1, <1>5, <2>6 DEF new, grown, u
<1> QED
  BY <1>6, <1>7

LEMMA StoreStart == Init => StoreInv
<1> SUFFICES ASSUME Init PROVE StoreInv
  OBVIOUS
<1>1. store = [next |-> 1, history |-> <<>>] /\ trajectory = <<>>
  BY DEF Init
<1>2. Len(<<>>) = 0 /\ 1 .. 0 = {} /\ <<>> \in Seq(Entries)
  BY EmptySeq
<1>3. TailOf(<<>>, <<>>)
  BY <1>2, ReplayGraphAssumption DEF TailOf
<1> QED
  BY <1>1, <1>2, <1>3, StoreIs DEF StoreInv

LEMMA StoreStep == Basic /\ StoreInv /\ [Next]_vars => StoreInv'
<1> SUFFICES ASSUME Basic, StoreInv, [Next]_vars PROVE StoreInv'
  OBVIOUS
<1>0. TailOf(store.history, trajectory)
  BY StoreIs DEF StoreInv
<1>1. CASE trajectory' = trajectory /\ store' = store
  <2>1. StoreHoldsTail'
    BY <1>1 DEF StoreInv, StoreHoldsTail
  <2> QED
    BY <1>1, <2>1 DEF StoreInv
<1>2. CASE Publish
  <2> DEFINE s == BuildStateSnapshot(Item)
             e == [keyframe |-> Item, version |-> store.next]
             grown == Append(store.history, e)
             new == IF Len(grown) > HistoryCapacity THEN Tail(grown) ELSE grown
  <2>1. At("publish") /\ trajectory' = Append(trajectory, s) /\ store' = Commit(store, Item)
    BY <1>2 DEF Publish
  <2>2. s \in Snapshots /\ s.keyframe = Item
    BY <2>1, SnapshotTyped DEF BuildStateSnapshot
  <2>3. /\ trajectory \in Seq(Snapshots) /\ store.history \in Seq(Entries)
        /\ store.next \in Nat /\ store.next = Len(trajectory) + 1
    BY DEF Basic, StoreInv
  <2>4. e \in Entries /\ e.keyframe = s.keyframe /\ e.version = Len(trajectory) + 1
    BY <2>2, <2>3 DEF Snapshots, Entries
  <2>5. store' = [next |-> store.next + 1, history |-> new]
    BY <2>1 DEF Commit
  <2> HIDE DEF s, e
  <2>6. /\ grown \in Seq(Entries) /\ Tail(grown) \in Seq(Entries)
        /\ TailOf(new, Append(trajectory, s))
    BY <1>0, <2>2, <2>3, <2>4, TailStays
  <2>7. Len(Append(trajectory, s)) = Len(trajectory) + 1
    BY <2>2, <2>3, Appended
  <2> HIDE DEF grown
  <2>8. new \in Seq(Entries)
    BY <2>6
  <2> HIDE DEF new
  <2>9. StoreHoldsTail'
    <3>1. store'.history = new /\ trajectory' = Append(trajectory, s)
      BY <2>1, <2>5 DEF s
    <3>2. TailOf(store'.history, trajectory')
      BY <2>6, <3>1
    <3> QED
      BY <3>2 DEF StoreHoldsTail, TailOf
  <2> QED
    BY <2>1, <2>3, <2>5, <2>7, <2>8, <2>9 DEF StoreInv
<1> QED
  BY <1>1, <1>2, PublishOnly

-----------------------------------------------------------------------------
(* Loop edges.                                                              *)

\* The blocks of the motion stages: no loops and no absolute factors.
MotionModels == {"inertial_prior", "imu_preintegration", "relative_pose"}

MoveMotion ==
  \E p, s, b : Grows(graph, graph', p, s, b) /\ b.model \in MotionModels

LEMMA BlockMoves ==
  ASSUME Basic, VoPlace, BuildInv, [Next]_vars
  PROVE  graph'.blocks = graph.blocks \/ MoveMotion \/ MoveLoops \/ MoveAbsolute
<1>0. GraphMove /\ graph \in Graphs
  BY GraphMoves DEF Basic
<1>1. CASE MoveAnchor
  <2>1. graph = EmptyGraph /\ Anchor \in Keyframes /\ graph' = AnchorGraph(Anchor)
    BY <1>1 DEF MoveAnchor, BuildInv
  <2> QED
    BY <2>1, AnchorAdded DEF EmptyGraph
<1>2. CASE MovePrior
  <2>1. Anchor \in Keyframes /\ graph = AnchorGraph(Anchor) /\ graph' = PriorOf(graph, Anchor)
    BY <1>2 DEF MovePrior, BuildInv
  <2>2. ToSet(graph.poses) = {Anchor}
    BY <2>1, AnchorAdded DEF ToSet
  <2>3. Grows(graph, graph', graph.poses, With(graph.inertial, Anchor),
              Block("inertial_prior", {InertialRef(Anchor)}, NoKeyframe))
    BY <1>0, <2>1, <2>2, PriorAdded DEF HasKeyframe
  <2> QED
    BY <2>3 DEF MoveMotion, MotionModels, Block
<1>3. CASE MoveInterval
  <2> DEFINE from == input.boundaries[cursor]  to == input.boundaries[cursor + 1]
  <2>1. from \in Keyframes /\ to \in Keyframes
    BY <1>3, InputTyped, ElementOfSeq DEF MoveInterval, Basic
  <2>2. Grows(graph, graph', With(graph.poses, to), With(graph.inertial, to),
              Block("imu_preintegration", IntervalRefs(from, to), to))
    BY <1>0, <1>3, <2>1, IntervalAdded DEF MoveInterval
  <2> QED
    BY <2>2 DEF MoveMotion, MotionModels, Block
<1>4. CASE MoveEdge
  <2>1. PICK from \in Keyframes, to \in Keyframes :
          HasKeyframe(graph, from) /\ graph' = AddRelativePoseEdge(graph, from, to)
    BY <1>4 DEF MoveEdge
  <2>2. Grows(graph, graph', With(graph.poses, to), graph.inertial,
              Block("relative_pose", EdgeRefs(from, to), to))
    BY <1>0, <2>1, EdgeAdded
  <2> QED
    BY <2>2 DEF MoveMotion, MotionModels, Block
<1> QED
  BY <1>0, <1>1, <1>2, <1>3, <1>4 DEF GraphMove

LoopsOf(g, k) == {i \in 1 .. Len(g.blocks) : g.blocks[i].owner = k /\ IsLoop(g.blocks[i])}

\* A block that joins two keyframes of the archive a that lie far apart.
Spans(b, a) ==
  \E i, j \in 1 .. Len(a) :
     j - i >= MinGap /\ b.refs = {PoseRef(a[i]), PoseRef(a[j])} /\ b.owner = a[j]

LoopsSpan(g, a) ==
  /\ \A i \in 1 .. Len(g.blocks) : IsLoop(g.blocks[i]) => Spans(g.blocks[i], a)
  /\ \A k \in Keyframes : Cardinality(LoopsOf(g, k)) <= MaxLoopEdges

LoopInv ==
  /\ pc \in {"rectify", "anchor", "times", "prior", "edges"} => archive = <<>>
  /\ pc = "loops" => \A i \in 1 .. Len(archive) : \E c \in DOMAIN OrderOf(input) :
       c < cursor /\ archive[i] = OrderOf(input)[c]
  /\ LoopsSpan(graph, archive)

LEMMA LoopsKept ==
  ASSUME NEW g, NEW h, NEW p, NEW s, NEW b, Grows(g, h, p, s, b), b.model # "loop_closure",
         NEW a, LoopsSpan(g, a)
  PROVE  LoopsSpan(h, a)
<1>1. /\ Len(g.blocks) \in Nat /\ Len(h.blocks) = Len(g.blocks) + 1
      /\ \A i \in 1 .. Len(g.blocks) : h.blocks[i] = g.blocks[i]
      /\ h.blocks[Len(g.blocks) + 1] = b
  BY GrowsBlocks
<1>2. \A i \in 1 .. Len(h.blocks) : i \in 1 .. Len(g.blocks) \/ i = Len(g.blocks) + 1
  BY <1>1
<1>3. \A i \in 1 .. Len(g.blocks) : i \in 1 .. Len(h.blocks)
  BY <1>1
<1>4. \A k : LoopsOf(h, k) = LoopsOf(g, k)
  BY <1>1, <1>2, <1>3 DEF LoopsOf, IsLoop
<1>5. \A i \in 1 .. Len(h.blocks) : IsLoop(h.blocks[i]) => Spans(h.blocks[i], a)
  BY <1>1, <1>2 DEF LoopsSpan, IsLoop
<1> QED
  BY <1>4, <1>5 DEF LoopsSpan

LEMMA SpansGrow ==
  ASSUME NEW a \in Seq(Keyframes), NEW k \in Keyframes, NEW b, Spans(b, a)
  PROVE  Spans(b, Append(a, k))
<1>1. PICK i \in 1 .. Len(a), j \in 1 .. Len(a) :
        j - i >= MinGap /\ b.refs = {PoseRef(a[i]), PoseRef(a[j])} /\ b.owner = a[j]
  BY DEF Spans
<1>2. /\ Len(Append(a, k)) = Len(a) + 1 /\ Len(a) \in Nat
      /\ \A n \in 1 .. Len(a) : Append(a, k)[n] = a[n]
  BY Appended
<1>3. i \in 1 .. Len(Append(a, k)) /\ j \in 1 .. Len(Append(a, k))
  BY <1>2
<1> QED
  BY <1>1, <1>2, <1>3 DEF Spans

\* The loops of a keyframe the archive does not hold yet.
LEMMA LoopsGrow ==
  ASSUME NEW g \in Graphs, NEW a \in Seq(Keyframes), LoopsSpan(g, a),
         NEW k \in Keyframes, \A i \in 1 .. Len(a) : a[i] # k,
         NEW n \in 0 .. MaxLoopEdges, NEW loops \in [1 .. n -> Keyframes],
         \A l \in 1 .. n : \E i \in 1 .. Len(a) :
           Len(a) - (i - 1) >= MinGap /\ loops[l] = a[i]
  PROVE  LoopsSpan(AddLoopEdges(g, loops, k), Append(a, k))
<1> DEFINE h == AddLoopEdges(g, loops, k)  t == Append(a, k)
<1>n. PICK N \in Nat, A \in Nat : N = Len(g.blocks) /\ A = Len(a) /\ n \in Nat /\ MinGap \in Nat
  BY RowsSum, LenProperties, ReplayGraphAssumption
<1>1. /\ Len(h.blocks) = N + n
      /\ \A i \in 1 .. N : h.blocks[i] = g.blocks[i]
      /\ \A i \in 1 .. n : h.blocks[N + i] = LoopBlock(loops[i], k)
  BY <1>n, LoopsAdded
<1>2. /\ Len(t) = A + 1 /\ t[A + 1] = k /\ \A i \in 1 .. A : t[i] = a[i]
  BY <1>n, Appended
<1>h. \A l \in 1 .. n : \E i \in 1 .. A : A - (i - 1) >= MinGap /\ loops[l] = a[i]
  BY <1>n
<1> HIDE DEF h
<1>3. \A i \in 1 .. N + n : i \in 1 .. N \/ \E l \in 1 .. n : i = N + l
  <2>1. ASSUME NEW i \in 1 .. N + n, i \notin 1 .. N PROVE \E l \in 1 .. n : i = N + l
    <3>1. i - N \in 1 .. n /\ i = N + (i - N)
      BY <1>n, <2>1
    <3> QED
      BY <3>1
  <2> QED
    BY <2>1
<1>4. ASSUME NEW i \in 1 .. Len(h.blocks), IsLoop(h.blocks[i]) PROVE Spans(h.blocks[i], t)
  <2>1. CASE i \in 1 .. N
    BY <1>n, <1>1, <1>4, <2>1, SpansGrow DEF LoopsSpan
  <2>2. ASSUME NEW l \in 1 .. n, i = N + l PROVE Spans(h.blocks[i], t)
    <3>1. h.blocks[i] = LoopBlock(loops[l], k)
      BY <1>1, <2>2
    <3>2. PICK c \in 1 .. A : A - (c - 1) >= MinGap /\ loops[l] = a[c]
      BY <1>h
    <3>3. c \in 1 .. A + 1 /\ A + 1 \in 1 .. A + 1 /\ (A + 1) - c >= MinGap
      BY <1>n, <3>2
    <3>4. /\ h.blocks[i].refs = {PoseRef(t[c]), PoseRef(t[A + 1])}
          /\ h.blocks[i].owner = t[A + 1]
      BY <1>2, <3>1, <3>2 DEF LoopBlock, Block, EdgeRefs
    <3> HIDE DEF t
    <3> QED
      BY <1>2, <3>3, <3>4 DEF Spans
  <2> QED
    BY <1>1, <1>3, <2>1, <2>2
<1>s. \A o : /\ LoopsOf(h, o) = {i \in 1 .. N + n : h.blocks[i].owner = o /\ IsLoop(h.blocks[i])}
             /\ LoopsOf(g, o) = {i \in 1 .. N : g.blocks[i].owner = o /\ IsLoop(g.blocks[i])}
  BY <1>n, <1>1 DEF LoopsOf
<1>5. ASSUME NEW o \in Keyframes PROVE Cardinality(LoopsOf(h, o)) <= MaxLoopEdges
  <2>1. CASE o # k
    <3>1. LoopsOf(h, o) = LoopsOf(g, o)
      <4>1. \A l \in 1 .. n : h.blocks[N + l].owner = k
        <5>1. \A x : LoopBlock(x, k).owner = k
          BY DEF LoopBlock, Block
        <5> QED
          BY <1>1, <5>1
      <4>2. \A i \in 1 .. N : i \in 1 .. N + n
        BY <1>n
      <4>3. \A i \in 1 .. N + n : h.blocks[i].owner = o => i \in 1 .. N
        BY <1>3, <2>1, <4>1
      <4>4. \A i : i \in LoopsOf(h, o) <=> i \in LoopsOf(g, o)
        <5>1. \A i : i \in LoopsOf(h, o) <=>
                i \in 1 .. N + n /\ h.blocks[i].owner = o /\ IsLoop(h.blocks[i])
          BY <1>s
        <5>2. \A i : i \in LoopsOf(g, o) <=>
                i \in 1 .. N /\ g.blocks[i].owner = o /\ IsLoop(g.blocks[i])
          BY <1>s
        <5> QED
          BY <1>1, <4>2, <4>3, <5>1, <5>2
      <4>5. LoopsOf(h, o) \subseteq LoopsOf(g, o) /\ LoopsOf(g, o) \subseteq LoopsOf(h, o)
        BY <4>4
      <4> QED
        BY <4>5
    <3> QED
      BY <3>1 DEF LoopsSpan
  <2>2. CASE o = k
    <3>1. ASSUME NEW i \in 1 .. N, IsLoop(g.blocks[i]) PROVE g.blocks[i].owner # k
      <4>1. Spans(g.blocks[i], a)
        BY <1>n, <3>1 DEF LoopsSpan
      <4> QED
        BY <4>1 DEF Spans
    <3>2. LoopsOf(h, k) \subseteq N + 1 .. N + n
      <4>1. \A l \in 1 .. n : N + l \in N + 1 .. N + n
        BY <1>n
      <4>2. \A i \in 1 .. N : ~ (h.blocks[i].owner = k /\ IsLoop(h.blocks[i]))
        BY <1>1, <3>1
      <4> QED
        BY <1>3, <1>s, <4>1, <4>2
    <3>3. IsFiniteSet(N + 1 .. N + n) /\ Cardinality(N + 1 .. N + n) = n
      <4>1. N + 1 \in Int /\ N + n \in Int
        BY <1>n
      <4>2. /\ IsFiniteSet(N + 1 .. N + n)
            /\ Cardinality(N + 1 .. N + n) =
                 IF N + 1 > N + n THEN 0 ELSE N + n - (N + 1) + 1
        BY <4>1, FS_Interval
      <4>3. (IF N + 1 > N + n THEN 0 ELSE N + n - (N + 1) + 1) = n
        BY <1>n
      <4> QED
        BY <4>2, <4>3
    <3>4. Cardinality(LoopsOf(h, k)) <= n /\ Cardinality(LoopsOf(h, k)) \in Nat
      BY <3>2, <3>3, FS_Subset, FS_CardinalityType
    <3> QED
      BY <1>n, <2>2, <3>4, ReplayGraphAssumption
  <2> QED
    BY <2>1, <2>2
<1> QED
  BY <1>4, <1>5 DEF LoopsSpan, h

LEMMA LoopStart == Init => LoopInv
<1> SUFFICES ASSUME Init PROVE LoopInv
  OBVIOUS
<1>1. graph = EmptyGraph /\ archive = <<>> /\ pc = "rectify"
  BY DEF Init
<1>2. Len(graph.blocks) = 0 /\ 1 .. 0 = {}
  BY <1>1 DEF EmptyGraph
<1>3. \A k : LoopsOf(graph, k) = {}
  BY <1>2 DEF LoopsOf
<1>4. Cardinality({}) = 0
  BY FS_EmptySet
<1>5. LoopsSpan(graph, archive)
  <2>1. \A k : Cardinality(LoopsOf(graph, k)) = 0
    BY <1>3, <1>4
  <2>2. 0 <= MaxLoopEdges
    BY ReplayGraphAssumption
  <2>3. \A i \in 1 .. Len(graph.blocks) : FALSE
    BY <1>2
  <2> QED
    BY <2>1, <2>2, <2>3 DEF LoopsSpan
<1> QED
  BY <1>1, <1>5 DEF LoopInv

LEMMA LoopInvStep == Basic /\ VoPlace /\ BuildInv /\ LoopInv /\ [Next]_vars => LoopInv'
<1> SUFFICES ASSUME Basic, VoPlace, BuildInv, LoopInv, [Next]_vars PROVE LoopInv'
  OBVIOUS
<1>0. /\ Moves /\ Arrows /\ input' = input /\ graph \in Graphs /\ archive \in Seq(Keyframes)
      /\ OrderOf(input) \in Seq(Keyframes) /\ Distinct(OrderOf(input)) /\ cursor \in Nat
  BY StepMoves, StepArrows, InputTyped DEF Moves, Basic, Listing
<1>d. DOMAIN OrderOf(input) \subseteq Nat
  BY <1>0, MembersOf
<1>1. CASE MoveLoops
  <2>1. /\ At("loops") /\ pc = "loops" /\ pc' = pc /\ cursor' = cursor + 1
        /\ archive' = Append(archive, Item)
    BY <1>1 DEF MoveLoops, At
  <2>2. cursor \in DOMAIN OrderOf(input) /\ Item = OrderOf(input)[cursor] /\ Item \in Keyframes
    BY <2>1, Visited DEF Basic
  <2>3. \A i \in 1 .. Len(archive) : \E c \in DOMAIN OrderOf(input) :
          c < cursor /\ archive[i] = OrderOf(input)[c]
    BY <2>1 DEF LoopInv
  <2>4. \A i \in 1 .. Len(archive) : archive[i] # Item
    BY <1>0, <1>d, <2>2, <2>3 DEF Distinct
  <2>5. PICK n \in 0 .. MaxLoopEdges :
          \E loops \in [1 .. n -> {k \in Candidates : HasKeyframe(graph, k)}] :
             graph' = AddLoopEdges(graph, loops, Item)
    BY <1>1 DEF MoveLoops
  <2>6. PICK loops \in [1 .. n -> {k \in Candidates : HasKeyframe(graph, k)}] :
          graph' = AddLoopEdges(graph, loops, Item)
    BY <2>5
  <2>7. loops \in [1 .. n -> Keyframes] /\ loops \in [1 .. n -> Candidates]
    BY LoopItem
  <2>8. ASSUME NEW l \in 1 .. n
        PROVE  \E i \in 1 .. Len(archive) :
                 Len(archive) - (i - 1) >= MinGap /\ loops[l] = archive[i]
    <3>1. loops[l] \in Candidates /\ DOMAIN archive = 1 .. Len(archive)
      BY <1>0, <2>7, MembersOf
    <3> QED
      BY <3>1 DEF Candidates
  <2>9. LoopsSpan(graph', archive')
    BY <1>0, <2>1, <2>2, <2>4, <2>6, <2>7, <2>8, LoopsGrow DEF LoopInv
  <2>10. ASSUME NEW i \in 1 .. Len(archive')
         PROVE  \E c \in DOMAIN OrderOf(input) : c < cursor' /\ archive'[i] = OrderOf(input)[c]
    <3>1. /\ Len(archive') = Len(archive) + 1 /\ Len(archive) \in Nat
          /\ archive'[Len(archive) + 1] = Item
          /\ \A j \in 1 .. Len(archive) : archive'[j] = archive[j]
      BY <1>0, <2>1, <2>2, Appended
    <3>2. CASE i \in 1 .. Len(archive)
      BY <1>0, <1>d, <2>1, <2>3, <3>1, <3>2
    <3>3. CASE i = Len(archive) + 1
      BY <1>0, <2>1, <2>2, <3>1, <3>3
    <3> QED
      BY <3>1, <3>2, <3>3
  <2> QED
    BY <1>0, <2>1, <2>9, <2>10 DEF LoopInv
<1>2. CASE ~MoveLoops
  <2>1. archive' = archive
    <3>1. archive' = archive \/ LoopFrame
      BY DEF Next, Step, Rectify, ChooseAnchor, CollectTimes, AnchorInertial, ImuInterval, VoFrame,
         BagEdge, LoopFrame, SonarFrame, DepthRecord, EndOfLoop, CheckObservability, Solve, Publish,
         Gate, Done, vars, runVars
    <3> QED
      BY <1>2, <3>1 DEF LoopFrame, MoveLoops, Advance
  <2>2. LoopsSpan(graph', archive)
    <3>1. CASE graph'.blocks = graph.blocks
      BY <3>1 DEF LoopInv, LoopsSpan, LoopsOf
    <3>2. CASE MoveMotion
      BY <3>2, LoopsKept DEF MoveMotion, MotionModels, LoopInv
    <3>3. CASE MoveAbsolute
      <4>1. PICK k \in Keyframes, m \in {"sonar_range", "depth"} :
              HasKeyframe(graph, k) /\ graph' = Absolute(graph, m, k)
        BY <3>3 DEF MoveAbsolute
      <4>2. m \in Models
        BY DEF Models
      <4>3. Grows(graph, graph', graph.poses, graph.inertial, Block(m, {PoseRef(k)}, k))
        BY <1>0, <4>1, <4>2, AbsoluteTyped
      <4>4. Block(m, {PoseRef(k)}, k).model # "loop_closure"
        BY DEF Block
      <4> QED
        BY <4>3, <4>4, LoopsKept DEF LoopInv
    <3> QED
      BY <1>2, <3>1, <3>2, <3>3, BlockMoves
  <2>3. pc' \in {"rectify", "anchor", "times", "prior", "edges"} =>
          pc \in {"rectify", "anchor", "times", "prior", "edges"}
    BY <1>0 DEF Arrows
  <2>4. pc' = "loops" => archive = <<>> \/ (pc = "loops" /\ cursor <= cursor')
    <3>1. pc' = "loops" => pc \in {"edges", "loops"}
      BY <1>0 DEF Arrows
    <3>2. pc' = "loops" /\ pc = "loops" => cursor' = cursor \/ cursor' = cursor + 1
      BY <1>0 DEF Moves
    <3> QED
      BY <1>0, <3>1, <3>2 DEF LoopInv
  <2>5. Len(<<>>) = 0 /\ 1 .. 0 = {}
    OBVIOUS
  <2>6. cursor' \in Nat
    BY <1>0, MovesTyped
  <2>7. ASSUME pc' = "loops", NEW i \in 1 .. Len(archive)
        PROVE  \E c \in DOMAIN OrderOf(input) : c < cursor' /\ archive[i] = OrderOf(input)[c]
    <3>1. pc = "loops" /\ cursor <= cursor'
      BY <2>4, <2>5, <2>7
    <3>2. PICK c \in DOMAIN OrderOf(input) : c < cursor /\ archive[i] = OrderOf(input)[c]
      BY <3>1 DEF LoopInv
    <3>3. c < cursor'
      BY <1>0, <1>d, <2>6, <3>1, <3>2
    <3> QED
      BY <3>2, <3>3
  <2> QED
    BY <1>0, <2>1, <2>2, <2>3, <2>7 DEF LoopInv
<1> QED
  BY <1>1, <1>2

LEMMA LoopsSpanAll ==
  ASSUME Basic, LoopInv
  PROVE  LoopEdgesSpan
<1>0. graph.blocks \in Seq(Blocks) /\ archive \in Seq(Keyframes)
  BY DEF Basic, Graphs
<1>1. /\ DOMAIN graph.blocks = 1 .. Len(graph.blocks)
      /\ ToSet(graph.blocks) = {graph.blocks[i] : i \in 1 .. Len(graph.blocks)}
      /\ DOMAIN archive = 1 .. Len(archive)
  BY <1>0, MembersOf
<1>2. \A k : {i \in Owned(k) : IsLoop(graph.blocks[i])} = LoopsOf(graph, k)
  BY <1>1 DEF Owned, LoopsOf
<1>3. LoopsSpan(graph, archive)
  BY DEF LoopInv
<1>4. \A b \in ToSet(graph.blocks) : IsLoop(b) => Spans(b, archive)
  BY <1>1, <1>3 DEF LoopsSpan
<1> QED
  BY <1>1, <1>2, <1>3, <1>4 DEF LoopEdgesSpan, LoopsSpan, Spans

-----------------------------------------------------------------------------
(* What is handed to the solver.                                            *)

ChainInv == BuildInv /\ TimeInv /\ PublishInv /\ StoreInv /\ LoopInv

LEMMA ChainInvariance == Spec => [](Basic /\ VoPlace /\ ChainInv)
<1>1. Init => Basic /\ VoPlace /\ ChainInv
  BY BasicStart, VoPlaceStart, BuildStart, TimeStart, PublishStart, StoreStart, LoopStart DEF ChainInv
<1>2. Basic /\ VoPlace /\ ChainInv /\ [Next]_vars => (Basic /\ VoPlace /\ ChainInv)'
  <2> SUFFICES ASSUME Basic, VoPlace, ChainInv, [Next]_vars PROVE (Basic /\ VoPlace /\ ChainInv)'
    OBVIOUS
  <2>1. BuildInv /\ TimeInv /\ PublishInv /\ StoreInv /\ LoopInv
    BY DEF ChainInv
  <2>2. Basic' /\ VoPlace'
    BY BasicStep, VoPlaceStep
  <2>3. BuildInv' /\ TimeInv' /\ PublishInv' /\ StoreInv' /\ LoopInv'
    BY <2>1, BuildStep, TimeStep, PublishStep, StoreStep, LoopInvStep
  <2> QED
    BY <2>2, <2>3 DEF ChainInv
<1> QED
  BY <1>1, <1>2, PTL DEF Spec

LEMMA ImuComplete ==
  ASSUME Basic, BuildInv, TimeInv, PublishInv
  PROVE  ImuTrajectoryComplete
<1> SUFFICES ASSUME Published, Imu
             PROVE  /\ PublishedIds = input.boundaries
                    /\ graph.inertial = input.boundaries
                    /\ \A s \in ToSet(trajectory) : s.time = "boundary"
  BY DEF ImuTrajectoryComplete
<1>1. graph.poses = input.boundaries /\ graph.inertial = input.boundaries
  BY DEF BuildInv, Built
<1>2. /\ input.boundaries \in Seq(Keyframes) /\ trajectory \in Seq(Snapshots)
      /\ Len(trajectory) = Len(input.boundaries)
      /\ \A i \in 1 .. Len(trajectory) :
           Tells(trajectory[i], graph, timeOf, Stereo, converged, health, input.boundaries[i])
  BY <1>1, InputTyped DEF Basic, PublishInv
<1>3. /\ DOMAIN trajectory = 1 .. Len(trajectory) /\ DOMAIN input.boundaries = 1 .. Len(trajectory)
      /\ ToSet(trajectory) = {trajectory[i] : i \in 1 .. Len(trajectory)}
      /\ Len(trajectory) \in Nat
      /\ \A i \in 1 .. Len(trajectory) : input.boundaries[i] \in Keyframes
  BY <1>2, MembersOf
<1>4. PublishedIds = input.boundaries
  <2> DEFINE ids == [i \in 1 .. Len(trajectory) |-> trajectory[i].keyframe]
  <2>1. PublishedIds = ids
    BY <1>3 DEF PublishedIds
  <2>2. \A i \in 1 .. Len(trajectory) : ids[i] = input.boundaries[i]
    BY <1>2 DEF Tells
  <2>3. ids \in Seq(Keyframes) /\ Len(ids) = Len(trajectory)
    <3>1. ids \in [1 .. Len(trajectory) -> Keyframes]
      <4>1. \A i \in 1 .. Len(trajectory) : trajectory[i].keyframe \in Keyframes
        BY <1>2, <1>3 DEF Tells
      <4> QED
        BY <4>1
    <3> HIDE DEF ids
    <3> QED
      BY <1>3, <3>1, LenProperties
  <2> HIDE DEF ids
  <2>4. ids = input.boundaries
    BY <1>2, <2>2, <2>3, SeqEqual
  <2> QED
    BY <2>1, <2>4
<1>5. ASSUME NEW i \in 1 .. Len(trajectory) PROVE trajectory[i].time = "boundary"
  <2>1. Contains(input.boundaries, input.boundaries[i]) /\ input.boundaries[i] \in Keyframes
    BY <1>3 DEF Contains
  <2>2. timeOf[input.boundaries[i]] = "boundary"
    BY <2>1 DEF TimeInv, Timed
  <2> QED
    BY <1>2, <2>2 DEF Tells
<1> QED
  BY <1>1, <1>3, <1>4, <1>5

\* The problem handed to Solve is well formed for any bag and any choice of
\* the frontends: no residual names a state that is not there, every free
\* block is constrained, an IMU chain is whole or the run fails, and loops
\* join keyframes that lie far apart.
THEOREM GraphSoundCorrect == Spec => []GraphSound
<1>1. ASSUME Basic, VoPlace, ChainInv PROVE GraphSound
  <2>1. NoUnknownParameter /\ GraphObservable
    BY <1>1 DEF ChainInv, BuildInv, Sound, NoUnknownParameter, GraphObservable
  <2>2. ImuTrajectoryComplete
    BY <1>1, ImuComplete DEF ChainInv
  <2>3. LoopEdgesSpan
    BY <1>1, LoopsSpanAll DEF ChainInv
  <2> QED
    BY <2>1, <2>2, <2>3 DEF GraphSound
<1> QED
  BY <1>1, ChainInvariance, PTL

-----------------------------------------------------------------------------
(* Status and time.                                                         *)

\* No frame is processed twice.
SeenOnce ==
  \A i, j \in 1 .. Len(outcomes) : outcomes[i].keyframe = outcomes[j].keyframe => i = j

LEMMA SeenOnceStart == Init => SeenOnce
<1>1. Init => outcomes = <<>>
  BY DEF Init, Vo!Init, Vo!VoInit
<1>2. Len(<<>>) = 0 /\ 1 .. 0 = {}
  OBVIOUS
<1> QED
  BY <1>1, <1>2 DEF SeenOnce

\* Only the VO pass changes what is known of the frames.
LEMMA FramesKept ==
  ASSUME [Next]_vars, ~VoFrame
  PROVE  UNCHANGED voVars /\ outcomes' = outcomes
BY DEF Next, Step, Rectify, ChooseAnchor, CollectTimes, AnchorInertial, ImuInterval, BagEdge,
   LoopFrame, SonarFrame, DepthRecord, EndOfLoop, CheckObservability, Solve, Publish, Gate, Done,
   vars, voVars

LEMMA OutcomesGrow ==
  ASSUME VP!IInv, NEW k \in Keyframes, NEW t \in BOOLEAN, outcomes' = Append(outcomes, Outcome(k, t))
  PROVE  /\ Len(outcomes) \in Nat /\ Len(outcomes') = Len(outcomes) + 1
         /\ outcomes'[Len(outcomes) + 1] = Outcome(k, t)
         /\ \A i \in 1 .. Len(outcomes) : outcomes'[i] = outcomes[i]
<1>1. Outcome(k, t) \in Outcomes
  BY DEF Outcome, Outcomes
<1>2. outcomes \in Seq(Outcomes)
  BY VoTyped DEF Outcomes
<1> QED
  BY <1>1, <1>2, Appended

LEMMA SeenOnceStep == Basic /\ VoPlace /\ SeenOnce /\ [Next]_vars => SeenOnce'
<1> SUFFICES ASSUME Basic, VoPlace, SeenOnce, [Next]_vars PROVE SeenOnce'
  OBVIOUS
<1>1. CASE outcomes' = outcomes
  BY <1>1 DEF SeenOnce
<1>2. CASE VoFrame /\ outcomes' # outcomes
  <2>1. PICK k \in Keyframes, t \in BOOLEAN :
          /\ outcomes' = Append(outcomes, Outcome(k, t))
          /\ \A i \in 1 .. Len(outcomes) : outcomes[i].keyframe # k
    BY <1>2, FrameEffect DEF FrameFails, FrameFirst, FrameTracks, voVars
  <2>2. PICK n \in Nat :
          /\ n = Len(outcomes) /\ Len(outcomes') = n + 1 /\ outcomes'[n + 1].keyframe = k
          /\ \A i \in 1 .. n : outcomes'[i] = outcomes[i]
    BY <2>1, OutcomesGrow DEF Outcome, VoPlace
  <2>3. \A i \in 1 .. n + 1 : i \in 1 .. n \/ i = n + 1
    OBVIOUS
  <2> QED
    BY <2>1, <2>2, <2>3 DEF SeenOnce
<1> QED
  BY <1>1, <1>2, FramesKept

\* The failures up to a frame are the length of the failed run that ends at it.
LEMMA FailuresAre ==
  ASSUME NEW j \in Nat, NEW i \in 0 .. j, VP!FailedRun(i, j), i > 0 => outcomes[i].tracked
  PROVE  FailuresUpTo(j) = j - i
<1> DEFINE Run(n) == /\ \A m \in j - n + 1 .. j : ~outcomes[m].tracked
                     /\ n = j \/ outcomes[j - n].tracked
<1>1. \A m \in i + 1 .. j : ~outcomes[m].tracked
  BY DEF VP!FailedRun
<1>2. j - i \in 0 .. j /\ Run(j - i)
  <2>1. j - (j - i) = i /\ j - i \in 0 .. j
    OBVIOUS
  <2>2. i = 0 \/ outcomes[i].tracked
    OBVIOUS
  <2>3. i = 0 => j - i = j
    OBVIOUS
  <2> QED
    BY <1>1, <2>1, <2>2, <2>3
<1>3. ASSUME NEW n \in 0 .. j, Run(n) PROVE n = j - i
  <2>1. CASE n < j - i
    <3>1. j - n \in i + 1 .. j /\ n # j
      BY <2>1
    <3> QED
      BY <1>1, <1>3, <3>1
  <2>2. CASE n > j - i
    <3>1. i \in j - n + 1 .. j /\ i > 0
      BY <2>2
    <3> QED
      BY <1>3, <3>1
  <2> QED
    BY <2>1, <2>2
<1>4. FailuresUpTo(j) = CHOOSE n \in 0 .. j : Run(n)
  BY DEF FailuresUpTo
<1> HIDE DEF Run
<1> QED
  BY <1>2, <1>3, <1>4

LEMMA StatusTold ==
  ASSUME VP!IInv, SeenOnce, ~Stereo => outcomes = <<>>, NEW k
  PROVE  StatusIn(Stereo, converged, health, k) = ExpectedStatus(k)
<1> DEFINE frames == {j \in DOMAIN outcomes : outcomes[j].keyframe = k}
           recorded == {i \in DOMAIN health : health[i].keyframe = k}
           j == CHOOSE x \in frames : TRUE
           failed == IF frames = {} THEN 0 ELSE FailuresUpTo(j)
           v == IF recorded = {} THEN "unspecified" ELSE health[CHOOSE i \in recorded : TRUE].status
<1>0. /\ outcomes \in Seq(Outcomes) /\ health \in Seq([keyframe : Keyframes, status : VP!Statuses])
      /\ VP!HealthTellsFailedRun
  BY VoTyped DEF Outcomes, VP!IInv
<1>1. DOMAIN outcomes = 1 .. Len(outcomes) /\ DOMAIN health = 1 .. Len(health) /\ Len(outcomes) \in Nat
  BY <1>0, MembersOf
<1>2. recorded = frames
  <2>1. /\ DOMAIN health = DOMAIN outcomes
        /\ \A i \in DOMAIN outcomes : health[i].keyframe = outcomes[i].keyframe
    BY <1>0, <1>1 DEF VP!HealthTellsFailedRun
  <2> QED
    BY <2>1
<1>3. ExpectedStatus(k) =
        IF failed >= MaxFailures THEN "lost"
        ELSE IF failed > 0 \/ ~converged THEN "degraded"
        ELSE "tracking"
  BY DEF ExpectedStatus
<1>4. StatusIn(Stereo, converged, health, k) =
        IF Stereo /\ v = "unavailable" THEN "lost"
        ELSE IF ~converged \/ (Stereo /\ v = "suspect") THEN "degraded"
        ELSE "tracking"
  BY DEF StatusIn
<1>5. CASE frames = {}
  <2>1. failed = 0 /\ v = "unspecified"
    BY <1>2, <1>5
  <2>2. ~ (0 >= MaxFailures) /\ ~ (0 > 0)
    BY ReplayGraphAssumption
  <2> HIDE DEF failed, v
  <2> QED
    BY <1>3, <1>4, <2>1, <2>2
<1>6. CASE frames # {}
  <2>1. j \in frames
    BY <1>6
  <2>2. j \in 1 .. Len(outcomes) /\ Stereo
    <3>1. DOMAIN <<>> = {}
      OBVIOUS
    <3> QED
      BY <1>1, <2>1, <3>1
  <2>3. (CHOOSE i \in recorded : TRUE) = j
    <3> HIDE DEF frames, recorded
    <3> QED
      BY <1>2
  <2>4. failed = FailuresUpTo(j) /\ v = health[j].status
    <3> HIDE DEF frames, recorded, j
    <3> QED
      BY <1>2, <1>6, <2>3
  <2> HIDE DEF failed, v, frames, recorded, j
  <2>5. PICK i \in 0 .. j :
          /\ VP!FailedRun(i, j) /\ (i > 0 => outcomes[i].tracked)
          /\ health[j] = [keyframe |-> outcomes[j].keyframe, status |-> VP!StatusFor(j - i)]
    BY <1>0, <2>2 DEF VP!HealthTellsFailedRun
  <2>6. j \in Nat
    BY <1>1, <2>2
  <2>7. failed = j - i
    BY <2>4, <2>5, <2>6, FailuresAre
  <2>8. v = VP!StatusFor(failed)
    BY <2>4, <2>5, <2>7
  <2>9. failed \in Nat
    BY <2>6, <2>7
  <2>10. CASE failed >= MaxFailures
    BY <1>3, <1>4, <2>2, <2>8, <2>10 DEF VP!StatusFor
  <2>11. CASE ~ (failed >= MaxFailures) /\ failed > 0
    BY <1>3, <1>4, <2>2, <2>8, <2>11 DEF VP!StatusFor
  <2>12. CASE ~ (failed >= MaxFailures) /\ ~ (failed > 0)
    BY <1>3, <1>4, <2>2, <2>8, <2>12 DEF VP!StatusFor
  <2> QED
    BY <2>10, <2>11, <2>12
<1> QED
  BY <1>5, <1>6

\* Each snapshot of the trajectory tells of one pose of the graph.
LEMMA SnapshotOf ==
  ASSUME Basic, PublishInv, NEW s \in ToSet(trajectory)
  PROVE  /\ s.keyframe \in Keyframes
         /\ Tells(s, graph, timeOf, Stereo, converged, health, s.keyframe)
         /\ pc \in {"publish", "gate"} \/ Published
<1>1. trajectory \in Seq(Snapshots) /\ graph.poses \in Seq(Keyframes)
  BY DEF Basic, Graphs
<1>2. PICK i \in 1 .. Len(trajectory) : s = trajectory[i]
  BY <1>1, MembersOf
<1>3. Len(trajectory) \in Nat /\ Len(graph.poses) \in Nat /\ Len(trajectory) <= Len(graph.poses)
  BY <1>1, LenProperties DEF PublishInv
<1>4. i \in 1 .. Len(graph.poses)
  BY <1>3
<1>5. graph.poses[i] \in Keyframes
  BY <1>1, <1>4, ElementOfSeq
<1>6. Tells(s, graph, timeOf, Stereo, converged, health, graph.poses[i])
  BY <1>2 DEF PublishInv
<1>7. s.keyframe = graph.poses[i]
  BY <1>6 DEF Tells
<1>8. trajectory # <<>>
  <2>1. Len(<<>>) = 0 /\ 1 .. 0 = {}
    OBVIOUS
  <2> QED
    BY <1>2, <2>1
<1> QED
  BY <1>5, <1>6, <1>7, <1>8 DEF PublishInv

LEMMA StatusTrue ==
  ASSUME Basic, VoPlace, PublishInv, SeenOnce
  PROVE  StatusOfItsOwnFrame
<1> SUFFICES ASSUME NEW s \in ToSet(trajectory) PROVE s.status = ExpectedStatus(s.keyframe)
  BY DEF StatusOfItsOwnFrame
<1>1. s.status = StatusIn(Stereo, converged, health, s.keyframe)
  BY SnapshotOf DEF Tells
<1>2. VP!IInv /\ (~Stereo => outcomes = <<>>)
  BY DEF VoPlace
<1> QED
  BY <1>1, <1>2, StatusTold

LEMMA TimesTrue ==
  ASSUME Basic, TimeInv, PublishInv
  PROVE  TimesFromBestSource
<1> SUFFICES ASSUME ~Imu, NEW s \in ToSet(trajectory)
             PROVE  LET k == s.keyframe
                        byCamera == input.cameras /\ k \in Seen("left")
                        byTruth  == Contains(input.references, k)
                        byDepth  == \E e \in Of("depth") : e.source = k
                        byEdge   == \E e \in Of("relative_pose") : e.to = k
                    IN s.time = CASE byCamera -> "camera"
                                  [] ~byCamera /\ byTruth -> "reference"
                                  [] ~byCamera /\ ~byTruth /\ byDepth -> "depth_log"
                                  [] ~byCamera /\ ~byTruth /\ ~byDepth /\ byEdge -> "edge_log"
                                  [] OTHER -> "none"
  BY DEF TimesFromBestSource
<1> DEFINE k == s.keyframe
           byCamera == input.cameras /\ k \in Seen("left")
           byTruth  == Contains(input.references, k)
           byDepth  == \E e \in Of("depth") : e.source = k
           byEdge   == \E e \in Of("relative_pose") : e.to = k
<1>1. k \in Keyframes /\ s.time = timeOf[k] /\ Timed
  BY SnapshotOf DEF Tells, Timed
<1>2. timeOf[k] = BestSource(input, k)
  BY <1>1 DEF TimeInv
<1>3. byTruth <=> k \in ToSet(input.references)
  <2>1. input.references \in Seq(Keyframes \cup {NoKeyframe})
    BY InputTyped DEF Basic, InputRecords
  <2>2. ToSet(input.references) = {input.references[i] : i \in 1 .. Len(input.references)}
    BY <2>1, MembersOf
  <2> QED
    BY <2>2 DEF Contains
<1>4. /\ Seen("left") = SeenIn(input, "left")
      /\ Of("depth") = EvidenceIn(input, "depth")
      /\ Of("relative_pose") = EvidenceIn(input, "relative_pose")
  BY DEF Seen, SeenIn, Of, EvidenceIn
<1>5. BestSource(input, k) =
        IF byCamera THEN "camera" ELSE IF byTruth THEN "reference"
        ELSE IF byDepth THEN "depth_log" ELSE IF byEdge THEN "edge_log" ELSE "none"
  BY <1>3, <1>4 DEF BestSource
<1> HIDE DEF byCamera, byTruth, byDepth, byEdge
<1>6. s.time = CASE byCamera -> "camera"
                 [] ~byCamera /\ byTruth -> "reference"
                 [] ~byCamera /\ ~byTruth /\ byDepth -> "depth_log"
                 [] ~byCamera /\ ~byTruth /\ ~byDepth /\ byEdge -> "edge_log"
                 [] OTHER -> "none"
  BY <1>1, <1>2, <1>5
<1> QED
  BY <1>6 DEF byCamera, byTruth, byDepth, byEdge

-----------------------------------------------------------------------------
(* Absolute factors.                                                        *)

ModelsOf(g, m, k) ==
  {i \in 1 .. Len(g.blocks) : g.blocks[i].owner = k /\ g.blocks[i].model = m}

Counted(g, m, k) == Cardinality(ModelsOf(g, m, k))

Fused(g, in, k) == k \in ToSet(g.poses) /\ ~ (k < in.warmup)

\* The records that name a keyframe, up to a place of the bag.
NamedIn(in, k, n) ==
  {i \in DOMAIN in.evidence :
     i <= n /\ in.evidence[i].kind = "depth" /\ in.evidence[i].source = k}
HeardIn(in, k, n) == {i \in DOMAIN in.sonar : i <= n /\ in.sonar[i] = k}

DepthUpTo(g, in, n) ==
  \A k \in Keyframes :
    Counted(g, "depth", k) = IF Fused(g, in, k) THEN Cardinality(NamedIn(in, k, n)) ELSE 0
SonarUpTo(g, in, n) ==
  \A k \in Keyframes :
    Counted(g, "sonar_range", k) <= IF Fused(g, in, k) THEN Cardinality(HeardIn(in, k, n)) ELSE 0

BeforeSonar == {"rectify", "anchor", "times", "prior", "edges", "loops"}
AfterDepth == {"check", "solve", "publish", "gate"}

FactorInv ==
  /\ pc \in BeforeSonar => SonarUpTo(graph, input, 0)
  /\ pc = "sonar" => SonarUpTo(graph, input, cursor - 1)
  /\ pc = "depth" \/ pc \in AfterDepth \/ Published => SonarUpTo(graph, input, Len(input.sonar))
  /\ pc \in BeforeSonar \cup {"sonar"} => DepthUpTo(graph, input, 0)
  /\ pc = "depth" => DepthUpTo(graph, input, cursor - 1)
  /\ pc \in AfterDepth \/ Published => DepthUpTo(graph, input, Len(input.evidence))

LEMMA ModelsGrow ==
  ASSUME NEW g, NEW h, NEW p, NEW s, NEW b, Grows(g, h, p, s, b), NEW m, NEW k
  PROVE  /\ Counted(g, m, k) \in Nat
         /\ Counted(h, m, k) = IF b.owner = k /\ b.model = m THEN Counted(g, m, k) + 1
                               ELSE Counted(g, m, k)
<1>1. PICK N \in Nat :
        /\ N = Len(g.blocks) /\ Len(h.blocks) = N + 1
        /\ \A i \in 1 .. N : h.blocks[i] = g.blocks[i]
        /\ h.blocks[N + 1] = b
  BY GrowsBlocks
<1> DEFINE S == ModelsOf(g, m, k)  T == ModelsOf(h, m, k)
<1>2. /\ \A i : i \in S <=> i \in 1 .. N /\ g.blocks[i].owner = k /\ g.blocks[i].model = m
      /\ \A i : i \in T <=> i \in 1 .. N + 1 /\ h.blocks[i].owner = k /\ h.blocks[i].model = m
  BY <1>1 DEF ModelsOf
<1>3. IsFiniteSet(S)
  <2>1. IsFiniteSet(1 .. N) /\ S \subseteq 1 .. N
    BY <1>2, FS_Interval
  <2> QED
    BY <2>1, FS_Subset
<1>4. Cardinality(S) \in Nat
  BY <1>3, FS_CardinalityType
<1>5. N + 1 \notin S /\ N + 1 \in 1 .. N + 1 /\ N + 1 \notin 1 .. N
  BY <1>2
<1>6. \A i : i \in 1 .. N + 1 <=> i \in 1 .. N \/ i = N + 1
  OBVIOUS
<1> HIDE DEF S, T
<1>7. CASE b.owner = k /\ b.model = m
  <2>1. T = S \cup {N + 1}
    BY <1>1, <1>2, <1>6, <1>7
  <2>2. Cardinality(T) = Cardinality(S) + 1
    BY <1>3, <1>5, <2>1, FS_AddElement
  <2> QED
    BY <1>4, <1>7, <2>2 DEF Counted, S, T
<1>8. CASE ~ (b.owner = k /\ b.model = m)
  <2>1. T = S
    <3>1. \A i : i \in T <=> i \in S
      BY <1>1, <1>2, <1>6, <1>8
    <3>2. T \subseteq S /\ S \subseteq T
      BY <3>1
    <3> QED
      BY <3>2
  <2> QED
    BY <1>4, <1>8, <2>1 DEF Counted, S, T
<1> QED
  BY <1>7, <1>8

LEMMA ModelsFinite ==
  ASSUME NEW g \in Graphs, NEW m, NEW k
  PROVE  Counted(g, m, k) \in Nat
<1>1. PICK N \in Nat : N = Len(g.blocks)
  BY RowsSum
<1>2. ModelsOf(g, m, k) \subseteq 1 .. N
  BY <1>1 DEF ModelsOf
<1>3. IsFiniteSet(1 .. N)
  BY FS_Interval
<1> QED
  BY <1>2, <1>3, FS_Subset, FS_CardinalityType DEF Counted

\* Records are counted one at a time.
LEMMA RecordsGrow ==
  ASSUME NEW in \in Inputs, NEW k, NEW n \in Nat
  PROVE  /\ n + 1 \in DOMAIN in.evidence =>
              Cardinality(NamedIn(in, k, n + 1)) =
                IF in.evidence[n + 1].kind = "depth" /\ in.evidence[n + 1].source = k
                THEN Cardinality(NamedIn(in, k, n)) + 1 ELSE Cardinality(NamedIn(in, k, n))
         /\ n + 1 \in DOMAIN in.sonar =>
              Cardinality(HeardIn(in, k, n + 1)) =
                IF in.sonar[n + 1] = k
                THEN Cardinality(HeardIn(in, k, n)) + 1 ELSE Cardinality(HeardIn(in, k, n))
         /\ Cardinality(NamedIn(in, k, n)) \in Nat /\ Cardinality(HeardIn(in, k, n)) \in Nat
<1>1. PICK E \in Nat, S \in Nat : DOMAIN in.evidence = 1 .. E /\ DOMAIN in.sonar = 1 .. S
  BY InputTyped, MembersOf
<1>2. IsFiniteSet(1 .. E) /\ IsFiniteSet(1 .. S)
  BY FS_Interval
<1>3. IsFiniteSet(NamedIn(in, k, n)) /\ IsFiniteSet(HeardIn(in, k, n))
  <2>1. NamedIn(in, k, n) \subseteq 1 .. E /\ HeardIn(in, k, n) \subseteq 1 .. S
    BY <1>1 DEF NamedIn, HeardIn
  <2> QED
    BY <1>2, <2>1, FS_Subset
<1>4. Cardinality(NamedIn(in, k, n)) \in Nat /\ Cardinality(HeardIn(in, k, n)) \in Nat
  BY <1>3, FS_CardinalityType
<1>5. \A i \in Nat : i <= n + 1 <=> i <= n \/ i = n + 1
  OBVIOUS
<1>6. n + 1 \notin NamedIn(in, k, n) /\ n + 1 \notin HeardIn(in, k, n)
  BY DEF NamedIn, HeardIn
<1>7. ASSUME n + 1 \in DOMAIN in.evidence
      PROVE  Cardinality(NamedIn(in, k, n + 1)) =
                IF in.evidence[n + 1].kind = "depth" /\ in.evidence[n + 1].source = k
                THEN Cardinality(NamedIn(in, k, n)) + 1 ELSE Cardinality(NamedIn(in, k, n))
  <2>1. CASE in.evidence[n + 1].kind = "depth" /\ in.evidence[n + 1].source = k
    <3>1. NamedIn(in, k, n + 1) = NamedIn(in, k, n) \cup {n + 1}
      BY <1>1, <1>5, <1>7, <2>1 DEF NamedIn
    <3>2. Cardinality(NamedIn(in, k, n + 1)) = Cardinality(NamedIn(in, k, n)) + 1
      BY <1>3, <1>6, <3>1, FS_AddElement
    <3> QED
      BY <2>1, <3>2
  <2>2. CASE ~ (in.evidence[n + 1].kind = "depth" /\ in.evidence[n + 1].source = k)
    <3>1. NamedIn(in, k, n + 1) = NamedIn(in, k, n)
      BY <1>1, <1>5, <2>2 DEF NamedIn
    <3> QED
      BY <2>2, <3>1
  <2> QED
    BY <2>1, <2>2
<1>8. ASSUME n + 1 \in DOMAIN in.sonar
      PROVE  Cardinality(HeardIn(in, k, n + 1)) =
                IF in.sonar[n + 1] = k
                THEN Cardinality(HeardIn(in, k, n)) + 1 ELSE Cardinality(HeardIn(in, k, n))
  <2>1. CASE in.sonar[n + 1] = k
    <3>1. HeardIn(in, k, n + 1) = HeardIn(in, k, n) \cup {n + 1}
      BY <1>1, <1>5, <1>8, <2>1 DEF HeardIn
    <3>2. Cardinality(HeardIn(in, k, n + 1)) = Cardinality(HeardIn(in, k, n)) + 1
      BY <1>3, <1>6, <3>1, FS_AddElement
    <3> QED
      BY <2>1, <3>2
  <2>2. CASE in.sonar[n + 1] # k
    <3>1. HeardIn(in, k, n + 1) = HeardIn(in, k, n)
      BY <1>1, <1>5, <2>2 DEF HeardIn
    <3> QED
      BY <2>2, <3>1
  <2> QED
    BY <2>1, <2>2
<1> QED
  BY <1>4, <1>7, <1>8

LEMMA RecordsEnds ==
  ASSUME NEW in \in Inputs, NEW k
  PROVE  /\ Cardinality(NamedIn(in, k, 0)) = 0 /\ Cardinality(HeardIn(in, k, 0)) = 0
         /\ \A n \in Nat : n >= Len(in.evidence) => NamedIn(in, k, n) = NamedIn(in, k, Len(in.evidence))
         /\ \A n \in Nat : n >= Len(in.sonar) => HeardIn(in, k, n) = HeardIn(in, k, Len(in.sonar))
         /\ NamedIn(in, k, Len(in.evidence)) =
              {i \in DOMAIN in.evidence : in.evidence[i].kind = "depth" /\ in.evidence[i].source = k}
         /\ HeardIn(in, k, Len(in.sonar)) = {i \in DOMAIN in.sonar : in.sonar[i] = k}
<1>1. /\ DOMAIN in.evidence = 1 .. Len(in.evidence) /\ DOMAIN in.sonar = 1 .. Len(in.sonar)
      /\ Len(in.evidence) \in Nat /\ Len(in.sonar) \in Nat
  BY InputTyped, MembersOf
<1>2. NamedIn(in, k, 0) = {} /\ HeardIn(in, k, 0) = {}
  BY <1>1 DEF NamedIn, HeardIn
<1>3. Cardinality({}) = 0
  BY FS_EmptySet
<1>4. ASSUME NEW n \in Nat, n >= Len(in.evidence)
      PROVE  NamedIn(in, k, n) =
              {i \in DOMAIN in.evidence : in.evidence[i].kind = "depth" /\ in.evidence[i].source = k}
  BY <1>1, <1>4 DEF NamedIn
<1>5. ASSUME NEW n \in Nat, n >= Len(in.sonar)
      PROVE  HeardIn(in, k, n) = {i \in DOMAIN in.sonar : in.sonar[i] = k}
  BY <1>1, <1>5 DEF HeardIn
<1>6. Len(in.evidence) >= Len(in.evidence) /\ Len(in.sonar) >= Len(in.sonar)
  BY <1>1
<1> QED
  BY <1>1, <1>2, <1>3, <1>4, <1>5, <1>6

LEMMA LoopsCountNothing ==
  ASSUME NEW g \in Graphs, NEW n \in Nat, NEW loops \in [1 .. n -> Keyframes],
         NEW to \in Keyframes, NEW m, m # "loop_closure", NEW k
  PROVE  Counted(AddLoopEdges(g, loops, to), m, k) = Counted(g, m, k)
<1> DEFINE h == AddLoopEdges(g, loops, to)  S == ModelsOf(g, m, k)  T == ModelsOf(h, m, k)
<1>1. PICK N \in Nat :
        /\ N = Len(g.blocks) /\ Len(h.blocks) = N + n
        /\ \A i \in 1 .. N : h.blocks[i] = g.blocks[i]
        /\ \A i \in 1 .. n : h.blocks[N + i] = LoopBlock(loops[i], to)
  <2>1. Len(g.blocks) \in Nat
    BY RowsSum
  <2> QED
    BY <2>1, LoopsAdded
<1> HIDE DEF h
<1>2. /\ \A i : i \in S <=> i \in 1 .. N /\ g.blocks[i].owner = k /\ g.blocks[i].model = m
      /\ \A i : i \in T <=> i \in 1 .. N + n /\ h.blocks[i].owner = k /\ h.blocks[i].model = m
  BY <1>1 DEF ModelsOf
<1>3. \A x : LoopBlock(x, to).model # m
  BY DEF LoopBlock, Block
<1>4. ASSUME NEW i \in 1 .. N + n, h.blocks[i].model = m PROVE i \in 1 .. N
  <2>1. CASE i \notin 1 .. N
    <3>1. i - N \in 1 .. n /\ N + (i - N) = i
      BY <2>1
    <3> QED
      BY <1>1, <1>3, <1>4, <3>1
  <2> QED
    BY <2>1
<1>5. \A i \in 1 .. N : i \in 1 .. N + n
  OBVIOUS
<1> HIDE DEF S, T
<1>6. \A i : i \in T <=> i \in S
  BY <1>1, <1>2, <1>4, <1>5
<1>7. T = S
  <2>1. T \subseteq S /\ S \subseteq T
    BY <1>6
  <2> QED
    BY <2>1
<1> QED
  BY <1>7 DEF Counted, S, T, h

LEMMA NoFactorAdded ==
  ASSUME Basic, VoPlace, BuildInv, [Next]_vars, ~SonarFrame, ~DepthRecord,
         NEW m \in {"depth", "sonar_range"}, NEW k
  PROVE  Counted(graph', m, k) = Counted(graph, m, k)
<1>1. CASE graph'.blocks = graph.blocks
  BY <1>1 DEF Counted, ModelsOf
<1>2. CASE MoveMotion
  <2>1. PICK p, s, b : Grows(graph, graph', p, s, b) /\ b.model \in MotionModels
    BY <1>2 DEF MoveMotion
  <2>2. b.model # m
    BY <2>1 DEF MotionModels
  <2> QED
    BY <2>1, <2>2, ModelsGrow
<1>3. CASE MoveLoops
  <2>1. Item \in Keyframes
    BY <1>3, Visited DEF MoveLoops, Basic
  <2>2. PICK n \in 0 .. MaxLoopEdges :
          \E loops \in [1 .. n -> {l \in Candidates : HasKeyframe(graph, l)}] :
             graph' = AddLoopEdges(graph, loops, Item)
    BY <1>3 DEF MoveLoops
  <2>3. PICK loops \in [1 .. n -> {l \in Candidates : HasKeyframe(graph, l)}] :
          graph' = AddLoopEdges(graph, loops, Item)
    BY <2>2
  <2>4. n \in Nat /\ loops \in [1 .. n -> Keyframes] /\ graph \in Graphs
    BY LoopItem DEF Basic
  <2>5. m # "loop_closure"
    OBVIOUS
  <2> QED
    BY <2>1, <2>3, <2>4, <2>5, LoopsCountNothing
<1>4. CASE MoveAbsolute
  <2>1. pc \in {"sonar", "depth"}
    BY <1>4 DEF MoveAbsolute
  <2>2. graph' = graph
    BY <2>1 DEF Next, Step, Rectify, ChooseAnchor, CollectTimes, AnchorInertial, ImuInterval, VoFrame,
       BagEdge, LoopFrame, EndOfLoop, CheckObservability, Solve, Publish, Gate, Done, vars, At
  <2> QED
    BY <2>2
<1> QED
  BY <1>1, <1>2, <1>3, <1>4, BlockMoves

\* One record of the sonar loop or of the depth loop.
FactorFor(m, k) ==
  /\ Fused(graph, input, k)
  /\ Grows(graph, graph', graph.poses, graph.inertial, Block(m, {PoseRef(k)}, k))

LEMMA FactorFrame ==
  ASSUME Basic, SonarFrame \/ DepthRecord
  PROVE  /\ pc \in {"sonar", "depth"} /\ pc' = pc /\ cursor' = cursor + 1
         /\ SonarFrame => pc = "sonar" /\ cursor \in DOMAIN input.sonar
              /\ (graph' = graph \/ FactorFor("sonar_range", input.sonar[cursor]))
         /\ DepthRecord => pc = "depth" /\ cursor \in DOMAIN input.evidence
              /\ LET e == input.evidence[cursor] IN
                 IF e.kind = "depth" /\ Fused(graph, input, e.source)
                 THEN FactorFor("depth", e.source) ELSE graph' = graph
<1>0. graph \in Graphs /\ {"sonar_range", "depth"} \subseteq Models
  BY DEF Basic, Models
<1>1. CASE SonarFrame
  <2>1. /\ At("sonar") /\ pc = "sonar" /\ pc' = pc /\ cursor' = cursor + 1
        /\ \/ graph' = graph
           \/ /\ HasKeyframe(graph, Item) /\ ~InWarmup(Item)
              /\ graph' = Absolute(graph, "sonar_range", Item)
    BY <1>1 DEF SonarFrame, Advance, At
  <2>2. Item = input.sonar[cursor] /\ Item \in Keyframes /\ cursor \in DOMAIN input.sonar
    BY <2>1, Visited DEF Basic, At, Work
  <2>3. ~DepthRecord
    BY <2>1 DEF DepthRecord, At
  <2> QED
    BY <1>0, <2>1, <2>2, <2>3, AbsoluteTyped DEF FactorFor, Fused, HasKeyframe, InWarmup
<1>2. CASE DepthRecord
  <2>1. /\ At("depth") /\ pc = "depth" /\ pc' = pc /\ cursor' = cursor + 1
        /\ graph' = IF Item.kind = "depth" /\ HasKeyframe(graph, Item.source) /\ ~InWarmup(Item.source)
                    THEN Absolute(graph, "depth", Item.source) ELSE graph
    BY <1>2 DEF DepthRecord, Advance, At
  <2>2. Item = input.evidence[cursor] /\ cursor \in DOMAIN input.evidence
    BY <2>1, Visited DEF Basic, At, Work
  <2>3. ~SonarFrame
    BY <2>1 DEF SonarFrame, At
  <2>4. HasKeyframe(graph, Item.source) => Item.source \in Keyframes
    BY <1>0, FreeFacts DEF HasKeyframe
  <2>5. HasKeyframe(graph, Item.source) =>
          Grows(graph, Absolute(graph, "depth", Item.source), graph.poses, graph.inertial,
                Block("depth", {PoseRef(Item.source)}, Item.source))
    BY <1>0, <2>4, AbsoluteTyped
  <2> QED
    BY <2>1, <2>2, <2>3, <2>5 DEF FactorFor, Fused, HasKeyframe, InWarmup
<1> QED
  BY <1>1, <1>2

LEMMA FactorStart == Init => FactorInv
<1> SUFFICES ASSUME Init PROVE FactorInv
  OBVIOUS
<1>1. graph = EmptyGraph /\ pc = "rectify" /\ exitCode = -1 /\ input \in Inputs
  BY DEF Init
<1>2. \A m, k : Counted(graph, m, k) = 0
  <2>1. Len(graph.blocks) = 0 /\ 1 .. 0 = {}
    BY <1>1 DEF EmptyGraph
  <2>2. \A m, k : ModelsOf(graph, m, k) = {}
    BY <2>1 DEF ModelsOf
  <2>3. Cardinality({}) = 0
    BY FS_EmptySet
  <2> QED
    BY <2>2, <2>3 DEF Counted
<1>3. SonarUpTo(graph, input, 0) /\ DepthUpTo(graph, input, 0)
  <2>1. \A k : Cardinality(NamedIn(input, k, 0)) = 0 /\ Cardinality(HeardIn(input, k, 0)) = 0
    BY <1>1, RecordsEnds
  <2>2. 0 <= 0
    OBVIOUS
  <2> QED
    BY <1>2, <2>1, <2>2 DEF SonarUpTo, DepthUpTo
<1>4. ~Published
  BY <1>1 DEF Published
<1> QED
  BY <1>1, <1>3, <1>4 DEF FactorInv, AfterDepth, BeforeSonar

\* A step of another loop, or of none, leaves the counts of a stage alone.
LEMMA FactorKept ==
  ASSUME NEW g \in Graphs, NEW h \in Graphs, NEW in \in Inputs, NEW n \in Nat,
         \A m \in {"depth", "sonar_range"}, k \in Keyframes : Counted(h, m, k) = Counted(g, m, k),
         h.poses = g.poses \/ n = 0
  PROVE  /\ DepthUpTo(g, in, n) => DepthUpTo(h, in, n)
         /\ SonarUpTo(g, in, n) => SonarUpTo(h, in, n)
<1>1. CASE h.poses = g.poses
  BY <1>1 DEF DepthUpTo, SonarUpTo, Fused
<1>2. CASE n = 0
  <2>1. \A k : Cardinality(NamedIn(in, k, n)) = 0 /\ Cardinality(HeardIn(in, k, n)) = 0
    BY <1>2, RecordsEnds
  <2> QED
    BY <2>1 DEF DepthUpTo, SonarUpTo
<1> QED
  BY <1>1, <1>2

LEMMA FactorEnds ==
  ASSUME NEW g \in Graphs, NEW in \in Inputs, NEW n \in Nat
  PROVE  /\ n >= Len(in.evidence) /\ DepthUpTo(g, in, n) => DepthUpTo(g, in, Len(in.evidence))
         /\ n >= Len(in.sonar) /\ SonarUpTo(g, in, n) => SonarUpTo(g, in, Len(in.sonar))
<1>1. ASSUME n >= Len(in.evidence) PROVE \A k : NamedIn(in, k, n) = NamedIn(in, k, Len(in.evidence))
  BY <1>1, RecordsEnds
<1>2. ASSUME n >= Len(in.sonar) PROVE \A k : HeardIn(in, k, n) = HeardIn(in, k, Len(in.sonar))
  BY <1>2, RecordsEnds
<1> QED
  BY <1>1, <1>2 DEF DepthUpTo, SonarUpTo

LEMMA SonarCounted ==
  ASSUME Basic, VoPlace, BuildInv, FactorInv, SonarFrame
  PROVE  SonarUpTo(graph', input, cursor) /\ DepthUpTo(graph', input, 0)
<1>0. /\ pc = "sonar" /\ cursor \in DOMAIN input.sonar /\ cursor \in Nat \ {0}
      /\ graph' = graph \/ FactorFor("sonar_range", input.sonar[cursor])
      /\ input \in Inputs /\ graph \in Graphs
  BY FactorFrame DEF Basic
<1>1. SonarUpTo(graph, input, cursor - 1) /\ DepthUpTo(graph, input, 0)
  BY <1>0 DEF FactorInv, BeforeSonar
<1>2. cursor - 1 \in Nat /\ (cursor - 1) + 1 = cursor
  BY <1>0
<1>3. ASSUME NEW k \in Keyframes
      PROVE  /\ Cardinality(HeardIn(input, k, cursor)) =
                  IF input.sonar[cursor] = k THEN Cardinality(HeardIn(input, k, cursor - 1)) + 1
                  ELSE Cardinality(HeardIn(input, k, cursor - 1))
             /\ Cardinality(HeardIn(input, k, cursor - 1)) \in Nat
  <2>1. (cursor - 1) + 1 \in DOMAIN input.sonar =>
              Cardinality(HeardIn(input, k, (cursor - 1) + 1)) =
                IF input.sonar[(cursor - 1) + 1] = k
                THEN Cardinality(HeardIn(input, k, cursor - 1)) + 1
                ELSE Cardinality(HeardIn(input, k, cursor - 1))
    BY <1>0, <1>2, RecordsGrow
  <2>2. Cardinality(HeardIn(input, k, cursor - 1)) \in Nat
    BY <1>0, <1>2, RecordsGrow
  <2> QED
    BY <1>0, <1>2, <2>1, <2>2
<1>4. ASSUME NEW k \in Keyframes
      PROVE  /\ Counted(graph', "sonar_range", k) <=
                  IF Fused(graph', input, k) THEN Cardinality(HeardIn(input, k, cursor)) ELSE 0
             /\ Counted(graph', "depth", k) =
                  IF Fused(graph', input, k) THEN Cardinality(NamedIn(input, k, 0)) ELSE 0
  <2>0. /\ Counted(graph, "sonar_range", k) <=
             IF Fused(graph, input, k) THEN Cardinality(HeardIn(input, k, cursor - 1)) ELSE 0
        /\ Counted(graph, "depth", k) =
             IF Fused(graph, input, k) THEN Cardinality(NamedIn(input, k, 0)) ELSE 0
        /\ Counted(graph, "sonar_range", k) \in Nat
    BY <1>0, <1>1, ModelsFinite DEF SonarUpTo, DepthUpTo
  <2>1. CASE graph' = graph
    BY <1>3, <2>0, <2>1
  <2>2. CASE FactorFor("sonar_range", input.sonar[cursor])
    <3> DEFINE l == input.sonar[cursor]  b == Block("sonar_range", {PoseRef(l)}, l)
    <3>1. Fused(graph, input, l) /\ Grows(graph, graph', graph.poses, graph.inertial, b)
      BY <2>2 DEF FactorFor
    <3>2. b.owner = l /\ b.model = "sonar_range"
      BY DEF Block
    <3> HIDE DEF b
    <3>3. Fused(graph', input, k) <=> Fused(graph, input, k)
      BY <3>1 DEF Grows, Fused
    <3>4. Counted(graph', "depth", k) = Counted(graph, "depth", k)
      BY <3>1, <3>2, ModelsGrow
    <3>5. Counted(graph', "sonar_range", k) =
            IF l = k THEN Counted(graph, "sonar_range", k) + 1 ELSE Counted(graph, "sonar_range", k)
      BY <3>1, <3>2, ModelsGrow
    <3>6. CASE l = k
      BY <1>3, <2>0, <3>1, <3>3, <3>4, <3>5, <3>6
    <3>7. CASE l # k
      BY <1>3, <2>0, <3>3, <3>4, <3>5, <3>7
    <3> QED
      BY <3>6, <3>7
  <2> QED
    BY <1>0, <2>1, <2>2
<1> QED
  BY <1>4 DEF SonarUpTo, DepthUpTo

LEMMA DepthCounted ==
  ASSUME Basic, VoPlace, BuildInv, FactorInv, DepthRecord
  PROVE  DepthUpTo(graph', input, cursor) /\ SonarUpTo(graph', input, Len(input.sonar))
<1> DEFINE e == input.evidence[cursor]
<1>0. /\ pc = "depth" /\ cursor \in DOMAIN input.evidence /\ cursor \in Nat \ {0}
      /\ IF e.kind = "depth" /\ Fused(graph, input, e.source)
         THEN FactorFor("depth", e.source) ELSE graph' = graph
      /\ input \in Inputs /\ graph \in Graphs
  BY FactorFrame DEF Basic
<1>1. DepthUpTo(graph, input, cursor - 1) /\ SonarUpTo(graph, input, Len(input.sonar))
  BY <1>0 DEF FactorInv
<1>2. cursor - 1 \in Nat /\ (cursor - 1) + 1 = cursor
  BY <1>0
<1>3. ASSUME NEW k \in Keyframes
      PROVE  /\ Cardinality(NamedIn(input, k, cursor)) =
                  IF e.kind = "depth" /\ e.source = k
                  THEN Cardinality(NamedIn(input, k, cursor - 1)) + 1
                  ELSE Cardinality(NamedIn(input, k, cursor - 1))
             /\ Cardinality(NamedIn(input, k, cursor - 1)) \in Nat
  <2>1. (cursor - 1) + 1 \in DOMAIN input.evidence =>
              Cardinality(NamedIn(input, k, (cursor - 1) + 1)) =
                IF /\ input.evidence[(cursor - 1) + 1].kind = "depth"
                   /\ input.evidence[(cursor - 1) + 1].source = k
                THEN Cardinality(NamedIn(input, k, cursor - 1)) + 1
                ELSE Cardinality(NamedIn(input, k, cursor - 1))
    BY <1>0, <1>2, RecordsGrow
  <2>2. Cardinality(NamedIn(input, k, cursor - 1)) \in Nat
    BY <1>0, <1>2, RecordsGrow
  <2> QED
    BY <1>0, <1>2, <2>1, <2>2
<1> HIDE DEF e
<1>4. ASSUME NEW k \in Keyframes
      PROVE  /\ Counted(graph', "depth", k) =
                  IF Fused(graph', input, k) THEN Cardinality(NamedIn(input, k, cursor)) ELSE 0
             /\ Counted(graph', "sonar_range", k) <=
                  IF Fused(graph', input, k) THEN Cardinality(HeardIn(input, k, Len(input.sonar))) ELSE 0
  <2>0. /\ Counted(graph, "depth", k) =
             IF Fused(graph, input, k) THEN Cardinality(NamedIn(input, k, cursor - 1)) ELSE 0
        /\ Counted(graph, "sonar_range", k) <=
             IF Fused(graph, input, k) THEN Cardinality(HeardIn(input, k, Len(input.sonar))) ELSE 0
    BY <1>1 DEF SonarUpTo, DepthUpTo
  <2>1. CASE ~ (e.kind = "depth" /\ Fused(graph, input, e.source))
    <3>1. graph' = graph
      BY <1>0, <2>1
    <3> QED
      BY <1>3, <2>0, <2>1, <3>1
  <2>2. CASE e.kind = "depth" /\ Fused(graph, input, e.source)
    <3> DEFINE l == e.source  b == Block("depth", {PoseRef(l)}, l)
    <3>1. Fused(graph, input, l) /\ Grows(graph, graph', graph.poses, graph.inertial, b)
      BY <1>0, <2>2 DEF FactorFor
    <3>2. b.owner = l /\ b.model = "depth"
      BY DEF Block
    <3> HIDE DEF b
    <3>3. Fused(graph', input, k) <=> Fused(graph, input, k)
      BY <3>1 DEF Grows, Fused
    <3>4. Counted(graph', "sonar_range", k) = Counted(graph, "sonar_range", k)
      BY <3>1, <3>2, ModelsGrow
    <3>5. Counted(graph', "depth", k) =
            IF l = k THEN Counted(graph, "depth", k) + 1 ELSE Counted(graph, "depth", k)
      BY <3>1, <3>2, ModelsGrow
    <3>6. CASE l = k
      BY <1>3, <2>0, <2>2, <3>1, <3>3, <3>4, <3>5, <3>6
    <3>7. CASE l # k
      BY <1>3, <2>0, <3>3, <3>4, <3>5, <3>7
    <3> QED
      BY <3>6, <3>7
  <2> QED
    BY <2>1, <2>2
<1> QED
  BY <1>4 DEF SonarUpTo, DepthUpTo

LEMMA FactorStep == Basic /\ VoPlace /\ BuildInv /\ FactorInv /\ [Next]_vars => FactorInv'
<1> SUFFICES ASSUME Basic, VoPlace, BuildInv, FactorInv, [Next]_vars PROVE FactorInv'
  OBVIOUS
<1>0. /\ Moves /\ Arrows /\ input' = input /\ input \in Inputs /\ graph \in Graphs /\ graph' \in Graphs
      /\ cursor \in Nat \ {0}
  BY StepMoves, StepArrows, GraphTyped DEF Moves, Basic
<1>l. Len(input.evidence) \in Nat /\ Len(input.sonar) \in Nat /\ cursor - 1 \in Nat
  BY <1>0, InputTyped, LenProperties
<1>e. Published => pc = "exit"
  BY DEF Published, Basic
<1>1. CASE SonarFrame
  <2>1. pc' = "sonar" /\ cursor' = cursor + 1 /\ pc = "sonar" /\ exitCode' = exitCode
    BY <1>1, FactorFrame DEF SonarFrame, Advance
  <2>2. cursor' - 1 = cursor /\ ~Published'
    BY <1>0, <1>e, <2>1 DEF Published
  <2>3. SonarUpTo(graph', input, cursor) /\ DepthUpTo(graph', input, 0)
    BY <1>1, SonarCounted
  <2> QED
    BY <1>0, <2>1, <2>2, <2>3 DEF FactorInv, AfterDepth, BeforeSonar
<1>2. CASE DepthRecord
  <2>1. pc' = "depth" /\ cursor' = cursor + 1 /\ pc = "depth" /\ exitCode' = exitCode
    BY <1>2, FactorFrame DEF DepthRecord, Advance
  <2>2. cursor' - 1 = cursor /\ ~Published'
    BY <1>0, <1>e, <2>1 DEF Published
  <2>3. DepthUpTo(graph', input, cursor) /\ SonarUpTo(graph', input, Len(input.sonar))
    BY <1>2, DepthCounted
  <2> QED
    BY <1>0, <2>1, <2>2, <2>3 DEF FactorInv, AfterDepth, BeforeSonar
<1>3. CASE ~SonarFrame /\ ~DepthRecord
  <2>1. \A m \in {"depth", "sonar_range"}, k \in Keyframes :
          Counted(graph', m, k) = Counted(graph, m, k)
    BY <1>3, NoFactorAdded
  <2>2. pc \notin {"anchor", "prior", "edges"} => graph'.poses = graph.poses
    BY PosesStay
  <2>3. ASSUME NEW n \in Nat, n = 0 \/ pc \notin {"anchor", "prior", "edges"}
        PROVE  /\ DepthUpTo(graph, input, n) => DepthUpTo(graph', input, n)
               /\ SonarUpTo(graph, input, n) => SonarUpTo(graph', input, n)
    BY <1>0, <2>1, <2>2, <2>3, FactorKept
  <2>4. pc \in {"sonar", "depth"} /\ pc' = pc => cursor' = cursor
    <3>1. pc \in {"sonar", "depth"} => UNCHANGED vars \/ EndOfLoop
      BY <1>3 DEF Next, Step, Rectify, ChooseAnchor, CollectTimes, AnchorInertial, ImuInterval, VoFrame,
         BagEdge, LoopFrame, CheckObservability, Solve, Publish, Gate, Done, At
    <3>2. pc \in {"sonar", "depth"} /\ EndOfLoop => pc' # pc
      BY LoopEnds DEF EndOfLoop, Fail
    <3> QED
      BY <3>1, <3>2 DEF vars
  <2>5. pc' # pc /\ pc = "sonar" => cursor - 1 >= Len(input.sonar)
    <3>1. ASSUME pc = "sonar", pc' # pc PROVE cursor > Len(input.sonar)
      <4>1. EndOfLoop /\ Work(pc) = input.sonar
        BY <1>0, <3>1 DEF Arrows, Work
      <4> QED
        BY <4>1 DEF EndOfLoop
    <3> QED
      BY <1>0, <1>l, <3>1
  <2>6. pc' # pc /\ pc = "depth" => cursor - 1 >= Len(input.evidence)
    <3>1. ASSUME pc = "depth", pc' # pc PROVE cursor > Len(input.evidence)
      <4>1. EndOfLoop /\ Work(pc) = input.evidence
        BY <1>0, <3>1 DEF Arrows, Work
      <4> QED
        BY <4>1 DEF EndOfLoop
    <3> QED
      BY <1>0, <1>l, <3>1
  <2>7. Published' => Published \/ pc = "gate"
    BY BuiltSteps DEF Built
  <2>8. pc' # pc /\ pc' # "exit" => cursor' - 1 = 0
    BY <1>0 DEF Moves
  <2>9. pc' \in BeforeSonar => SonarUpTo(graph', input, 0)
    <3>1. pc' \in BeforeSonar => pc \in BeforeSonar
      BY <1>0 DEF Arrows, BeforeSonar
    <3> QED
      BY <2>3, <3>1 DEF FactorInv
  <2>10. pc' = "sonar" => SonarUpTo(graph', input, cursor' - 1)
    <3>1. CASE pc' = "sonar" /\ pc = "sonar"
      BY <1>l, <2>3, <2>4, <3>1 DEF FactorInv
    <3>2. CASE pc' = "sonar" /\ pc = "loops"
      BY <2>3, <2>8, <3>2 DEF FactorInv, BeforeSonar
    <3> QED
      BY <1>0, <3>1, <3>2 DEF Arrows
  <2>11. pc' = "depth" \/ pc' \in AfterDepth \/ Published' =>
           SonarUpTo(graph', input, Len(input.sonar))
    <3>1. CASE pc = "depth" \/ pc \in AfterDepth \/ Published
      <4>1. pc \notin {"anchor", "prior", "edges"}
        BY <1>e, <3>1 DEF AfterDepth
      <4> QED
        BY <1>l, <2>3, <3>1, <4>1 DEF FactorInv
    <3>2. CASE pc = "sonar" /\ pc' # pc
      <4>1. SonarUpTo(graph, input, Len(input.sonar))
        BY <1>0, <1>l, <2>5, <3>2, FactorEnds DEF FactorInv
      <4> QED
        BY <1>l, <2>3, <3>2, <4>1
    <3>3. pc' = "depth" \/ pc' \in AfterDepth \/ Published' =>
            pc = "depth" \/ pc \in AfterDepth \/ Published \/ (pc = "sonar" /\ pc' # pc)
      BY <1>0, <2>7 DEF Arrows, AfterDepth
    <3> QED
      BY <3>1, <3>2, <3>3
  <2>12. pc' \in BeforeSonar \cup {"sonar"} => DepthUpTo(graph', input, 0)
    <3>1. pc' \in BeforeSonar \cup {"sonar"} => pc \in BeforeSonar \cup {"sonar"}
      BY <1>0 DEF Arrows, BeforeSonar
    <3> QED
      BY <2>3, <3>1 DEF FactorInv
  <2>13. pc' = "depth" => DepthUpTo(graph', input, cursor' - 1)
    <3>1. CASE pc' = "depth" /\ pc = "depth"
      BY <1>l, <2>3, <2>4, <3>1 DEF FactorInv
    <3>2. CASE pc' = "depth" /\ pc = "sonar"
      BY <2>3, <2>8, <3>2 DEF FactorInv, BeforeSonar
    <3> QED
      BY <1>0, <3>1, <3>2 DEF Arrows
  <2>14. pc' \in AfterDepth \/ Published' => DepthUpTo(graph', input, Len(input.evidence))
    <3>1. CASE pc \in AfterDepth \/ Published
      <4>1. pc \notin {"anchor", "prior", "edges"}
        BY <1>e, <3>1 DEF AfterDepth
      <4> QED
        BY <1>l, <2>3, <3>1, <4>1 DEF FactorInv
    <3>2. CASE pc = "depth" /\ pc' # pc
      <4>1. DepthUpTo(graph, input, Len(input.evidence))
        BY <1>0, <1>l, <2>6, <3>2, FactorEnds DEF FactorInv
      <4> QED
        BY <1>l, <2>3, <3>2, <4>1
    <3>3. pc' \in AfterDepth \/ Published' =>
            pc \in AfterDepth \/ Published \/ (pc = "depth" /\ pc' # pc)
      BY <1>0, <2>7 DEF Arrows, AfterDepth
    <3> QED
      BY <3>1, <3>2, <3>3
  <2> QED
    BY <1>0, <2>9, <2>10, <2>11, <2>12, <2>13, <2>14 DEF FactorInv
<1> QED
  BY <1>1, <1>2, <1>3

LEMMA FactorsExact ==
  ASSUME Basic, FactorInv
  PROVE  AbsoluteFactorsExact
<1> SUFFICES ASSUME Published, NEW k \in Keyframes
             PROVE  LET fused == HasKeyframe(graph, k) /\ ~InWarmup(k)
                        named == {i \in DOMAIN input.evidence :
                                    /\ input.evidence[i].kind = "depth"
                                    /\ input.evidence[i].source = k}
                        heard == {i \in DOMAIN input.sonar : input.sonar[i] = k}
                    IN /\ Count("depth", k) = IF fused THEN Cardinality(named) ELSE 0
                       /\ Count("sonar_range", k) <= IF fused THEN Cardinality(heard) ELSE 0
  BY DEF AbsoluteFactorsExact
<1>1. input \in Inputs /\ graph.blocks \in Seq(Blocks)
  BY DEF Basic, Graphs
<1>2. \A m : Count(m, k) = Counted(graph, m, k)
  <2>1. DOMAIN graph.blocks = 1 .. Len(graph.blocks)
    BY <1>1, MembersOf
  <2>2. ASSUME NEW m
        PROVE  {i \in Owned(k) : graph.blocks[i].model = m} = ModelsOf(graph, m, k)
    BY <2>1 DEF Owned, ModelsOf
  <2> QED
    BY <2>2 DEF Count, Counted
<1>3. (HasKeyframe(graph, k) /\ ~InWarmup(k)) <=> Fused(graph, input, k)
  BY DEF Fused, HasKeyframe, InWarmup
<1>4. /\ {i \in DOMAIN input.evidence :
            input.evidence[i].kind = "depth" /\ input.evidence[i].source = k} =
           NamedIn(input, k, Len(input.evidence))
      /\ {i \in DOMAIN input.sonar : input.sonar[i] = k} = HeardIn(input, k, Len(input.sonar))
  BY <1>1, RecordsEnds
<1>5. DepthUpTo(graph, input, Len(input.evidence)) /\ SonarUpTo(graph, input, Len(input.sonar))
  BY DEF FactorInv
<1> QED
  BY <1>2, <1>3, <1>4, <1>5 DEF DepthUpTo, SonarUpTo

LEMMA TrueInvariance ==
  Spec => [](Basic /\ VoPlace /\ ChainInv /\ SeenOnce /\ FactorInv)
<1>1. Init => SeenOnce /\ FactorInv
  BY SeenOnceStart, FactorStart
<1>2. Basic /\ VoPlace /\ ChainInv /\ SeenOnce /\ FactorInv /\ [Next]_vars => (SeenOnce /\ FactorInv)'
  BY SeenOnceStep, FactorStep DEF ChainInv
<1> QED
  BY <1>1, <1>2, ChainInvariance, PTL DEF Spec

\* What is published about a keyframe is that keyframe's own: a status that
\* no later frame changes, the time of the best source, the depth records that
\* name it, each once, and its place in the store.
THEOREM PublishedTrulyCorrect == Spec => []PublishedTruly
<1>1. ASSUME Basic, VoPlace, ChainInv, SeenOnce, FactorInv PROVE PublishedTruly
  <2>1. BuildInv /\ TimeInv /\ PublishInv /\ StoreInv
    BY <1>1 DEF ChainInv
  <2>2. StatusOfItsOwnFrame
    BY <1>1, <2>1, StatusTrue
  <2>3. TimesFromBestSource
    BY <1>1, <2>1, TimesTrue
  <2>4. AbsoluteFactorsExact
    BY <1>1, FactorsExact
  <2>5. StoreHoldsTail
    BY <2>1 DEF StoreInv
  <2> QED
    BY <2>2, <2>3, <2>4, <2>5 DEF PublishedTruly
<1> QED
  BY <1>1, TrueInvariance, PTL

-----------------------------------------------------------------------------
(* Poses and the evidence that earned them.                                 *)

\* Only the loops of the motion stage and the anchor put poses in the graph.
LEMMA PosesMove ==
  ASSUME Basic, VoPlace, BuildInv, [Next]_vars
  PROVE  \/ graph'.poses = graph.poses
         \/ pc = "anchor" /\ pc' = "times" /\ graph' = AnchorGraph(Anchor)
         \/ ImuInterval \/ VoFrame \/ BagEdge
<1>1. CASE pc = "anchor"
  BY <1>1, GraphMoves DEF GraphMove, MoveAnchor, MovePrior, MoveInterval, MoveEdge, MoveLoops,
     MoveAbsolute, At
<1>2. CASE pc = "prior"
  <2>1. graph' = graph \/ MovePrior
    BY <1>2, GraphMoves DEF GraphMove, MoveAnchor, MoveInterval, MoveEdge, MoveLoops,
       MoveAbsolute, At
  <2>2. CASE MovePrior
    <3>1. Anchor \in Keyframes /\ graph = AnchorGraph(Anchor) /\ graph' = PriorOf(graph, Anchor)
      BY <1>2, <2>2 DEF MovePrior, BuildInv
    <3>2. ToSet(graph.poses) = {Anchor} /\ graph \in Graphs
      BY <3>1, AnchorAdded DEF ToSet
    <3>3. Grows(graph, graph', graph.poses, With(graph.inertial, Anchor),
                Block("inertial_prior", {InertialRef(Anchor)}, NoKeyframe))
      BY <3>1, <3>2, PriorAdded DEF HasKeyframe
    <3> QED
      BY <3>3 DEF Grows
  <2> QED
    BY <2>1, <2>2
<1>3. CASE pc = "edges"
  BY <1>3 DEF Next, Step, Rectify, ChooseAnchor, CollectTimes, AnchorInertial,
     LoopFrame, SonarFrame, DepthRecord, EndOfLoop, CheckObservability, Solve, Publish, Gate, Done,
     vars, At
<1>4. CASE pc \notin {"anchor", "prior", "edges"}
  BY <1>4, PosesStay
<1> QED
  BY <1>1, <1>2, <1>3, <1>4

\* Chains of edges in the evidence of an input.
ChainIn(in, places, k) ==
  LET edge(i) == in.evidence[i]
      Adjacent(i, j) == i < j /\ \A m \in places : m <= i \/ j <= m
  IN IF places = {} THEN k = 0
     ELSE /\ \A i \in places : (\A j \in places : i <= j) => edge(i).from = 0
          /\ \A i \in places : (\A j \in places : j <= i) => edge(i).to = k
          /\ \A i, j \in places : Adjacent(i, j) => edge(i).to = edge(j).from

LEMMA ChainIs == \A places, k : Chain(places, k) <=> ChainIn(input, places, k)
BY DEF Chain, ChainIn

\* A chain that ends with a given edge is one to where the edge starts.
LEMMA ChainLast ==
  ASSUME NEW in, NEW P, P \subseteq Nat, NEW c \in Nat, \A i \in P : i < c, NEW k
  PROVE  ChainIn(in, P \cup {c}, k) <=>
           in.evidence[c].to = k /\ ChainIn(in, P, in.evidence[c].from)
<1> DEFINE edge(i) == in.evidence[i]  Q == P \cup {c}
           Near(i, j, S) == i < j /\ \A m \in S : m <= i \/ j <= m
<1>1. ChainIn(in, Q, k) <=>
        /\ \A i \in Q : (\A j \in Q : i <= j) => edge(i).from = 0
        /\ \A i \in Q : (\A j \in Q : j <= i) => edge(i).to = k
        /\ \A i, j \in Q : Near(i, j, Q) => edge(i).to = edge(j).from
  <2>1. Q # {}
    OBVIOUS
  <2> HIDE DEF Q
  <2> QED
    BY <2>1 DEF ChainIn
<1>2. \A l : ChainIn(in, P, l) <=>
        IF P = {} THEN l = 0
        ELSE /\ \A i \in P : (\A j \in P : i <= j) => edge(i).from = 0
             /\ \A i \in P : (\A j \in P : j <= i) => edge(i).to = l
             /\ \A i, j \in P : Near(i, j, P) => edge(i).to = edge(j).from
  BY DEF ChainIn
<1>3. /\ \A i \in Q : i = c \/ (i \in P /\ i < c /\ i \in Nat)
      /\ c \in Q /\ P \subseteq Q /\ \A i \in Q : i <= c /\ i \in Nat
  OBVIOUS
<1> HIDE DEF Q, edge
<1>4. ASSUME ChainIn(in, Q, k) PROVE edge(c).to = k /\ ChainIn(in, P, edge(c).from)
  <2>1. edge(c).to = k
    BY <1>1, <1>3, <1>4
  <2>2. CASE P = {}
    <3>1. edge(c).from = 0
      BY <1>1, <1>3, <1>4, <2>2
    <3> QED
      BY <1>2, <2>1, <2>2, <3>1
  <2>3. CASE P # {}
    <3>1. ASSUME NEW i \in P, \A j \in P : i <= j PROVE edge(i).from = 0
      BY <1>1, <1>3, <1>4, <3>1
    <3>2. ASSUME NEW i \in P, \A j \in P : j <= i PROVE edge(i).to = edge(c).from
      <4>1. i < c /\ \A m \in Q : m <= i \/ c <= m
        BY <1>3, <3>2
      <4>2. i \in Q /\ c \in Q
        BY <1>3
      <4> QED
        BY <1>1, <1>4, <4>1, <4>2
    <3>3. ASSUME NEW i \in P, NEW j \in P, i < j, \A m \in P : m <= i \/ j <= m
          PROVE  edge(i).to = edge(j).from
      <4>1. \A m \in Q : m <= i \/ j <= m
        BY <1>3, <3>3
      <4>2. i \in Q /\ j \in Q
        BY <1>3
      <4> QED
        BY <1>1, <1>4, <3>3, <4>1, <4>2
    <3> QED
      BY <1>2, <2>1, <2>3, <3>1, <3>2, <3>3
  <2> QED
    BY <2>2, <2>3
<1>5. ASSUME edge(c).to = k, ChainIn(in, P, edge(c).from) PROVE ChainIn(in, Q, k)
  <2>1. ASSUME NEW i \in Q, \A j \in Q : i <= j PROVE edge(i).from = 0
    <3>1. CASE i = c
      <4>1. P = {}
        BY <1>3, <2>1, <3>1
      <4> QED
        BY <1>2, <1>5, <3>1, <4>1
    <3>2. CASE i \in P
      BY <1>2, <1>3, <1>5, <2>1, <3>2
    <3> QED
      BY <1>3, <3>1, <3>2
  <2>2. ASSUME NEW i \in Q, \A j \in Q : j <= i PROVE edge(i).to = k
    <3>1. i = c
      BY <1>3, <2>2
    <3> QED
      BY <1>5, <3>1
  <2>3. ASSUME NEW i \in Q, NEW j \in Q, i < j, \A m \in Q : m <= i \/ j <= m
        PROVE  edge(i).to = edge(j).from
    <3>1. i \in P
      BY <1>3, <2>3
    <3>2. CASE j = c
      <4>1. \A m \in P : m <= i
        BY <1>3, <2>3, <3>2
      <4> QED
        BY <1>2, <1>5, <3>1, <3>2, <4>1
    <3>3. CASE j \in P
      <4>1. \A m \in P : m <= i \/ j <= m
        BY <1>3, <2>3
      <4> QED
        BY <1>2, <1>5, <2>3, <3>1, <3>3, <4>1
    <3> QED
      BY <1>3, <3>2, <3>3
  <2> QED
    BY <1>1, <2>1, <2>2, <2>3
<1> QED
  BY <1>4, <1>5 DEF Q, edge

EdgesUpTo(in, c) == {i \in DOMAIN in.evidence : i < c /\ in.evidence[i].kind = "relative_pose"}

\* The poses are what the first edges of the bag reach.
Reached(g, in, c) ==
  \A k \in Keyframes :
    k \in ToSet(g.poses) <=> \E P \in SUBSET EdgesUpTo(in, c) : ChainIn(in, P, k)

BagInv ==
  ~Imu /\ ~Stereo =>
    /\ pc = "edges" => Reached(graph, input, cursor)
    /\ Built => Reached(graph, input, Len(input.evidence) + 1)

LEMMA ReachedFirst ==
  ASSUME NEW g, NEW in \in Inputs, ToSet(g.poses) = {0}
  PROVE  Reached(g, in, 1)
<1>1. EdgesUpTo(in, 1) = {}
  <2>1. DOMAIN in.evidence = 1 .. Len(in.evidence)
    BY InputTyped, MembersOf
  <2>2. \A i \in 1 .. Len(in.evidence) : ~ (i < 1)
    OBVIOUS
  <2> QED
    BY <2>1, <2>2 DEF EdgesUpTo
<1>2. \A k : ChainIn(in, {}, k) <=> k = 0
  BY DEF ChainIn
<1>3. SUBSET {} = {{}}
  OBVIOUS
<1> QED
  BY <1>1, <1>2, <1>3 DEF Reached

LEMMA ReachedNext ==
  ASSUME NEW g \in Graphs, NEW h \in Graphs, NEW in \in Inputs, NEW c \in DOMAIN in.evidence,
         Reached(g, in, c),
         h = IF in.evidence[c].kind = "relative_pose"
             THEN AddRelativePoseEdge(g, in.evidence[c].from, in.evidence[c].to) ELSE g
  PROVE  Reached(h, in, c + 1)
<1> DEFINE e == in.evidence[c]  E == EdgesUpTo(in, c)  F == EdgesUpTo(in, c + 1)
<1>1. DOMAIN in.evidence \subseteq Nat /\ c \in Nat /\ e \in DepthEvidence \cup EdgeEvidence
  <2>1. /\ DOMAIN in.evidence = 1 .. Len(in.evidence)
        /\ \A i \in 1 .. Len(in.evidence) : in.evidence[i] \in DepthEvidence \cup EdgeEvidence
    BY InputTyped, MembersOf
  <2> QED
    BY <2>1
<1>2. \A i \in DOMAIN in.evidence : i < c + 1 <=> i < c \/ i = c
  BY <1>1
<1>3. CASE e.kind # "relative_pose"
  <2>1. F = E
    BY <1>2, <1>3 DEF EdgesUpTo
  <2> QED
    BY <1>3, <2>1 DEF Reached
<1>4. CASE e.kind = "relative_pose"
  <2>1. F = E \cup {c} /\ E \subseteq Nat /\ (\A i \in E : i < c)
    BY <1>1, <1>2, <1>4 DEF EdgesUpTo
  <2>2. e.from \in Keyframes /\ e.to \in Keyframes
    BY <1>1, <1>4 DEF DepthEvidence, EdgeEvidence
  <2>3. \A k \in Keyframes : k \in ToSet(h.poses) <=>
          k \in ToSet(g.poses) \/ (k = e.to /\ e.from \in ToSet(g.poses))
    <3>1. CASE e.from \in ToSet(g.poses)
      <4>1. Grows(g, h, With(g.poses, e.to), g.inertial,
                  Block("relative_pose", EdgeRefs(e.from, e.to), e.to))
        BY <1>4, <2>2, <3>1, EdgeAdded DEF HasKeyframe
      <4>2. ToSet(With(g.poses, e.to)) = ToSet(g.poses) \cup {e.to}
        BY <2>2, WithTyped DEF Graphs
      <4> QED
        BY <3>1, <4>1, <4>2 DEF Grows
    <3>2. CASE e.from \notin ToSet(g.poses)
      BY <1>4, <3>2 DEF AddRelativePoseEdge, HasKeyframe
    <3> QED
      BY <3>1, <3>2
  <2> HIDE DEF E, F
  <2>4. \A k \in Keyframes : k \in ToSet(g.poses) <=> \E P \in SUBSET E : ChainIn(in, P, k)
    BY DEF Reached, E
  <2>5. ASSUME NEW P \in SUBSET E, NEW k
        PROVE  ChainIn(in, P \cup {c}, k) <=> e.to = k /\ ChainIn(in, P, e.from)
    <3>1. P \subseteq Nat /\ \A i \in P : i < c
      BY <2>1
    <3> QED
      BY <1>1, <3>1, ChainLast
  <2> HIDE DEF e
  <2>6. ASSUME NEW k \in Keyframes, NEW Q \in SUBSET F, ChainIn(in, Q, k)
        PROVE  k \in ToSet(h.poses)
    <3>1. CASE c \notin Q
      <4>1. Q \in SUBSET E
        BY <2>1, <3>1
      <4> QED
        BY <2>3, <2>4, <2>6, <4>1
    <3>2. CASE c \in Q
      <4>1. PICK P \in SUBSET E : Q = P \cup {c}
        <5>1. Q \ {c} \in SUBSET E /\ Q = (Q \ {c}) \cup {c}
          BY <2>1, <3>2
        <5> QED
          BY <5>1
      <4>2. e.to = k /\ ChainIn(in, P, e.from)
        BY <2>5, <2>6, <4>1
      <4>3. e.from \in ToSet(g.poses)
        BY <2>2, <2>4, <4>2
      <4> QED
        BY <2>3, <4>2, <4>3
    <3> QED
      BY <3>1, <3>2
  <2>7. ASSUME NEW k \in Keyframes, k \in ToSet(h.poses)
        PROVE  \E Q \in SUBSET F : ChainIn(in, Q, k)
    <3>1. CASE k \in ToSet(g.poses)
      <4>1. PICK P \in SUBSET E : ChainIn(in, P, k)
        BY <2>4, <3>1
      <4>2. P \in SUBSET F
        BY <2>1
      <4> QED
        BY <4>1, <4>2
    <3>2. CASE k = e.to /\ e.from \in ToSet(g.poses)
      <4>1. PICK P \in SUBSET E : ChainIn(in, P, e.from)
        BY <2>2, <2>4, <3>2
      <4>2. P \cup {c} \in SUBSET F
        BY <2>1
      <4>3. ChainIn(in, P \cup {c}, k)
        BY <2>5, <3>2, <4>1
      <4> QED
        BY <4>2, <4>3
    <3> QED
      BY <2>3, <2>7, <3>1, <3>2
  <2> QED
    BY <2>6, <2>7 DEF Reached, F
<1> QED
  BY <1>3, <1>4

LEMMA BagStart == Init => BagInv
BY DEF Init, BagInv, Built, Published

LEMMA BagStep == Basic /\ VoPlace /\ BuildInv /\ BagInv /\ [Next]_vars => BagInv'
<1> SUFFICES ASSUME Basic, VoPlace, BuildInv, BagInv, [Next]_vars, ~Imu', ~Stereo' PROVE BagInv'
  BY DEF BagInv
<1>0. /\ Moves /\ Arrows /\ input' = input /\ input \in Inputs /\ graph \in Graphs
      /\ graph' \in Graphs /\ cursor \in Nat \ {0} /\ 0 \in Keyframes
  BY StepMoves, StepArrows, GraphTyped, ReplayGraphAssumption DEF Moves, Basic
<1>1. ~Imu /\ ~Stereo
  BY <1>0 DEF Imu, Stereo
<1>2. ASSUME pc' = "edges" PROVE Reached(graph', input', cursor')
  <2>1. CASE pc \in {"times", "prior"}
    <3>1. ToSet(graph.poses) = {0}
      <4>1. graph.poses = <<0>>
        BY <1>0, <1>1, <2>1, AnchorAdded DEF BuildInv, Anchor
      <4> QED
        BY <4>1 DEF ToSet
    <3>2. graph'.poses = graph.poses
      BY <2>1, PosesMove DEF ImuInterval, VoFrame, BagEdge, At
    <3>3. cursor' = 1
      BY <1>0, <1>2, <2>1 DEF Moves, Loops
    <3> QED
      BY <1>0, <3>1, <3>2, <3>3, ReachedFirst
  <2>2. CASE pc = "edges"
    <3>1. BagEdge \/ UNCHANGED vars
      BY <1>1, <1>2, <2>2, LoopEnds DEF Next, Step, Rectify, ChooseAnchor, CollectTimes,
         AnchorInertial, ImuInterval, VoFrame, LoopFrame, SonarFrame, DepthRecord, EndOfLoop, Fail,
         CheckObservability, Solve, Publish, Gate, Done, vars, At
    <3>2. CASE UNCHANGED vars
      BY <1>1, <2>2, <3>2 DEF vars, BagInv
    <3>3. CASE BagEdge
      <4>1. /\ At("edges") /\ cursor' = cursor + 1
            /\ graph' = IF Item.kind = "relative_pose"
                        THEN AddRelativePoseEdge(graph, Item.from, Item.to) ELSE graph
        BY <3>3 DEF BagEdge, Advance
      <4>2. cursor \in 1 .. Len(input.evidence) /\ Item = input.evidence[cursor]
        BY <1>0, <1>1, <4>1, Visited
      <4>3. cursor \in DOMAIN input.evidence
        BY <1>0, <4>2, InputTyped, MembersOf
      <4>4. Reached(graph, input, cursor)
        BY <1>1, <2>2 DEF BagInv
      <4> QED
        BY <1>0, <4>1, <4>2, <4>3, <4>4, ReachedNext
    <3> QED
      BY <3>1, <3>2, <3>3
  <2> QED
    BY <1>0, <1>2, <2>1, <2>2 DEF Arrows
<1>3. ASSUME Built' PROVE Reached(graph', input', Len(input'.evidence) + 1)
  <2>1. CASE Built
    <3>1. pc \notin {"anchor", "prior", "edges"}
      BY <2>1 DEF Built, Published, Basic
    <3>2. graph'.poses = graph.poses
      BY <3>1, PosesStay
    <3> QED
      BY <1>0, <1>1, <2>1, <3>2 DEF BagInv, Reached
  <2>2. CASE pc = "edges" /\ pc' = "loops" /\ EndOfLoop
    <3>1. graph' = graph /\ cursor > Len(Work(pc)) /\ Work(pc) = input.evidence
      BY <1>1, <2>2 DEF EndOfLoop, Work
    <3>2. DOMAIN input.evidence = 1 .. Len(input.evidence) /\ Len(input.evidence) \in Nat
      BY <1>0, InputTyped, MembersOf
    <3>3. \A i \in 1 .. Len(input.evidence) : i < cursor /\ i < Len(input.evidence) + 1
      BY <1>0, <3>1, <3>2
    <3>4. EdgesUpTo(input, cursor) = EdgesUpTo(input, Len(input.evidence) + 1)
      BY <3>2, <3>3 DEF EdgesUpTo
    <3> QED
      BY <1>0, <1>1, <2>2, <3>1, <3>4 DEF BagInv, Reached
  <2> QED
    BY <1>3, <2>1, <2>2, BuiltSteps
<1> QED
  BY <1>2, <1>3 DEF BagInv

LEMMA BagChained ==
  ASSUME Basic, BagInv
  PROVE  BagPosesChained
<1> SUFFICES ASSUME Published, ~Imu, ~Stereo, NEW k \in Keyframes
             PROVE  HasKeyframe(graph, k) <=> ChainTo(k)
  BY DEF BagPosesChained
<1>1. Reached(graph, input, Len(input.evidence) + 1)
  BY DEF BagInv, Built
<1>2. DOMAIN input.evidence = 1 .. Len(input.evidence) /\ Len(input.evidence) \in Nat
  BY InputTyped, MembersOf DEF Basic
<1>3. \A i \in 1 .. Len(input.evidence) : i < Len(input.evidence) + 1
  BY <1>2
<1>4. {i \in DOMAIN input.evidence : input.evidence[i].kind = "relative_pose"} =
        EdgesUpTo(input, Len(input.evidence) + 1)
  BY <1>2, <1>3 DEF EdgesUpTo
<1> QED
  BY <1>1, <1>4, ChainIs DEF Reached, ChainTo, HasKeyframe

\* Each snapshot lists the residuals of its pose.
LEMMA PosesExplainedAlways ==
  ASSUME Basic, BuildInv, PublishInv
  PROVE  PosesExplained
<1> SUFFICES ASSUME NEW i \in 2 .. Len(trajectory)
             PROVE  \E b \in trajectory[i].contributing, j \in 1 .. i - 1 :
                      Relates(graph.blocks[b], trajectory[i].keyframe, trajectory[j].keyframe)
  BY DEF PosesExplained
<1>1. /\ trajectory \in Seq(Snapshots) /\ graph.poses \in Seq(Keyframes)
      /\ graph.blocks \in Seq(Blocks)
  BY DEF Basic, Graphs
<1>2. Len(trajectory) \in Nat /\ Len(graph.poses) \in Nat /\ Len(trajectory) <= Len(graph.poses)
  BY <1>1, LenProperties DEF PublishInv
<1>3. i \in 2 .. Len(graph.poses) /\ i \in 1 .. Len(trajectory)
  BY <1>2
<1>4. PICK b \in 1 .. Len(graph.blocks), j \in 1 .. i - 1 :
        /\ graph.blocks[b].owner = graph.poses[i]
        /\ Relates(graph.blocks[b], graph.poses[i], graph.poses[j])
  BY <1>3 DEF BuildInv, Sound, Explained
<1>5. j \in 1 .. Len(trajectory)
  BY <1>2, <1>3
<1>6. \A n \in 1 .. Len(trajectory) :
        trajectory[n].keyframe = graph.poses[n] /\ trajectory[n].contributing = OwnedIn(graph, graph.poses[n])
  BY DEF PublishInv, Tells
<1>7. b \in OwnedIn(graph, graph.poses[i])
  BY <1>1, <1>4, MembersOf DEF OwnedIn
<1> QED
  BY <1>3, <1>4, <1>5, <1>6, <1>7

\* The tail of the frames os: those tracked from the one of kf0 on.
FromFirst(os) ==
  {j \in 1 .. Len(os) : os[j].tracked /\ \E i \in 1 .. j : os[i].tracked /\ os[i].keyframe = 0}

\* The poses p are kf0 and the tail of the frames os, in its order.
Hung(p, os) ==
  /\ \A k : k \in ToSet(p) <=> k = 0 \/ \E j \in FromFirst(os) : k = os[j].keyframe
  /\ \A m, n \in 1 .. Len(p) : m < n =>
       \E i, j \in FromFirst(os) : i < j /\ p[m] = os[i].keyframe /\ p[n] = os[j].keyframe

TailInv == Stereo /\ graph.poses # <<>> => Hung(graph.poses, outcomes)

FirstTracked(os) == \E i \in 1 .. Len(os) : os[i].tracked /\ os[i].keyframe = 0

\* t is s with e at its end.
OneMore(s, e, t) ==
  /\ Len(s) \in Nat /\ Len(t) = Len(s) + 1 /\ t[Len(s) + 1] = e
  /\ \A i \in 1 .. Len(s) : t[i] = s[i]

LEMMA TailGrows ==
  ASSUME NEW os, NEW o, NEW new, OneMore(os, o, new)
  PROVE  /\ FromFirst(new) = IF o.tracked /\ (o.keyframe = 0 \/ FirstTracked(os))
                             THEN FromFirst(os) \cup {Len(os) + 1} ELSE FromFirst(os)
         /\ FromFirst(os) \subseteq 1 .. Len(os) /\ Len(os) \in Nat
         /\ \A j \in FromFirst(os) : new[j] = os[j]
         /\ new[Len(os) + 1] = o
<1>2. PICK N \in Nat :
        /\ N = Len(os) /\ Len(new) = N + 1 /\ new[N + 1] = o
        /\ \A i \in 1 .. N : new[i] = os[i]
  BY DEF OneMore
<1>3. \A i : i \in 1 .. N + 1 <=> i \in 1 .. N \/ i = N + 1
  OBVIOUS
<1>4. N + 1 \notin 1 .. N /\ (\A j \in 1 .. N : 1 .. j \subseteq 1 .. N) /\ N + 1 \in 1 .. N + 1
  OBVIOUS
<1>6. ASSUME NEW j \in 1 .. N PROVE j \in FromFirst(new) <=> j \in FromFirst(os)
  BY <1>2, <1>3, <1>4 DEF FromFirst
<1>7. N + 1 \in FromFirst(new) <=> o.tracked /\ (o.keyframe = 0 \/ FirstTracked(os))
  <2>1. N + 1 \in FromFirst(new) <=>
          o.tracked /\ \E i \in 1 .. N + 1 : new[i].tracked /\ new[i].keyframe = 0
    BY <1>2, <1>4 DEF FromFirst
  <2>2. o.tracked => ((\E i \in 1 .. N + 1 : new[i].tracked /\ new[i].keyframe = 0) <=>
                o.keyframe = 0 \/ FirstTracked(os))
    BY <1>2, <1>3 DEF FirstTracked
  <2> QED
    BY <2>1, <2>2
<1>8. FromFirst(new) \subseteq 1 .. N + 1 /\ FromFirst(os) \subseteq 1 .. N
  BY <1>2 DEF FromFirst
<1>9. \A j : j \in FromFirst(new) <=>
        j \in FromFirst(os) \/ (j = N + 1 /\ o.tracked /\ (o.keyframe = 0 \/ FirstTracked(os)))
  BY <1>3, <1>4, <1>6, <1>7, <1>8
<1>10. FromFirst(new) = IF o.tracked /\ (o.keyframe = 0 \/ FirstTracked(os))
                        THEN FromFirst(os) \cup {N + 1} ELSE FromFirst(os)
  <2>1. CASE o.tracked /\ (o.keyframe = 0 \/ FirstTracked(os))
    BY <1>9, <2>1
  <2>2. CASE ~ (o.tracked /\ (o.keyframe = 0 \/ FirstTracked(os)))
    BY <1>9, <2>2
  <2> QED
    BY <2>1, <2>2
<1> QED
  BY <1>2, <1>8, <1>10

\* A frame that brings no pose: it failed, came before kf0, or is that of kf0.
LEMMA HungStays ==
  ASSUME NEW os, NEW o, NEW new, OneMore(os, o, new), NEW p, Hung(p, os),
         o.tracked => o.keyframe = 0 \/ ~FirstTracked(os)
  PROVE  Hung(p, new)
<1>1. /\ FromFirst(new) = IF o.tracked /\ (o.keyframe = 0 \/ FirstTracked(os))
                          THEN FromFirst(os) \cup {Len(os) + 1} ELSE FromFirst(os)
      /\ \A j \in FromFirst(os) : new[j] = os[j]
      /\ new[Len(os) + 1] = o
  BY TailGrows
<1>2. CASE FromFirst(new) = FromFirst(os)
  <2>1. \A l : l \in ToSet(p) <=> l = 0 \/ \E j \in FromFirst(new) : l = new[j].keyframe
    BY <1>1, <1>2 DEF Hung
  <2>2. \A m, n \in 1 .. Len(p) : m < n =>
          \E i, j \in FromFirst(new) : i < j /\ p[m] = new[i].keyframe /\ p[n] = new[j].keyframe
    BY <1>1, <1>2 DEF Hung
  <2> QED
    BY <2>1, <2>2 DEF Hung
<1>3. CASE o.keyframe = 0 /\ FromFirst(new) = FromFirst(os) \cup {Len(os) + 1}
  <2>1. \A l : l \in ToSet(p) <=> l = 0 \/ \E j \in FromFirst(new) : l = new[j].keyframe
    BY <1>1, <1>3 DEF Hung
  <2>2. ASSUME NEW m \in 1 .. Len(p), NEW n \in 1 .. Len(p), m < n
        PROVE  \E i, j \in FromFirst(new) :
                 i < j /\ p[m] = new[i].keyframe /\ p[n] = new[j].keyframe
    <3>1. PICK i \in FromFirst(os), j \in FromFirst(os) :
            i < j /\ p[m] = os[i].keyframe /\ p[n] = os[j].keyframe
      BY <2>2 DEF Hung
    <3> QED
      BY <1>1, <1>3, <3>1
  <2> QED
    BY <2>1, <2>2 DEF Hung
<1> QED
  BY <1>1, <1>2, <1>3

\* A frame tracked after that of kf0 brings its pose.
LEMMA HungGrows ==
  ASSUME NEW os, NEW o, o.tracked, NEW k, k = o.keyframe,
         \A i \in 1 .. Len(os) : os[i].keyframe # k,
         NEW new, OneMore(os, o, new), FirstTracked(os),
         NEW p, Hung(p, os), NEW q, OneMore(p, k, q), ToSet(q) = ToSet(p) \cup {k},
         \A i \in 1 .. Len(p) : p[i] \in ToSet(p)
  PROVE  k \notin ToSet(p) /\ Hung(q, new)
<1>1. /\ FromFirst(new) = FromFirst(os) \cup {Len(os) + 1}
      /\ FromFirst(os) \subseteq 1 .. Len(os) /\ Len(os) \in Nat
      /\ \A j \in FromFirst(os) : new[j] = os[j]
      /\ new[Len(os) + 1] = o
  BY TailGrows
<1>2. PICK z \in 1 .. Len(os) : os[z].tracked /\ os[z].keyframe = 0
  BY DEF FirstTracked
<1>3. z \in FromFirst(os)
  <2>1. z \in 1 .. z
    BY <1>1
  <2> QED
    BY <1>2, <2>1 DEF FromFirst
<1>4. \A l : l \in ToSet(p) <=> \E j \in FromFirst(os) : l = os[j].keyframe
  BY <1>2, <1>3 DEF Hung
<1>5. k \notin ToSet(p)
  BY <1>1, <1>4
<1>6. /\ Len(q) = Len(p) + 1 /\ Len(p) \in Nat /\ q[Len(p) + 1] = k
      /\ \A i \in 1 .. Len(p) : q[i] = p[i] /\ p[i] \in ToSet(p)
  BY DEF OneMore
<1>7. \A l : l \in ToSet(q) <=> l = 0 \/ \E j \in FromFirst(new) : l = new[j].keyframe
  BY <1>1, <1>2, <1>3, <1>4, <1>6
<1>8. ASSUME NEW m \in 1 .. Len(p) + 1, NEW n \in 1 .. Len(p) + 1, m < n
      PROVE  \E i, j \in FromFirst(new) :
               /\ i < j
               /\ q[m] = new[i].keyframe /\ q[n] = new[j].keyframe
  <2>1. m \in 1 .. Len(p)
    BY <1>6, <1>8
  <2>2. CASE n \in 1 .. Len(p)
    <3>1. PICK i \in FromFirst(os), j \in FromFirst(os) :
            i < j /\ p[m] = os[i].keyframe /\ p[n] = os[j].keyframe
      BY <1>8, <2>1, <2>2 DEF Hung
    <3> QED
      BY <1>1, <1>6, <2>1, <2>2, <3>1
  <2>3. CASE n = Len(p) + 1
    <3>1. PICK i \in FromFirst(os) : p[m] = os[i].keyframe
      BY <1>4, <1>6, <2>1
    <3>2. i < Len(os) + 1
      BY <1>1, <3>1
    <3> QED
      BY <1>1, <1>6, <2>1, <2>3, <3>1, <3>2
  <2> QED
    BY <1>6, <1>8, <2>2, <2>3
<1> QED
  BY <1>5, <1>6, <1>7, <1>8 DEF Hung

\* The reference is in the graph once the frame of kf0 was tracked.
LEMMA ReferenceHung ==
  ASSUME VP!IInv, Hung(graph.poses, outcomes)
  PROVE  /\ reference = NoKeyframe => ~FirstTracked(outcomes)
         /\ reference # NoKeyframe =>
              (HasKeyframe(graph, reference) <=> FirstTracked(outcomes))
<1>0. Len(outcomes) \in Nat
  BY VoTyped, LenProperties
<1>1. ASSUME reference = NoKeyframe PROVE ~FirstTracked(outcomes)
  <2>1. \A k \in 0 + 1 .. Len(outcomes) : ~outcomes[k].tracked
    BY <1>1 DEF VP!IInv, VP!ReferenceLast, VP!FailedRun, Vo!FailedRun
  <2>2. \A k \in 1 .. Len(outcomes) : ~outcomes[k].tracked
    BY <2>1
  <2> QED
    BY <2>2 DEF FirstTracked
<1>2. ASSUME reference # NoKeyframe
      PROVE  HasKeyframe(graph, reference) <=> FirstTracked(outcomes)
  <2>1. PICK i \in 1 .. Len(outcomes) :
          /\ outcomes[i].tracked /\ outcomes[i].keyframe = reference
          /\ \A k \in i + 1 .. Len(outcomes) : ~outcomes[k].tracked
    BY <1>2 DEF VP!IInv, VP!ReferenceLast, VP!FailedRun
  <2>2. ASSUME FirstTracked(outcomes) PROVE HasKeyframe(graph, reference)
    <3>1. PICK z \in 1 .. Len(outcomes) : outcomes[z].tracked /\ outcomes[z].keyframe = 0
      BY <2>2 DEF FirstTracked
    <3>2. z \notin i + 1 .. Len(outcomes)
      BY <2>1, <3>1
    <3>3. z \in 1 .. i
      BY <1>0, <3>2
    <3>4. i \in FromFirst(outcomes)
      BY <2>1, <3>1, <3>3 DEF FromFirst
    <3> QED
      BY <2>1, <3>4 DEF Hung, HasKeyframe
  <2>3. ASSUME HasKeyframe(graph, reference) PROVE FirstTracked(outcomes)
    <3>1. reference = 0 \/ \E j \in FromFirst(outcomes) : reference = outcomes[j].keyframe
      BY <2>3 DEF Hung, HasKeyframe
    <3>2. CASE reference = 0
      BY <2>1, <3>2 DEF FirstTracked
    <3>3. CASE \E j \in FromFirst(outcomes) : reference = outcomes[j].keyframe
      <4>1. PICK j \in 1 .. Len(outcomes) :
              \E n \in 1 .. j : outcomes[n].tracked /\ outcomes[n].keyframe = 0
        BY <3>3 DEF FromFirst
      <4>2. 1 .. j \subseteq 1 .. Len(outcomes)
        BY <1>0
      <4> QED
        BY <4>1, <4>2 DEF FirstTracked
    <3> QED
      BY <3>1, <3>2, <3>3
  <2> QED
    BY <2>2, <2>3
<1> QED
  BY <1>1, <1>2

LEMMA TailStart == Init => TailInv
BY DEF Init, TailInv, EmptyGraph

\* A visited frame.
LEMMA TailFrame ==
  ASSUME Basic, VoPlace, TailInv, VoFrame, Hung(graph.poses, outcomes)
  PROVE  Hung(graph'.poses, outcomes')
<1> DEFINE k == OrderOf(input)[cursor]
<1>1. /\ k \in Keyframes /\ VP!IInv
      /\ \/ UNCHANGED <<graph, voVars>>
         \/ /\ \A i \in 1 .. Len(outcomes) : outcomes[i].keyframe # k
            /\ FrameFails(k) \/ FrameFirst(k) \/ FrameTracks(k)
  BY FrameEffect DEF VoPlace
<1> HIDE DEF k
<1>2. /\ outcomes \in Seq(Outcomes) /\ graph \in Graphs /\ graph.poses \in Seq(Keyframes)
  BY <1>1, VoTyped DEF Outcomes, Basic, Graphs
<1>3. ASSUME NEW t \in BOOLEAN, outcomes' = Append(outcomes, Outcome(k, t))
      PROVE  OneMore(outcomes, Outcome(k, t), outcomes')
  <2>1. Outcome(k, t) \in Outcomes
    BY <1>1 DEF Outcome, Outcomes
  <2> QED
    BY <1>2, <1>3, <2>1, Appended DEF OneMore
<1>4. \A t : Outcome(k, t).keyframe = k /\ Outcome(k, t).tracked = t
  BY DEF Outcome
<1>5. CASE UNCHANGED <<graph, voVars>>
  BY <1>5 DEF voVars
<1>6. CASE FrameFails(k)
  <2>1. graph' = graph /\ OneMore(outcomes, Outcome(k, FALSE), outcomes')
    BY <1>3, <1>6 DEF FrameFails
  <2>2. ~Outcome(k, FALSE).tracked
    BY <1>4
  <2> QED
    BY <2>1, <2>2, HungStays
<1>7. CASE FrameFirst(k)
  <2>1. graph' = graph /\ OneMore(outcomes, Outcome(k, TRUE), outcomes')
    BY <1>3, <1>7 DEF FrameFirst
  <2>2. ~FirstTracked(outcomes)
    BY <1>1, <1>7, ReferenceHung DEF FrameFirst
  <2> QED
    BY <2>1, <2>2, HungStays
<1>8. CASE FrameTracks(k) /\ \A i \in 1 .. Len(outcomes) : outcomes[i].keyframe # k
  <2>1. /\ OneMore(outcomes, Outcome(k, TRUE), outcomes')
        /\ graph' = AddRelativePoseEdge(graph, reference, k)
        /\ reference \in Keyframes
    BY <1>3, <1>8 DEF FrameTracks
  <2>2. HasKeyframe(graph, reference) <=> FirstTracked(outcomes)
    BY <1>1, <2>1, ReferenceHung, ReplayGraphAssumption
  <2>3. CASE ~FirstTracked(outcomes)
    <3>1. graph' = graph
      BY <2>1, <2>2, <2>3 DEF AddRelativePoseEdge
    <3> QED
      BY <2>1, <2>3, <3>1, HungStays
  <2>4. CASE FirstTracked(outcomes)
    <3> DEFINE q == Append(graph.poses, k)
    <3>1. /\ OneMore(graph.poses, k, q) /\ ToSet(q) = ToSet(graph.poses) \cup {k}
          /\ \A i \in 1 .. Len(graph.poses) : graph.poses[i] \in ToSet(graph.poses)
      <4>1. OneMore(graph.poses, k, q) /\ ToSet(q) = ToSet(graph.poses) \cup {k}
        BY <1>1, <1>2, Appended DEF OneMore
      <4>2. \A i \in 1 .. Len(graph.poses) : graph.poses[i] \in ToSet(graph.poses)
        BY <1>2, MembersOf
      <4> QED
        BY <4>1, <4>2
    <3>2. Outcome(k, TRUE).tracked /\ Outcome(k, TRUE).keyframe = k
      BY <1>4
    <3>3. graph'.poses = With(graph.poses, k)
      BY <1>1, <1>2, <2>1, <2>2, <2>4, EdgeAdded DEF Grows
    <3> HIDE DEF q
    <3>4. k \notin ToSet(graph.poses) /\ Hung(q, outcomes')
      BY <1>8, <2>1, <2>4, <3>1, <3>2, HungGrows
    <3> QED
      BY <3>3, <3>4 DEF With, q
  <2> QED
    BY <2>3, <2>4
<1> QED
  BY <1>1, <1>5, <1>6, <1>7, <1>8

LEMMA TailStep == Basic /\ VoPlace /\ BuildInv /\ TailInv /\ [Next]_vars => TailInv'
<1> SUFFICES ASSUME Basic, VoPlace, BuildInv, TailInv, [Next]_vars, Stereo', graph'.poses # <<>>
             PROVE  Hung(graph'.poses, outcomes')
  BY DEF TailInv
<1>0. Moves /\ input' = input
  BY StepMoves DEF Moves
<1>1. Stereo /\ ~Imu
  BY <1>0 DEF Stereo, Imu
<1>2. CASE pc = "anchor" /\ pc' = "times" /\ graph' = AnchorGraph(Anchor)
  <2>1. graph'.poses = <<0>>
    BY <1>1, <1>2, AnchorAdded, ReplayGraphAssumption DEF Anchor
  <2>2. outcomes' = <<>>
    <3>1. outcomes' = outcomes
      BY <1>2, FramesKept DEF VoFrame, At
    <3> QED
      BY <1>2, <3>1 DEF VoPlace
  <2>3. FromFirst(<<>>) = {}
    <3>1. 1 .. Len(<<>>) = {}
      OBVIOUS
    <3> QED
      BY <3>1 DEF FromFirst
  <2>4. ToSet(<<0>>) = {0} /\ Len(<<0>>) = 1
    BY DEF ToSet
  <2>5. \A m, n \in 1 .. 1 : ~ (m < n)
    OBVIOUS
  <2> QED
    BY <2>1, <2>2, <2>3, <2>4, <2>5 DEF Hung
<1>3. CASE VoFrame
  <2>1. CASE graph.poses # <<>>
    BY <1>1, <1>3, <2>1, TailFrame DEF TailInv
  <2>2. CASE graph.poses = <<>>
    <3>1. ToSet(graph.poses) = {} /\ graph' # graph
      BY <2>2 DEF ToSet
    <3>2. PICK k : graph' = AddRelativePoseEdge(graph, reference, k)
      BY <1>3, <3>1, FrameEffect DEF FrameFails, FrameFirst, FrameTracks
    <3> QED
      BY <3>1, <3>2 DEF AddRelativePoseEdge, HasKeyframe
  <2> QED
    BY <2>1, <2>2
<1>4. CASE ~VoFrame /\ graph'.poses = graph.poses
  BY <1>1, <1>4, FramesKept DEF TailInv
<1> QED
  BY <1>1, <1>2, <1>3, <1>4, PosesMove DEF ImuInterval, BagEdge

LEMMA TailIs ==
  ASSUME Basic, VoPlace, TailInv
  PROVE  StereoGraphIsTail
<1> SUFFICES ASSUME Stereo, graph.poses # <<>>
             PROVE  /\ ToSet(graph.poses) = {0} \cup {outcomes[j].keyframe : j \in TailFrames}
                    /\ \A m, n \in DOMAIN graph.poses : m < n =>
                         \E i, j \in TailFrames : /\ i < j
                                                 /\ graph.poses[m] = outcomes[i].keyframe
                                                 /\ graph.poses[n] = outcomes[j].keyframe
  BY DEF StereoGraphIsTail
<1>1. outcomes \in Seq(Outcomes) /\ graph.poses \in Seq(Keyframes)
  BY VoTyped DEF VoPlace, Outcomes, Basic, Graphs
<1>2. DOMAIN outcomes = 1 .. Len(outcomes) /\ DOMAIN graph.poses = 1 .. Len(graph.poses)
  BY <1>1, MembersOf
<1>3. TailFrames = FromFirst(outcomes)
  BY <1>2 DEF TailFrames, FromFirst
<1>4. Hung(graph.poses, outcomes)
  BY DEF TailInv
<1>5. \A k : k \in ToSet(graph.poses) <=> k \in {0} \cup {outcomes[j].keyframe : j \in TailFrames}
  BY <1>3, <1>4 DEF Hung
<1>6. ToSet(graph.poses) = {0} \cup {outcomes[j].keyframe : j \in TailFrames}
  BY <1>5
<1> QED
  BY <1>2, <1>3, <1>4, <1>6 DEF Hung

\* Each mode puts in the graph exactly the keyframes its own chain of evidence
\* reaches from kf0: in the stereo mode those VO tracked from kf0 on, in the
\* bag mode those that edges of the bag lead to one after the other; and each
\* published pose lists a residual that ties it to one published before it.
THEOREM PosesEarnedCorrect == Spec => []PosesEarned
<1>1. Init => BagInv /\ TailInv
  BY BagStart, TailStart
<1>2. Basic /\ VoPlace /\ ChainInv /\ BagInv /\ TailInv /\ [Next]_vars => (BagInv /\ TailInv)'
  BY BagStep, TailStep DEF ChainInv
<1>3. ASSUME Basic, VoPlace, ChainInv, BagInv, TailInv PROVE PosesEarned
  <2>1. StereoGraphIsTail
    BY <1>3, TailIs
  <2>2. BagPosesChained
    BY <1>3, BagChained
  <2>3. PosesExplained
    BY <1>3, PosesExplainedAlways DEF ChainInv
  <2> QED
    BY <2>1, <2>2, <2>3 DEF PosesEarned
<1> QED
  BY <1>1, <1>2, <1>3, ChainInvariance, PTL DEF Spec

-----------------------------------------------------------------------------
(* The pass as an implementation of StereoVo.                               *)

\* The frontend has seen fewer frames than the pass has visited keyframes.
FramesBehind == pc = "edges" => Len(outcomes) < cursor

LEMMA FramesBehindStep == Basic /\ VoPlace /\ FramesBehind /\ [Next]_vars => FramesBehind'
<1> SUFFICES ASSUME Basic, VoPlace, FramesBehind, [Next]_vars, pc' = "edges"
             PROVE  Len(outcomes') < cursor'
  BY DEF FramesBehind
<1>1. Moves
  BY StepMoves
<1>2. outcomes \in Seq(Outcomes) /\ Len(outcomes) \in Nat /\ cursor \in Nat \ {0}
  <2>1. outcomes \in Seq(Outcomes)
    BY VoTyped DEF VoPlace, Outcomes
  <2> QED
    BY <2>1, LenProperties DEF Basic
<1>3. CASE VoFrame
  <2> DEFINE k == OrderOf(input)[cursor]
  <2>1. /\ pc = "edges" /\ cursor' = cursor + 1 /\ k \in Keyframes
        /\ outcomes' = outcomes \/ \E t \in BOOLEAN : outcomes' = Append(outcomes, Outcome(k, t))
    BY <1>3, FrameEffect DEF FrameFails, FrameFirst, FrameTracks, voVars
  <2>2. Len(outcomes) < cursor
    BY <2>1 DEF FramesBehind
  <2>3. ASSUME NEW t \in BOOLEAN, outcomes' = Append(outcomes, Outcome(k, t))
        PROVE  Len(outcomes') = Len(outcomes) + 1
    <3>1. Outcome(k, t) \in Outcomes
      BY <2>1 DEF Outcome, Outcomes
    <3> QED
      BY <1>2, <2>3, <3>1, Appended
  <2> QED
    BY <1>2, <2>1, <2>2, <2>3
<1>4. CASE ~VoFrame
  <2>1. outcomes' = outcomes
    BY <1>4 DEF Next, Step, Rectify, ChooseAnchor, CollectTimes, AnchorInertial, ImuInterval,
       BagEdge, LoopFrame, SonarFrame, DepthRecord, EndOfLoop, CheckObservability, Solve, Publish,
       Gate, Done, vars, voVars
  <2>2. CASE pc = "edges"
    <3>1. cursor' = cursor \/ cursor' = cursor + 1
      BY <1>1, <2>2 DEF Moves
    <3> QED
      BY <1>2, <2>1, <2>2, <3>1 DEF FramesBehind
  <2>3. CASE pc # "edges"
    <3>1. pc \in {"rectify", "anchor", "times", "prior"} /\ cursor' = 1
      BY <1>1, <2>3, StepArrows DEF Arrows, Moves
    <3>2. outcomes = <<>> /\ Len(outcomes) = 0
      BY <3>1 DEF VoPlace
    <3> QED
      BY <2>1, <3>1, <3>2
  <2> QED
    BY <2>2, <2>3
<1> QED
  BY <1>3, <1>4

\* A step of the pipeline is a step of the frontend or leaves it alone.
LEMMA StepRefinesVo ==
  ASSUME \A in \in Inputs : Len(OrderOf(in)) <= MaxFrames
  PROVE  Basic /\ VoPlace /\ FramesBehind /\ [Next]_vars => [Vo!Next]_(Vo!voVars)
<1> SUFFICES ASSUME Basic, VoPlace, FramesBehind, [Next]_vars PROVE [Vo!Next]_(Vo!voVars)
  OBVIOUS
<1>1. CASE VoFrame
  <2> DEFINE k == OrderOf(input)[cursor]
  <2>1. /\ pc = "edges" /\ cursor \in DOMAIN OrderOf(input) /\ k \in Keyframes
        /\ UNCHANGED <<graph, voVars>> \/ \A i \in 1 .. Len(outcomes) : outcomes[i].keyframe # k
    BY <1>1, FrameEffect
  <2>2. CASE UNCHANGED voVars
    BY <2>2 DEF voVars, Vo!voVars
  <2>3. CASE ~UNCHANGED voVars
    <3>1. Item = k
      BY <1>1, <2>1, Visited DEF Basic, VoFrame, At
    <3>2. Vo!VisitKeyframe(k) /\ \A i \in 1 .. Len(outcomes) : outcomes[i].keyframe # k
      BY <1>1, <2>1, <2>3, <3>1 DEF VoFrame
    <3>3. Len(outcomes) < MaxFrames
      <4>1. OrderOf(input) \in Seq(Keyframes) /\ outcomes \in Seq(Outcomes)
        BY InputTyped, VoTyped DEF Listing, Basic, VoPlace, Outcomes
      <4>2. /\ Len(outcomes) \in Nat /\ Len(OrderOf(input)) \in Nat
            /\ cursor \in 1 .. Len(OrderOf(input))
        BY <2>1, <4>1, LenProperties
      <4>3. Len(outcomes) < cursor /\ Len(OrderOf(input)) <= MaxFrames /\ MaxFrames \in Nat
        BY <2>1, ReplayGraphAssumption DEF FramesBehind, Basic
      <4> QED
        BY <4>2, <4>3
    <3> QED
      BY <2>1, <3>2, <3>3 DEF Vo!Next
  <2> QED
    BY <2>2, <2>3
<1>2. CASE ~VoFrame
  <2>1. UNCHANGED voVars
    BY <1>2 DEF Next, Step, Rectify, ChooseAnchor, CollectTimes, AnchorInertial, ImuInterval,
       BagEdge, LoopFrame, SonarFrame, DepthRecord, EndOfLoop, CheckObservability, Solve, Publish,
       Gate, Done, vars
  <2> QED
    BY <2>1 DEF voVars, Vo!voVars
<1> QED
  BY <1>1, <1>2

\* Inside the pipeline the frontend does what StereoVo specifies: every run of
\* the pipeline, seen through the frontend's variables, is a run of it. The
\* bound on the frames of a pass is StereoVo's own.
THEOREM PipelineRunsFrontend ==
  ASSUME \A in \in Inputs : Len(OrderOf(in)) <= MaxFrames
  PROVE  Spec => Vo!Spec
<1>1. Init => Vo!Init /\ FramesBehind
  BY DEF Init, FramesBehind
<1>2. Basic /\ VoPlace /\ FramesBehind /\ [Next]_vars => FramesBehind'
  BY FramesBehindStep
<1>3. Basic /\ VoPlace /\ FramesBehind /\ [Next]_vars => [Vo!Next]_(Vo!voVars)
  BY StepRefinesVo
<1>4. Spec => [](Basic /\ VoPlace)
  BY TypeInvariance
<1> QED
  BY <1>1, <1>2, <1>3, <1>4, PTL DEF Spec, Vo!Spec
=============================================================================
