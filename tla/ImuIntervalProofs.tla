------------------------- MODULE ImuIntervalProofs -------------------------
(***************************************************************************)
(* For any samples, boundaries and limits of the frontend: nothing bridges  *)
(* a rejected interval (IInv), the cursor of the hold loop stays inside the *)
(* readings, no reading is held for too long, slicing a bag with one IMU    *)
(* makes no difference to what an edge integrates, and the edges count each *)
(* sample once (JInv).                                                      *)
(***************************************************************************)
EXTENDS ImuInterval, TLAPS, SequenceTheorems, FiniteSetTheorems, WellFoundedInduction

\* A run of the boundaries from the first is in the graph, with an edge from
\* each of them to the next.
Prefix ==
  /\ Len(edges) + 1 \in 1 .. Len(input.boundaries)
  /\ graph = SubSeq(input.boundaries, 1, Len(edges) + 1)

Chained ==
  \A k \in 1 .. Len(edges) :
    edges[k].from = input.boundaries[k] /\ edges[k].to = input.boundaries[k + 1]

\* The graph is never ahead of the interval at hand, and while an interval is
\* processed it ends where the interval starts.
Abreast ==
  /\ pc = "initialize" => graph = <<>> /\ edges = <<>> /\ i = 2
  /\ pc \in {"interval", "hold", "close"} => graph # <<>> /\ Len(edges) + 1 < i
  /\ pc \in {"hold", "close"} => Len(edges) + 2 = i /\ i <= Len(input.boundaries)
  /\ pc = "solve" => Len(edges) + 1 = Len(input.boundaries) /\ graph # <<>>

IInv ==
  /\ input \in Inputs
  /\ i \in Nat
  /\ edges \in Seq(Range(edges))
  /\ (graph = <<>> /\ edges = <<>>) \/ (graph # <<>> /\ Prefix)
  /\ Chained
  /\ Abreast

\* What is assumed of the boundaries of a bag.
LEMMA BoundaryFacts ==
  ASSUME NEW bag \in Inputs
  PROVE  /\ bag.boundaries \in Seq(Int) /\ Len(bag.boundaries) >= 2
         /\ Len(bag.boundaries) \in Nat
         /\ \A j, k \in 1 .. Len(bag.boundaries) : j < k => bag.boundaries[j] < bag.boundaries[k]
<1>1. bag.boundaries \in Seq(Int) /\ Len(bag.boundaries) >= 2
  BY ImuIntervalAssumption
<1>2. DOMAIN bag.boundaries = 1 .. Len(bag.boundaries) /\ Len(bag.boundaries) \in Nat
  BY <1>1
<1> QED
  BY <1>1, <1>2, ImuIntervalAssumption

LEMMA EdgeFacts ==
  ASSUME IInv
  PROVE  Len(edges) \in Nat /\ DOMAIN edges = 1 .. Len(edges)
BY DEF IInv

\* The elements of the graph, when there are any.
LEMMA GraphFacts ==
  ASSUME IInv, graph # <<>>
  PROVE  /\ graph \in Seq(Int)
         /\ Len(graph) = Len(edges) + 1
         /\ \A k \in 1 .. Len(graph) : graph[k] = input.boundaries[k]
<1> DEFINE n == Len(edges) + 1
<1>1. n \in 1 .. Len(input.boundaries) /\ n \in Int /\ graph = SubSeq(input.boundaries, 1, n)
  BY EdgeFacts DEF IInv, Prefix
<1>2. \A k \in 1 .. n : input.boundaries[k] \in Int
  BY <1>1, BoundaryFacts DEF IInv
<1> HIDE DEF n
<1>3. /\ graph \in Seq(Int) /\ Len(graph) = n
      /\ \A k \in 1 .. n : graph[k] = input.boundaries[k]
  <2>1. /\ SubSeq(input.boundaries, 1, n) \in Seq(Int)
        /\ Len(SubSeq(input.boundaries, 1, n)) = IF 1 <= n THEN n - 1 + 1 ELSE 0
        /\ \A k \in 1 .. n - 1 + 1 : SubSeq(input.boundaries, 1, n)[k] = input.boundaries[1 + k - 1]
    BY <1>1, <1>2, SubSeqProperties
  <2> QED
    BY <1>1, <2>1
<1> QED
  BY <1>3 DEF n

\* An interval is processed only if the graph ends where it starts.
LEMMA RegisteredIsLast ==
  ASSUME IInv, pc = "interval", i <= Len(input.boundaries), Registered(From)
  PROVE  Len(edges) + 2 = i
<1>1. graph # <<>> /\ Len(edges) + 1 < i /\ i \in Nat /\ Len(edges) \in Nat
  BY EdgeFacts DEF IInv, Abreast
<1>2. PICK k \in DOMAIN graph : graph[k] = input.boundaries[i - 1]
  BY DEF Registered, From
<1>3. k \in 1 .. Len(edges) + 1 /\ graph[k] = input.boundaries[k]
  BY <1>1, <1>2, GraphFacts
<1>4. Len(edges) + 1 \in 1 .. Len(input.boundaries)
  BY <1>1 DEF IInv, Prefix
<1>5. k < i - 1 => input.boundaries[k] < input.boundaries[i - 1]
  <2>1. Len(input.boundaries) \in Nat
    BY BoundaryFacts DEF IInv
  <2>2. k \in 1 .. Len(input.boundaries) /\ i - 1 \in 1 .. Len(input.boundaries)
    BY <1>1, <1>3, <1>4, <2>1
  <2> QED
    BY <2>2, BoundaryFacts DEF IInv
<1>6. input.boundaries[k] \in Int
  BY <1>3, <1>4, BoundaryFacts DEF IInv
<1> QED
  BY <1>1, <1>2, <1>3, <1>5, <1>6

LEMMA Start == Init => IInv
<1> SUFFICES ASSUME Init PROVE IInv
  OBVIOUS
<1>1. edges = <<>> /\ Len(edges) = 0
  BY DEF Init
<1>2. edges \in Seq(Range(edges))
  BY <1>1, EmptySeq
<1>3. Chained
  BY <1>1 DEF Chained
<1>4. Abreast
  BY DEF Init, Abreast
<1> QED
  BY <1>2, <1>3, <1>4 DEF Init, IInv

\* Steps that leave the graph alone.
LEMMA GraphAlone ==
  ASSUME IInv, input' = input, edges' = edges, graph' = graph, i' \in Nat, Abreast'
  PROVE  IInv'
<1>1. Prefix' <=> Prefix
  BY DEF Prefix
<1>2. Chained' <=> Chained
  BY DEF Chained
<1>3. edges' \in Seq(Range(edges'))
  BY DEF IInv
<1> QED
  BY <1>1, <1>2, <1>3 DEF IInv

\* The anchor is the first boundary.
LEMMA InitializeKeeps ==
  ASSUME IInv, InitializeFromStationaryWindow
  PROVE  IInv'
<1>1. graph = <<>> /\ edges = <<>> /\ i = 2 /\ input' = input /\ i' = i /\ edges' = edges
  BY DEF InitializeFromStationaryWindow, IInv, Abreast
<1>2. Len(edges') = 0
  BY <1>1
<1>3. CASE pc' = "failed" /\ graph' = graph
  <2>1. Abreast'
    BY <1>1, <1>3 DEF Abreast
  <2> QED
    BY <1>1, <1>3, <2>1, GraphAlone DEF InitializeFromStationaryWindow, IInv
<1>4. CASE pc' = "interval" /\ graph' = <<Head(input.boundaries)>>
  <2> DEFINE b == input.boundaries
  <2>1. b \in Seq(Int) /\ Len(b) \in Nat /\ Len(b) >= 2
    BY BoundaryFacts DEF IInv
  <2>2. \A k \in 1 .. 1 : b[k] \in Int
    BY <2>1
  <2>3. /\ SubSeq(b, 1, 1) \in Seq(Int) /\ Len(SubSeq(b, 1, 1)) = 1
        /\ SubSeq(b, 1, 1)[1] = b[1]
    <3>1. /\ SubSeq(b, 1, 1) \in Seq(Int)
          /\ Len(SubSeq(b, 1, 1)) = IF 1 <= 1 THEN 1 - 1 + 1 ELSE 0
          /\ \A k \in 1 .. 1 - 1 + 1 : SubSeq(b, 1, 1)[k] = b[1 + k - 1]
      BY <2>2, SubSeqProperties
    <3> QED
      BY <3>1
  <2>4. <<Head(b)>> \in Seq(Int) /\ Len(<<Head(b)>>) = 1 /\ <<Head(b)>>[1] = b[1]
    BY <2>1
  <2>5. graph' = SubSeq(b, 1, 1)
    BY <1>4, <2>3, <2>4, SeqEqual
  <2>6. graph' # <<>>
    BY <1>4
  <2>7. Prefix'
    BY <1>1, <1>2, <2>1, <2>5 DEF Prefix, InitializeFromStationaryWindow
  <2>8. Abreast'
    BY <1>1, <1>2, <1>4, <2>6 DEF Abreast
  <2>9. input' = input /\ edges' \in Seq(Range(edges')) /\ Chained'
    BY <1>1, <1>2 DEF InitializeFromStationaryWindow, IInv, Chained
  <2> QED
    BY <1>1, <2>6, <2>7, <2>8, <2>9 DEF IInv
<1> QED
  BY <1>3, <1>4 DEF InitializeFromStationaryWindow

LEMMA RejectKeeps ==
  ASSUME IInv, NEW reason, Reject(reason), pc \in {"interval", "hold", "close"}
  PROVE  IInv'
<1>1. Abreast'
  BY EdgeFacts DEF IInv, Abreast, Reject, NextInterval
<1> QED
  BY <1>1, GraphAlone DEF Reject, NextInterval, IInv

\* The boundary at the end of the interval follows the last one of the graph.
LEMMA EvidenceKeeps ==
  ASSUME IInv, Evidence
  PROVE  IInv'
<1>1. /\ pc = "close" /\ pc' = "interval" /\ i' = i + 1 /\ input' = input
      /\ i \in Nat /\ Len(edges) \in Nat /\ graph # <<>>
      /\ Len(edges) + 2 = i /\ i <= Len(input.boundaries)
  BY EdgeFacts DEF Evidence, NextInterval, IInv, Abreast
<1>2. PICK accepted \in BOOLEAN : Register(accepted)
  BY DEF Evidence
<1>3. CASE ~accepted
  <2>1. graph' = graph /\ edges' = edges
    BY <1>2, <1>3 DEF Register
  <2> QED
    BY <1>1, <2>1, GraphAlone DEF Abreast
<1>4. CASE accepted
  <2> DEFINE e == [from |-> From, to |-> To, count |-> SamplesInside, segments |-> segments]
             S == Range(edges) \cup {e}
             n == Len(edges)
             b == input.boundaries
  <2>1. graph' = Append(graph, To) /\ edges' = Append(edges, e)
    BY <1>2, <1>4 DEF Register
  <2>2. e.from = b[n + 1] /\ e.to = b[n + 2]
    BY <1>1 DEF From, To
  <2>3. edges \in Seq(S)
    <3>1. edges \in Seq(Range(edges)) /\ Range(edges) \subseteq S
      BY DEF IInv
    <3> QED
      BY <3>1, SeqMonotonic
  <2>4. e \in S
    OBVIOUS
  <2> HIDE DEF e, S
  <2>5. /\ edges' \in Seq(S) /\ Len(edges') = n + 1 /\ edges'[n + 1] = e
        /\ \A k \in 1 .. n : edges'[k] = edges[k]
    BY <2>1, <2>3, <2>4, AppendProperties
  <2>6. edges' \in Seq(Range(edges'))
    BY <2>5, SeqOfRange
  <2>7. Chained'
    BY <1>1, <2>2, <2>5 DEF IInv, Chained
  <2>8. b \in Seq(Int) /\ Len(b) \in Nat /\ b[i] \in Int /\ n + 2 \in 1 .. Len(b)
    BY <1>1, BoundaryFacts DEF IInv
  <2>9. /\ graph' \in Seq(Int) /\ Len(graph') = n + 2 /\ graph' # <<>>
        /\ \A k \in 1 .. n + 2 : graph'[k] = b[k]
    <3>1. graph \in Seq(Int) /\ Len(graph) = n + 1 /\ \A k \in 1 .. n + 1 : graph[k] = b[k]
      BY <1>1, GraphFacts
    <3>2. To \in Int /\ To = b[n + 2]
      BY <1>1, <2>8 DEF To
    <3> QED
      BY <1>1, <2>1, <3>1, <3>2, AppendProperties
  <2>10. graph' = SubSeq(b, 1, n + 2)
    <3>1. \A k \in 1 .. n + 2 : b[k] \in Int
      BY <2>8
    <3>2. /\ SubSeq(b, 1, n + 2) \in Seq(Int)
          /\ Len(SubSeq(b, 1, n + 2)) = IF 1 <= n + 2 THEN (n + 2) - 1 + 1 ELSE 0
          /\ \A k \in 1 .. (n + 2) - 1 + 1 : SubSeq(b, 1, n + 2)[k] = b[1 + k - 1]
      BY <1>1, <3>1, SubSeqProperties
    <3> QED
      BY <1>1, <2>9, <3>2, SeqEqual
  <2>11. Prefix'
    BY <1>1, <2>5, <2>8, <2>10 DEF Prefix
  <2>12. Abreast'
    BY <1>1, <2>5, <2>9 DEF Abreast
  <2> QED
    BY <1>1, <2>6, <2>7, <2>9, <2>11, <2>12 DEF IInv
<1> QED
  BY <1>3, <1>4

LEMMA FinishKeeps ==
  ASSUME IInv, Finish
  PROVE  IInv'
<1>1. /\ pc = "interval" /\ graph # <<>> /\ Len(graph) = Len(edges) + 1
  BY GraphFacts DEF Finish, IInv, Abreast
<1>2. Abreast'
  BY <1>1 DEF Finish, Abreast
<1> QED
  BY <1>2, GraphAlone DEF Finish, IInv

LEMMA Step == IInv /\ [Next]_vars => IInv'
<1> SUFFICES ASSUME IInv, [Next]_vars PROVE IInv'
  OBVIOUS
<1>1. CASE UNCHANGED vars
  BY <1>1, GraphAlone DEF vars, IInv, Abreast
<1>2. CASE InitializeFromStationaryWindow
  BY <1>2, InitializeKeeps
<1>3. CASE SkipInterval
  <2>1. Abreast'
    BY <1>3, EdgeFacts DEF SkipInterval, NextInterval, IInv, Abreast
  <2> QED
    BY <1>3, <2>1, GraphAlone DEF SkipInterval, NextInterval, IInv
<1>4. CASE Process
  <2>1. CASE Refusal # "none"
    BY <1>4, <2>1, RejectKeeps DEF Process
  <2>2. CASE Refusal = "none"
    <3>1. Abreast'
      BY <1>4, <2>2, RegisteredIsLast DEF Process, IInv, Abreast
    <3> QED
      BY <1>4, <2>2, <3>1, GraphAlone DEF Process, IInv
  <2> QED
    BY <2>1, <2>2
<1>5. CASE GapTooLarge
  BY <1>5, RejectKeeps DEF GapTooLarge
<1>6. CASE Integrate
  <2>1. Abreast'
    BY <1>6 DEF Integrate, IInv, Abreast
  <2> QED
    BY <1>6, <2>1, GraphAlone DEF Integrate, IInv
<1>7. CASE TooFewSamples
  BY <1>7, RejectKeeps DEF TooFewSamples
<1>8. CASE Evidence
  BY <1>8, EvidenceKeeps
<1>9. CASE Finish
  BY <1>9, FinishKeeps
<1> QED
  BY <1>1, <1>2, <1>3, <1>4, <1>5, <1>6, <1>7, <1>8, <1>9 DEF Next

LEMMA InvariantBridgesNothing ==
  ASSUME IInv
  PROVE  NothingBridged
<1>1. graph # <<>> => graph = SubSeq(input.boundaries, 1, Len(edges) + 1)
  BY DEF IInv, Prefix
<1>2. ASSUME NEW k \in DOMAIN edges PROVE edges[k].from = graph[k] /\ edges[k].to = graph[k + 1]
  <2>1. k \in 1 .. Len(edges) /\ Len(edges) \in Nat /\ graph # <<>>
    BY <1>2, EdgeFacts DEF IInv
  <2>2. graph[k] = input.boundaries[k] /\ graph[k + 1] = input.boundaries[k + 1]
    BY <2>1, GraphFacts
  <2> QED
    BY <2>1, <2>2 DEF IInv, Chained
<1>3. ASSUME pc = "solve" PROVE graph = input.boundaries
  <2>1. graph # <<>> /\ Len(edges) + 1 = Len(input.boundaries)
    BY <1>3 DEF IInv, Abreast
  <2>2. /\ graph \in Seq(Int) /\ Len(graph) = Len(input.boundaries)
        /\ \A k \in 1 .. Len(graph) : graph[k] = input.boundaries[k]
    BY <2>1, GraphFacts
  <2> QED
    BY <2>2, BoundaryFacts, SeqEqual DEF IInv
<1> QED
  BY <1>1, <1>2, <1>3 DEF NothingBridged

\* Whatever the samples are and whichever intervals are refused, a boundary is
\* in the graph only at the end of a chain of edges from the first, and the
\* solver sees all of them or is not run.
THEOREM NoIntervalBridged == Spec => []NothingBridged
<1>1. IInv => NothingBridged
  BY InvariantBridgesNothing
<1> QED
  BY Start, Step, <1>1, PTL DEF Spec

-----------------------------------------------------------------------------
(***************************************************************************)
(* The readings of an interval.  The operators below take the bag as an     *)
(* argument, so that what they say is of one bag through all the steps.     *)
(***************************************************************************)

TimeOf(bag, n) == bag.samples[n].time

OwnOf(bag) == {n \in DOMAIN bag.samples : bag.samples[n].sensor = ImuSensorId}

Before(bag, m, n) ==
  TimeOf(bag, m) < TimeOf(bag, n) \/ (TimeOf(bag, m) = TimeOf(bag, n) /\ m < n)

\* L lists the samples of S, each once, in order of time.
Lists(bag, L, S) ==
  /\ L \in Seq(S)
  /\ \A n \in S : \E k \in 1 .. Len(L) : L[k] = n
  /\ \A j, k \in 1 .. Len(L) : j < k => Before(bag, L[j], L[k])

\* The samples of the sensor that the frontend is given for an interval.
SliceOf(bag, from, to) ==
  {n \in OwnOf(bag) :
     /\ TimeOf(bag, n) <= to
     /\ \A m \in DOMAIN bag.samples : TimeOf(bag, m) <= from => ~Before(bag, n, m)}

InEffectIn(bag, t) ==
  LET past == {n \in OwnOf(bag) : TimeOf(bag, n) <= t} IN
  IF past # {} THEN CHOOSE n \in past : \A m \in past : m = n \/ Before(bag, m, n)
  ELSE CHOOSE n \in OwnOf(bag) : \A m \in OwnOf(bag) : m = n \/ Before(bag, n, m)

Alone(bag) == \A n \in DOMAIN bag.samples : n \in OwnOf(bag)

\* One segment: not stale, and of a bag with one IMU the reading in effect.
GoodPiece(bag, p) ==
  /\ p.reading \in OwnOf(bag) /\ p.from \in Int /\ p.to \in Int /\ p.from < p.to
  /\ p.to - TimeOf(bag, p.reading) <= MaxGap /\ TimeOf(bag, p.reading) - p.from <= MaxGap
  /\ Alone(bag) => \A t \in p.from .. p.to - 1 : p.reading = InEffectIn(bag, t)

\* Segments end to end from a to b.
Pieces(bag, s, a, b) ==
  /\ s \in Seq(Range(s))
  /\ s = <<>> => a = b
  /\ s # <<>> => s[1].from = a /\ s[Len(s)].to = b
  /\ \A n \in 1 .. Len(s) : GoodPiece(bag, s[n]) /\ (n > 1 => s[n].from = s[n - 1].to)

\* No two readings of the sensor at one time.
Separate(bag) == \A m, n \in OwnOf(bag) : m # n => TimeOf(bag, m) # TimeOf(bag, n)

Within(bag, a, b) == {n \in OwnOf(bag) : TimeOf(bag, n) \in (a + 1) .. b}

\* An edge: its segments, and its samples if no two are at one time.
GoodEdge(bag, e) ==
  /\ e.from < e.to /\ Pieces(bag, e.segments, e.from, e.to)
  /\ Separate(bag) => e.count = Cardinality(Within(bag, e.from, e.to))

\* A cursor splits the readings at the start of its segment.
CursorAt(bag, L, c, from, to) ==
  /\ c.next \in 1 .. Len(L) + 1
  /\ c.held = IF c.next = 1 THEN 1 ELSE c.next - 1
  /\ c.start \in from .. to - 1
  /\ c.next = 1 => c.start = from
  /\ \A k \in 1 .. Len(L) :
       IF k < c.next THEN TimeOf(bag, L[k]) <= c.start
       ELSE TimeOf(bag, L[k]) > from /\ TimeOf(bag, L[k]) >= c.start

HoldInv ==
  pc \in {"hold", "close"} =>
    /\ Lists(input, readings, SliceOf(input, From, To)) /\ readings # <<>>
    /\ CursorAt(input, readings, cursor, From, To)
    /\ Pieces(input, segments, From, IF pc = "hold" THEN cursor.start ELSE To)

JInv ==
  /\ pc \in {"initialize", "interval", "hold", "close", "solve", "failed"}
  /\ i \in 2 .. Len(input.boundaries) + 1
  /\ frontend.failures \in 0 .. i - 2
  /\ readings \in Seq(OwnOf(input))
  /\ HoldInv
  /\ \A k \in 1 .. Len(edges) : GoodEdge(input, edges[k])

\* What is assumed of the samples of a bag.
LEMMA SampleFacts ==
  ASSUME NEW bag \in Inputs
  PROVE  /\ DOMAIN bag.samples = 1 .. Len(bag.samples) /\ Len(bag.samples) \in Nat
         /\ IsFiniteSet(DOMAIN bag.samples)
         /\ \A n \in DOMAIN bag.samples : TimeOf(bag, n) \in Int /\ n \in Nat
<1>1. bag.samples \in Seq([time : Int, sensor : STRING, ok : BOOLEAN, gyro : Int, accel : Int])
  BY ImuIntervalAssumption
<1>2. DOMAIN bag.samples = 1 .. Len(bag.samples) /\ Len(bag.samples) \in Nat
  BY <1>1
<1>3. IsFiniteSet(DOMAIN bag.samples)
  BY <1>2, FS_Interval
<1>4. ASSUME NEW n \in DOMAIN bag.samples PROVE TimeOf(bag, n) \in Int /\ n \in Nat
  <2> DEFINE R == [time : Int, sensor : STRING, ok : BOOLEAN, gyro : Int, accel : Int]
  <2>1. bag.samples[n] \in R
    <3>1. bag.samples \in Seq(R)
      BY <1>1
    <3> HIDE DEF R
    <3> QED
      BY <1>2, <3>1, ElementOfSeq
  <2> QED
    BY <1>2, <2>1 DEF TimeOf
<1> QED
  BY <1>2, <1>3, <1>4

\* The samples of a bag are in a strict total order.
LEMMA OrderFacts ==
  ASSUME NEW bag \in Inputs
  PROVE  /\ \A m \in DOMAIN bag.samples : ~Before(bag, m, m)
         /\ \A m, n \in DOMAIN bag.samples : m = n \/ Before(bag, m, n) \/ Before(bag, n, m)
         /\ \A m, n \in DOMAIN bag.samples : ~(Before(bag, m, n) /\ Before(bag, n, m))
         /\ \A m, n, p \in DOMAIN bag.samples :
              Before(bag, m, n) /\ Before(bag, n, p) => Before(bag, m, p)
         /\ \A m, n \in DOMAIN bag.samples : Before(bag, m, n) => TimeOf(bag, m) <= TimeOf(bag, n)
         /\ \A m, n \in DOMAIN bag.samples : TimeOf(bag, m) < TimeOf(bag, n) => Before(bag, m, n)
<1>1. \A n \in DOMAIN bag.samples : TimeOf(bag, n) \in Int /\ n \in Nat
  BY SampleFacts
<1> QED
  BY <1>1 DEF Before

\* InOrder lists the samples of a set by time.
LEMMA InOrderLists ==
  ASSUME input \in Inputs, NEW S \in SUBSET DOMAIN input.samples
  PROVE  /\ Lists(input, InOrder(S), S)
         /\ Len(InOrder(S)) = Cardinality(S) /\ Cardinality(S) \in Nat /\ IsFiniteSet(S)
<1> DEFINE Below(x) == {m \in S : Before(input, m, x)}
           n == Cardinality(S)
           rank == [x \in S |-> Cardinality(Below(x))]
<1>0. IsFiniteSet(S) /\ n \in Nat
  BY SampleFacts, FS_Subset, FS_CardinalityType
<1>a. /\ \A x \in S : ~Before(input, x, x)
      /\ \A x, y \in S : x = y \/ Before(input, x, y) \/ Before(input, y, x)
      /\ \A x, y, z \in S : Before(input, x, y) /\ Before(input, y, z) => Before(input, x, z)
  BY OrderFacts
<1>1. ASSUME NEW x \in S
      PROVE  IsFiniteSet(Below(x)) /\ Cardinality(Below(x)) \in 0 .. n - 1
  <2>1. Below(x) \in SUBSET S /\ x \notin Below(x)
    BY <1>a
  <2> HIDE DEF Below
  <2>2. IsFiniteSet(Below(x)) /\ Cardinality(Below(x)) <= n /\ Cardinality(Below(x)) # n
    BY <1>0, <2>1, <1>1, FS_Subset
  <2>3. Cardinality(Below(x)) \in Nat
    BY <2>2, FS_CardinalityType
  <2> HIDE DEF n
  <2> QED
    BY <1>0, <2>2, <2>3
<1>2. ASSUME NEW x \in S, NEW y \in S, Before(input, x, y)
      PROVE  Cardinality(Below(x)) < Cardinality(Below(y))
  <2>1. x \notin Below(x) /\ Below(x) \cup {x} \subseteq Below(y)
    BY <1>a, <1>2
  <2> HIDE DEF Below
  <2>2. Cardinality(Below(x) \cup {x}) = Cardinality(Below(x)) + 1
    BY <1>1, <2>1, FS_AddElement
  <2>3. Cardinality(Below(x) \cup {x}) <= Cardinality(Below(y))
    <3>1. Below(x) \cup {x} \in SUBSET Below(y)
      BY <2>1
    <3> QED
      BY <1>1, <3>1, FS_Subset
  <2>4. Cardinality(Below(x)) \in Nat /\ Cardinality(Below(y)) \in Nat
    BY <1>1
  <2> QED
    BY <2>2, <2>3, <2>4
<1>3. rank \in Injection(S, 0 .. n - 1)
  <2> HIDE DEF Below, n
  <2>1. rank \in [S -> 0 .. n - 1]
    BY <1>1
  <2>2. ASSUME NEW x \in S, NEW y \in S, rank[x] = rank[y] PROVE x = y
    <3>1. Cardinality(Below(x)) = Cardinality(Below(y)) /\ Cardinality(Below(x)) \in Nat
      BY <1>1, <2>2
    <3> QED
      BY <1>a, <1>2, <3>1
  <2> QED
    BY <2>1, <2>2 DEF Injection, IsInjective
<1>4. rank \in Surjection(S, 0 .. n - 1)
  <2>1. IsFiniteSet(0 .. n - 1) /\ Cardinality(0 .. n - 1) = n
    <3> HIDE DEF n
    <3>1. IsFiniteSet(0 .. n - 1) /\ Cardinality(0 .. n - 1) = IF 0 > n - 1 THEN 0 ELSE n - 1 - 0 + 1
      BY <1>0, FS_Interval
    <3> QED
      BY <1>0, <3>1
  <2> HIDE DEF rank
  <2> QED
    BY <1>3, <2>1, FS_Injection
<1>5. ASSUME NEW k \in 1 .. n PROVE \E x \in S : Cardinality(Below(x)) = k - 1
  <2>1. k - 1 \in 0 .. n - 1
    BY <1>0
  <2>2. PICK x \in S : rank[x] = k - 1
    BY <1>4, <2>1 DEF Surjection
  <2> QED
    BY <2>2
<1>6. InOrder(S) = [k \in 1 .. n |-> CHOOSE x \in S : Cardinality(Below(x)) = k - 1]
  BY DEF InOrder, Earlier, Before, TimeOf, Sample
<1> HIDE DEF Below, n, rank
<1>7. ASSUME NEW k \in 1 .. n
      PROVE  InOrder(S)[k] \in S /\ Cardinality(Below(InOrder(S)[k])) = k - 1
  BY <1>5, <1>6
<1>8. InOrder(S) \in Seq(S) /\ Len(InOrder(S)) = n
  <2>1. InOrder(S) \in [1 .. n -> S]
    BY <1>6, <1>7
  <2> QED
    BY <1>0, <2>1
<1>9. ASSUME NEW x \in S PROVE \E k \in 1 .. n : InOrder(S)[k] = x
  <2> DEFINE k == Cardinality(Below(x)) + 1
  <2>1. k \in 1 .. n /\ k - 1 = Cardinality(Below(x))
    BY <1>0, <1>1
  <2>2. PICK y \in S : y = InOrder(S)[k] /\ Cardinality(Below(y)) = Cardinality(Below(x))
    BY <1>7, <2>1
  <2>3. y = x
    <3>1. Cardinality(Below(x)) \in Nat
      BY <1>1
    <3> QED
      BY <1>a, <1>2, <2>2, <3>1
  <2> QED
    BY <2>1, <2>2, <2>3
<1>10. ASSUME NEW j \in 1 .. n, NEW k \in 1 .. n, j < k
       PROVE  Before(input, InOrder(S)[j], InOrder(S)[k])
  <2>1. PICK x \in S : x = InOrder(S)[j] /\ Cardinality(Below(x)) = j - 1
    BY <1>7
  <2>2. PICK y \in S : y = InOrder(S)[k] /\ Cardinality(Below(y)) = k - 1
    BY <1>7
  <2>3. x # y /\ ~Before(input, y, x)
    BY <1>0, <1>2, <1>10, <2>1, <2>2
  <2> QED
    BY <1>a, <2>1, <2>2, <2>3
<1>11. Lists(input, InOrder(S), S)
  BY <1>8, <1>9, <1>10 DEF Lists
<1> QED
  BY <1>0, <1>8, <1>11 DEF n

\* The properties' operators are those below, of the bag of this run.
LEMMA OwnFacts == Own = OwnOf(input)
BY DEF Own, OwnOf, Sample

LEMMA EffectFacts ==
  ASSUME NEW t
  PROVE  InEffect(t) = InEffectIn(input, t)
BY OwnFacts DEF InEffect, InEffectIn, Earlier, Before, TimeOf, Sample

\* What the frontend sorts out of the slice it is given.
LEMMA ReadingsListSlice ==
  ASSUME input \in Inputs
  PROVE  Lists(input, Readings, SliceOf(input, From, To))
<1>1. {n \in ImuWindow(From, To) : Sample(n).sensor = ImuSensorId} = SliceOf(input, From, To)
  BY DEF ImuWindow, SliceOf, OwnOf, Earlier, Before, TimeOf, Sample
<1>2. SliceOf(input, From, To) \in SUBSET DOMAIN input.samples
  BY DEF SliceOf, OwnOf
<1> QED
  BY <1>1, <1>2, InOrderLists DEF Readings

\* A set of samples has a last one.
LEMMA LastOne ==
  ASSUME input \in Inputs, NEW S \in SUBSET DOMAIN input.samples, S # {}
  PROVE  \E n \in S : \A m \in S : m = n \/ Before(input, m, n)
<1> DEFINE L == InOrder(S)
<1>1. Lists(input, L, S) /\ Len(L) = Cardinality(S) /\ Cardinality(S) \in Nat
  BY InOrderLists
<1> HIDE DEF L
<1>2. PICK x \in S : TRUE
  OBVIOUS
<1>3. PICK k \in 1 .. Len(L) : L[k] = x
  BY <1>1, <1>2 DEF Lists
<1>4. Len(L) \in 1 .. Len(L) /\ L[Len(L)] \in S
  BY <1>1, <1>3, ElementOfSeq DEF Lists
<1>5. ASSUME NEW m \in S PROVE m = L[Len(L)] \/ Before(input, m, L[Len(L)])
  <2>1. PICK j \in 1 .. Len(L) : L[j] = m
    BY <1>1 DEF Lists
  <2>2. j = Len(L) \/ j < Len(L)
    BY <1>1
  <2> QED
    BY <1>1, <1>4, <2>1, <2>2 DEF Lists
<1> QED
  BY <1>4, <1>5

\* The slice holds all readings of its interval, and begins with the last
\* sample at or before its start: of a bag with one IMU a reading, if any is.
LEMMA SliceFacts ==
  ASSUME input \in Inputs, NEW from \in Int, NEW to \in Int, from < to
  PROVE  /\ SliceOf(input, from, to) \subseteq OwnOf(input)
         /\ OwnOf(input) \subseteq DOMAIN input.samples
         /\ \A n \in OwnOf(input) :
              TimeOf(input, n) \in (from + 1) .. to => n \in SliceOf(input, from, to)
         /\ \A n \in SliceOf(input, from, to) : TimeOf(input, n) <= to
         /\ \A n \in SliceOf(input, from, to), m \in DOMAIN input.samples :
              TimeOf(input, m) <= from => m = n \/ Before(input, m, n)
         /\ \A n \in OwnOf(input) \ SliceOf(input, from, to) :
              \/ TimeOf(input, n) > to
              \/ \E m \in DOMAIN input.samples : TimeOf(input, m) <= from /\ Before(input, n, m)
         /\ Alone(input) /\ (\E n \in DOMAIN input.samples : TimeOf(input, n) <= from)
            => \E n \in SliceOf(input, from, to) : TimeOf(input, n) <= from
<1> DEFINE D == DOMAIN input.samples
           W == SliceOf(input, from, to)
<1>1. W \subseteq OwnOf(input) /\ OwnOf(input) \subseteq D
  BY DEF SliceOf, OwnOf
<1>2. \A n \in D : TimeOf(input, n) \in Int
  BY SampleFacts
<1>3. ASSUME NEW n \in OwnOf(input), TimeOf(input, n) \in (from + 1) .. to PROVE n \in W
  <2>1. \A m \in D : TimeOf(input, m) <= from => ~Before(input, n, m)
    BY <1>1, <1>2, <1>3, OrderFacts
  <2> QED
    BY <1>3, <2>1 DEF SliceOf
<1>4. \A n \in W : TimeOf(input, n) <= to
  BY DEF SliceOf
<1>5. \A n \in W, m \in D : TimeOf(input, m) <= from => m = n \/ Before(input, m, n)
  <2>1. \A n \in W, m \in D : TimeOf(input, m) <= from => ~Before(input, n, m)
    BY DEF SliceOf
  <2> QED
    BY <1>1, <2>1, OrderFacts
<1>6. \A n \in OwnOf(input) \ W :
        TimeOf(input, n) > to \/ \E m \in D : TimeOf(input, m) <= from /\ Before(input, n, m)
  BY <1>1, <1>2 DEF SliceOf
<1>7. ASSUME Alone(input), NEW x \in D, TimeOf(input, x) <= from
      PROVE  \E n \in W : TimeOf(input, n) <= from
  <2> DEFINE S == {n \in D : TimeOf(input, n) <= from}
  <2>1. S \in SUBSET D /\ S # {}
    BY <1>7
  <2>2. PICK l \in S : \A m \in S : m = l \/ Before(input, m, l)
    BY <2>1, LastOne
  <2>3. \A m \in D : TimeOf(input, m) <= from => ~Before(input, l, m)
    BY <2>2, OrderFacts
  <2>4. TimeOf(input, l) <= to /\ l \in OwnOf(input)
    BY <1>2, <1>7, <2>2 DEF Alone
  <2> QED
    BY <2>2, <2>3, <2>4 DEF SliceOf
<1> QED
  BY <1>1, <1>3, <1>4, <1>5, <1>6, <1>7

\* The last reading of the slice at or before a time is in effect then.
LEMMA HeldBehind ==
  ASSUME input \in Inputs, NEW from \in Int, NEW to \in Int, NEW t \in Int,
         from <= t, t < to, NEW h \in SliceOf(input, from, to), TimeOf(input, h) <= t,
         \A m \in SliceOf(input, from, to) :
           TimeOf(input, m) <= t => m = h \/ Before(input, m, h)
  PROVE  h = InEffectIn(input, t)
<1> DEFINE W == SliceOf(input, from, to)
           past == {n \in OwnOf(input) : TimeOf(input, n) <= t}
<1>1. W \subseteq OwnOf(input) /\ OwnOf(input) \subseteq DOMAIN input.samples
  BY SliceFacts
<1>2. ASSUME NEW m \in past PROVE m = h \/ Before(input, m, h)
  <2>1. CASE m \in W
    BY <2>1
  <2>2. CASE m \notin W
    <3>1. TimeOf(input, m) \in Int /\ TimeOf(input, m) <= t
      BY <1>1, SampleFacts
    <3>2. ~(TimeOf(input, m) > to)
      BY <3>1
    <3>3. PICK q \in DOMAIN input.samples : TimeOf(input, q) <= from /\ Before(input, m, q)
      BY <2>2, <3>2, SliceFacts
    <3>4. q = h \/ Before(input, q, h)
      BY <3>3, SliceFacts
    <3> QED
      BY <1>1, <3>3, <3>4, OrderFacts
  <2> QED
    BY <2>1, <2>2
<1>3. h \in past
  BY <1>1
<1>4. \A n \in past : (\A m \in past : m = n \/ Before(input, m, n)) => n = h
  BY <1>1, <1>2, <1>3, OrderFacts
<1>5. InEffectIn(input, t) = CHOOSE n \in past : \A m \in past : m = n \/ Before(input, m, n)
  BY <1>3 DEF InEffectIn
<1> HIDE DEF past
<1> QED
  BY <1>2, <1>3, <1>4, <1>5

\* Of a bag with one IMU, the first reading of the slice is in effect before it,
\* if it is not before the start.
LEMMA HeldAhead ==
  ASSUME input \in Inputs, NEW from \in Int, NEW to \in Int, NEW t \in Int,
         from <= t, t < to, Alone(input), NEW h \in SliceOf(input, from, to),
         \A m \in SliceOf(input, from, to) : TimeOf(input, m) > t,
         \A m \in SliceOf(input, from, to) : m = h \/ Before(input, h, m)
  PROVE  h = InEffectIn(input, t)
<1> DEFINE W == SliceOf(input, from, to)
           past == {n \in OwnOf(input) : TimeOf(input, n) <= t}
<1>1. W \subseteq OwnOf(input) /\ OwnOf(input) \subseteq DOMAIN input.samples
  BY SliceFacts
<1>2. \A n \in DOMAIN input.samples : TimeOf(input, n) \in Int
  BY SampleFacts
<1>3. \A n \in DOMAIN input.samples : ~(TimeOf(input, n) <= from)
  <2>1. \A n \in W : TimeOf(input, n) \in Int /\ ~(TimeOf(input, n) <= from)
    BY <1>1, <1>2
  <2> QED
    BY <2>1, SliceFacts
<1>4. \A n \in OwnOf(input) : n \notin W => TimeOf(input, n) > to
  BY <1>3, SliceFacts
<1>5. past = {}
  BY <1>1, <1>2, <1>4
<1>6. TimeOf(input, h) <= to /\ h \in OwnOf(input)
  BY <1>1, SliceFacts
<1>7. ASSUME NEW m \in OwnOf(input) PROVE m = h \/ Before(input, h, m)
  <2>1. CASE m \in W
    BY <2>1
  <2>2. CASE m \notin W
    <3>1. TimeOf(input, h) < TimeOf(input, m)
      BY <1>1, <1>2, <1>4, <1>6, <2>2
    <3> QED
      BY <1>1, <1>6, <3>1, OrderFacts
  <2> QED
    BY <2>1, <2>2
<1>8. \A n \in OwnOf(input) : (\A m \in OwnOf(input) : m = n \/ Before(input, n, m)) => n = h
  BY <1>1, <1>6, <1>7, OrderFacts
<1>9. InEffectIn(input, t)
        = CHOOSE n \in OwnOf(input) : \A m \in OwnOf(input) : m = n \/ Before(input, n, m)
  BY <1>5 DEF InEffectIn
<1> HIDE DEF past
<1> QED
  BY <1>6, <1>7, <1>8, <1>9

-----------------------------------------------------------------------------
(* The hold of a reading.                                                   *)

\* A list of samples.
LEMMA ListFacts ==
  ASSUME input \in Inputs, NEW from \in Int, NEW to \in Int, from < to,
         NEW L, Lists(input, L, SliceOf(input, from, to))
  PROVE  /\ Len(L) \in Nat /\ DOMAIN L = 1 .. Len(L)
         /\ \A k \in 1 .. Len(L) :
              /\ L[k] \in SliceOf(input, from, to) /\ L[k] \in OwnOf(input)
              /\ L[k] \in DOMAIN input.samples
              /\ TimeOf(input, L[k]) \in Int /\ TimeOf(input, L[k]) <= to
         /\ \A j, k \in 1 .. Len(L) : j < k => Before(input, L[j], L[k])
         /\ \A j, k \in 1 .. Len(L) : j <= k => TimeOf(input, L[j]) <= TimeOf(input, L[k])
         /\ L \in Seq(OwnOf(input))
<1>1. L \in Seq(SliceOf(input, from, to))
  BY DEF Lists
<1>2. Len(L) \in Nat /\ DOMAIN L = 1 .. Len(L)
  BY <1>1, LenProperties
<1>3. \A k \in 1 .. Len(L) : L[k] \in SliceOf(input, from, to)
  BY <1>1, ElementOfSeq
<1>4. \A k \in 1 .. Len(L) :
         /\ L[k] \in OwnOf(input) /\ L[k] \in DOMAIN input.samples
         /\ TimeOf(input, L[k]) \in Int /\ TimeOf(input, L[k]) <= to
  BY <1>3, SliceFacts, SampleFacts
<1>5. \A j, k \in 1 .. Len(L) : j < k => Before(input, L[j], L[k])
  BY DEF Lists
<1>6. ASSUME NEW j \in 1 .. Len(L), NEW k \in 1 .. Len(L), j <= k
      PROVE  TimeOf(input, L[j]) <= TimeOf(input, L[k])
  <2>1. CASE j = k
    BY <1>4, <2>1
  <2>2. CASE j # k
    <3>1. Before(input, L[j], L[k])
      BY <1>2, <1>5, <1>6, <2>2
    <3> QED
      BY <1>4, <3>1, OrderFacts
  <2> QED
    BY <2>1, <2>2
<1>7. L \in Seq(OwnOf(input))
  BY <1>1, SliceFacts, SeqMonotonic
<1> QED
  BY <1>2, <1>3, <1>4, <1>5, <1>6, <1>7

\* A set of naturals has a least element.
LEMMA LeastElement ==
  ASSUME NEW T, T \subseteq Nat, T # {}
  PROVE  \E x \in T : \A y \in T : x <= y
<1>1. IsWellFoundedOn(OpToRel(<, Nat), Nat)
  BY NatLessThanWellFounded
<1>2. PICK x \in T : \A y \in T : <<y, x>> \notin OpToRel(<, Nat)
  BY <1>1, WFMin
<1>3. ASSUME NEW y \in T PROVE x <= y
  <2>1. ~ (y < x)
    BY <1>2 DEF OpToRel
  <2> QED
    BY <2>1
<1> QED
  BY <1>3

\* A set of numbers up to n that holds all numbers below each of its members.
LEMMA InitialPart ==
  ASSUME NEW n \in Nat, NEW D \in SUBSET (1 .. n),
         \A k \in D, j \in 1 .. n : j < k => j \in D
  PROVE  Cardinality(D) \in 0 .. n /\ D = 1 .. Cardinality(D)
<1> DEFINE R == (1 .. n) \ D
<1>1. PICK q \in 0 .. n : D = 1 .. q
  <2>1. CASE R = {}
    <3>1. D = 1 .. n
      BY <2>1
    <3> QED
      BY <3>1
  <2>2. CASE R # {}
    <3>1. R \in SUBSET Nat
      OBVIOUS
    <3>2. PICK r \in R : \A m \in R : r <= m
      <4> HIDE DEF R
      <4>1. \E r \in R : \A m \in R : r <= m
        BY <2>2, <3>1, LeastElement
      <4> QED
        BY <4>1
    <3>3. r \in 1 .. n /\ r - 1 \in 0 .. n /\ r \notin D
      BY <3>2
    <3>4. \A x \in 1 .. n : x < r => x \in D
      BY <3>2
    <3>5. \A x \in 1 .. n : x > r => x \notin D
      BY <3>3
    <3> HIDE DEF R
    <3>6. \A x : x \in D <=> x \in 1 .. r - 1
      <4>1. \A x \in D : x \in 1 .. n /\ ~(x > r) /\ x # r
        BY <3>3, <3>5
      <4>2. \A x \in D : x \in 1 .. r - 1
        BY <3>3, <4>1
      <4>3. \A x \in 1 .. r - 1 : x \in 1 .. n /\ x < r
        BY <3>3
      <4> QED
        BY <3>4, <4>2, <4>3
    <3>7. D = 1 .. r - 1
      BY <3>6
    <3> QED
      BY <3>3, <3>7
  <2> QED
    BY <2>1, <2>2
<1>2. Cardinality(1 .. q) = IF 1 > q THEN 0 ELSE q - 1 + 1
  BY FS_Interval
<1>3. Cardinality(D) = q
  BY <1>1, <1>2
<1> QED
  BY <1>1, <1>3

\* One more segment.
LEMMA PiecesGrow ==
  ASSUME NEW bag, NEW s, NEW a, NEW b, NEW p, Pieces(bag, s, a, b), GoodPiece(bag, p),
         p.from = b
  PROVE  Pieces(bag, Append(s, p), a, p.to)
<1> DEFINE S == Range(s) \cup {p}
           t == Append(s, p)
<1>1. s \in Seq(S) /\ p \in S
  <2>1. s \in Seq(Range(s)) /\ Range(s) \subseteq S
    BY DEF Pieces
  <2> QED
    BY <2>1, SeqMonotonic
<1> HIDE DEF S
<1>2. /\ t \in Seq(S) /\ Len(t) = Len(s) + 1 /\ Len(s) \in Nat /\ t[Len(s) + 1] = p
      /\ \A n \in 1 .. Len(s) : t[n] = s[n]
  BY <1>1, AppendProperties, LenProperties
<1> HIDE DEF t
<1>3. t \in Seq(Range(t)) /\ t # <<>> /\ t[Len(t)] = p
  BY <1>2, SeqOfRange
<1>4. t[1].from = a
  <2>1. CASE s = <<>>
    <3>1. Len(s) = 0
      BY <2>1
    <3> QED
      BY <1>2, <2>1, <3>1 DEF Pieces
  <2>2. CASE s # <<>>
    <3>1. 1 \in 1 .. Len(s)
      BY <1>1, <1>2, <2>2, EmptySeq
    <3> QED
      BY <1>2, <2>2, <3>1 DEF Pieces
  <2> QED
    BY <2>1, <2>2
<1>5. ASSUME NEW n \in 1 .. Len(t)
      PROVE  GoodPiece(bag, t[n]) /\ (n > 1 => t[n].from = t[n - 1].to)
  <2>1. CASE n = Len(s) + 1
    <3>1. GoodPiece(bag, t[n])
      BY <1>2, <2>1
    <3>2. ASSUME n > 1 PROVE t[n].from = t[n - 1].to
      <4>1. Len(s) \in 1 .. Len(s) /\ n - 1 = Len(s)
        BY <1>2, <2>1, <3>2
      <4>2. s # <<>>
        BY <4>1
      <4> QED
        BY <1>2, <2>1, <4>1, <4>2 DEF Pieces
    <3> QED
      BY <3>1, <3>2
  <2>2. CASE n # Len(s) + 1
    <3>1. n \in 1 .. Len(s) /\ (n > 1 => n - 1 \in 1 .. Len(s))
      BY <1>2, <2>2
    <3> QED
      BY <1>2, <3>1 DEF Pieces
  <2> QED
    BY <2>1, <2>2
<1>6. Pieces(bag, t, a, p.to)
  BY <1>3, <1>4, <1>5 DEF Pieces
<1> QED
  BY <1>6 DEF t

\* No segments yet.
LEMMA NoPieces ==
  ASSUME NEW bag, NEW a
  PROVE  Pieces(bag, <<>>, a, a)
<1>1. <<>> \in Seq(Range(<<>>)) /\ Len(<<>>) = 0
  BY EmptySeq
<1> QED
  BY <1>1 DEF Pieces

\* The interval at hand.
LEMMA IntervalFacts ==
  ASSUME input \in Inputs, i \in 2 .. Len(input.boundaries)
  PROVE  From \in Int /\ To \in Int /\ From < To
<1>1. i - 1 \in 1 .. Len(input.boundaries) /\ i \in 1 .. Len(input.boundaries) /\ i - 1 < i
  BY BoundaryFacts
<1>2. input.boundaries[i - 1] \in Int /\ input.boundaries[i] \in Int
  BY <1>1, BoundaryFacts, ElementOfSeq
<1> QED
  BY <1>1, <1>2, BoundaryFacts DEF From, To

\* The cursor of a new interval.
LEMMA CursorAtStart ==
  ASSUME input \in Inputs, NEW from \in Int, NEW to \in Int, from < to,
         NEW L, Lists(input, L, SliceOf(input, from, to)), L # <<>>,
         NEW before, before = Cardinality({k \in DOMAIN L : TimeOf(input, L[k]) <= from}),
         NEW c, c = [held |-> IF before = 0 THEN 1 ELSE before, next |-> before + 1, start |-> from]
  PROVE  CursorAt(input, L, c, from, to)
<1> DEFINE D == {k \in DOMAIN L : TimeOf(input, L[k]) <= from}
<1>1. /\ Len(L) \in Nat /\ DOMAIN L = 1 .. Len(L)
      /\ \A k \in 1 .. Len(L) : TimeOf(input, L[k]) \in Int
      /\ \A j, k \in 1 .. Len(L) : j <= k => TimeOf(input, L[j]) <= TimeOf(input, L[k])
  BY ListFacts
<1>2. D \in SUBSET (1 .. Len(L))
  BY <1>1
<1>3. \A k \in D, j \in 1 .. Len(L) : j < k => j \in D
  BY <1>1
<1>4. \A k \in 1 .. Len(L) : IF k \in D THEN TimeOf(input, L[k]) <= from ELSE TimeOf(input, L[k]) > from
  BY <1>1
<1>5. before = Cardinality(D)
  OBVIOUS
<1> HIDE DEF D
<1>6. before \in 0 .. Len(L) /\ D = 1 .. before
  BY <1>1, <1>2, <1>3, <1>5, InitialPart
<1>7. c.next = before + 1 /\ c.start = from /\ c.held = IF before = 0 THEN 1 ELSE before
  OBVIOUS
<1>8. c.held = IF c.next = 1 THEN 1 ELSE c.next - 1
  BY <1>6, <1>7
<1>9. c.next \in 1 .. Len(L) + 1 /\ c.start \in from .. to - 1
  BY <1>1, <1>6, <1>7
<1>10. \A k \in 1 .. Len(L) :
         IF k < c.next THEN TimeOf(input, L[k]) <= c.start
         ELSE TimeOf(input, L[k]) > from /\ TimeOf(input, L[k]) >= c.start
  <2>1. \A k \in 1 .. Len(L) : k < c.next <=> k \in D
    BY <1>1, <1>6, <1>7
  <2> QED
    BY <1>1, <1>4, <1>7, <2>1
<1> QED
  BY <1>7, <1>8, <1>9, <1>10 DEF CursorAt

\* What is held from the start of a segment to its end is in effect in it, as the
\* readings that follow come no earlier than the end.
LEMMA HeldInEffect ==
  ASSUME input \in Inputs, NEW from \in Int, NEW to \in Int, from < to, Alone(input),
         NEW L, Lists(input, L, SliceOf(input, from, to)), L # <<>>,
         NEW c, CursorAt(input, L, c, from, to),
         NEW end \in Int, end <= to,
         \A k \in 1 .. Len(L) : k >= c.next => TimeOf(input, L[k]) >= end,
         NEW t \in c.start .. end - 1
  PROVE  L[c.held] = InEffectIn(input, t)
<1> DEFINE W == SliceOf(input, from, to)
           h == L[c.held]
<1>1. /\ Len(L) \in Nat
      /\ \A k \in 1 .. Len(L) : L[k] \in W /\ TimeOf(input, L[k]) \in Int
      /\ \A j, k \in 1 .. Len(L) : j < k => Before(input, L[j], L[k])
  BY ListFacts
<1>2. \A m \in W : \E k \in 1 .. Len(L) : L[k] = m
  BY DEF Lists
<1>3. /\ c.next \in 1 .. Len(L) + 1 /\ c.held = IF c.next = 1 THEN 1 ELSE c.next - 1
      /\ c.start \in from .. to - 1
      /\ \A k \in 1 .. Len(L) : k < c.next => TimeOf(input, L[k]) <= c.start
  BY DEF CursorAt
<1>4. Len(L) # 0
  BY EmptySeq DEF Lists
<1>5. c.held \in 1 .. Len(L) /\ h \in W /\ c.start \in Int
  BY <1>1, <1>3, <1>4
<1>6. t \in Int /\ from <= t /\ t < to /\ c.start <= t /\ t < end
  BY <1>3
<1>7. CASE c.next = 1
  <2>1. c.held = 1
    BY <1>3, <1>7
  <2>2. \A m \in W : TimeOf(input, m) > t
    BY <1>1, <1>2, <1>6, <1>7
  <2>3. \A m \in W : m = h \/ Before(input, h, m)
    BY <1>1, <1>2, <1>5, <2>1
  <2> HIDE DEF W, h
  <2> QED
    BY <1>5, <1>6, <2>2, <2>3, HeldAhead DEF W, h
<1>8. CASE c.next # 1
  <2>1. c.held = c.next - 1 /\ TimeOf(input, h) <= t
    BY <1>1, <1>3, <1>5, <1>6, <1>8
  <2>2. ASSUME NEW m \in W, TimeOf(input, m) <= t PROVE m = h \/ Before(input, m, h)
    <3>1. PICK k \in 1 .. Len(L) : L[k] = m
      BY <1>2
    <3>2. k < c.next
      BY <1>1, <1>3, <1>6, <2>2, <3>1
    <3>3. k = c.held \/ k < c.held
      BY <1>3, <2>1, <3>2
    <3> QED
      BY <1>1, <1>5, <3>1, <3>3
  <2> HIDE DEF W, h
  <2> QED
    BY <1>5, <1>6, <2>1, <2>2, HeldBehind DEF W, h
<1> QED
  BY <1>7, <1>8

\* Where a segment ends, and what it holds.
LEMMA SegmentFacts ==
  ASSUME input \in Inputs, i \in 2 .. Len(input.boundaries), pc = "hold", HoldInv
  PROVE  /\ cursor.held \in 1 .. Len(readings) /\ cursor.next \in 1 .. Len(readings) + 1
         /\ Held.time = TimeOf(input, readings[cursor.held]) /\ Held.time \in Int
         /\ readings[cursor.held] \in OwnOf(input)
         /\ cursor.start \in From .. To - 1 /\ cursor.start \in Int
         /\ SegmentEnd \in Int /\ SegmentEnd \in cursor.start .. To
         /\ HasNext => /\ cursor.next \in 1 .. Len(readings)
                       /\ SegmentEnd = TimeOf(input, readings[cursor.next]) /\ SegmentEnd < To
         /\ ~HasNext => SegmentEnd = To
         /\ \A k \in 1 .. Len(readings) :
              k >= cursor.next => TimeOf(input, readings[k]) >= SegmentEnd
         /\ Alone(input) => \A t \in cursor.start .. SegmentEnd - 1 :
                              readings[cursor.held] = InEffectIn(input, t)
<1> DEFINE L == readings
           n == cursor.next
<1>1. From \in Int /\ To \in Int /\ From < To
  BY IntervalFacts
<1>2. Lists(input, L, SliceOf(input, From, To)) /\ L # <<>> /\ CursorAt(input, L, cursor, From, To)
  BY DEF HoldInv
<1>3. /\ Len(L) \in Nat /\ DOMAIN L = 1 .. Len(L)
      /\ \A k \in 1 .. Len(L) : L[k] \in OwnOf(input) /\ TimeOf(input, L[k]) \in Int
      /\ \A j, k \in 1 .. Len(L) : j <= k => TimeOf(input, L[j]) <= TimeOf(input, L[k])
  BY <1>1, <1>2, ListFacts
<1>4. Len(L) # 0
  BY <1>2, EmptySeq DEF Lists
<1>5. /\ n \in 1 .. Len(L) + 1 /\ cursor.held \in 1 .. Len(L) /\ cursor.start \in From .. To - 1
      /\ \A k \in 1 .. Len(L) : k >= n => TimeOf(input, L[k]) >= cursor.start
  BY <1>2, <1>3, <1>4 DEF CursorAt
<1>6. HasNext <=> (n <= Len(L) /\ TimeOf(input, L[n]) < To)
  BY DEF HasNext, Sample, TimeOf
<1>7. SegmentEnd = IF HasNext THEN TimeOf(input, L[n]) ELSE To
  BY DEF SegmentEnd, Sample, TimeOf
<1>8. Held.time = TimeOf(input, L[cursor.held])
  BY DEF Held, Sample, TimeOf
<1> HIDE DEF L, n
<1>9. HasNext => n \in 1 .. Len(L)
  BY <1>3, <1>5, <1>6
<1>10. SegmentEnd \in Int /\ SegmentEnd \in cursor.start .. To
  BY <1>1, <1>3, <1>5, <1>6, <1>7, <1>9
<1>11. \A k \in 1 .. Len(L) : k >= n => TimeOf(input, L[k]) >= SegmentEnd
  <2>1. CASE HasNext
    BY <1>3, <1>7, <1>9, <2>1
  <2>2. CASE ~HasNext
    <3>1. ASSUME NEW k \in 1 .. Len(L), k >= n PROVE TimeOf(input, L[k]) >= SegmentEnd
      <4>1. n \in 1 .. Len(L) /\ TimeOf(input, L[n]) \in Int
        BY <1>3, <1>5, <3>1
      <4>2. TimeOf(input, L[n]) >= To
        BY <1>1, <1>6, <2>2, <4>1
      <4>3. TimeOf(input, L[n]) <= TimeOf(input, L[k]) /\ TimeOf(input, L[k]) \in Int
        BY <1>3, <3>1, <4>1
      <4> QED
        BY <1>1, <1>7, <2>2, <4>1, <4>2, <4>3
    <3> QED
      BY <3>1
  <2> QED
    BY <2>1, <2>2
<1>12. ASSUME Alone(input), NEW t \in cursor.start .. SegmentEnd - 1
       PROVE  L[cursor.held] = InEffectIn(input, t)
  <2>1. SegmentEnd <= To
    BY <1>1, <1>5, <1>10
  <2> QED
    BY <1>1, <1>2, <1>10, <1>11, <1>12, <2>1, HeldInEffect DEF L, n
<1> QED
  BY <1>1, <1>3, <1>5, <1>6, <1>7, <1>8, <1>9, <1>10, <1>11, <1>12 DEF L, n

\* The held reading is integrated to the end of its segment.
LEMMA IntegrateHolds ==
  ASSUME input \in Inputs, i \in 2 .. Len(input.boundaries), HoldInv, Integrate
  PROVE  HoldInv'
<1> DEFINE L == readings
           n == cursor.next
           p == [reading |-> L[cursor.held], from |-> cursor.start, to |-> SegmentEnd]
<1>1. /\ pc = "hold" /\ input' = input /\ i' = i /\ readings' = readings
      /\ HoldSpan <= MaxGap
      /\ segments' = IF SegmentEnd > cursor.start THEN Append(segments, p) ELSE segments
  BY DEF Integrate
<1>2. From \in Int /\ To \in Int /\ From < To /\ From' = From /\ To' = To
  BY <1>1, IntervalFacts DEF From, To
<1>3. /\ Lists(input, L, SliceOf(input, From, To)) /\ L # <<>>
      /\ CursorAt(input, L, cursor, From, To) /\ Pieces(input, segments, From, cursor.start)
  BY <1>1 DEF HoldInv
<1>4. /\ cursor.held \in 1 .. Len(L) /\ n \in 1 .. Len(L) + 1
      /\ Held.time = TimeOf(input, L[cursor.held]) /\ Held.time \in Int
      /\ L[cursor.held] \in OwnOf(input)
      /\ cursor.start \in From .. To - 1 /\ cursor.start \in Int
      /\ SegmentEnd \in Int /\ SegmentEnd \in cursor.start .. To
      /\ HasNext => /\ n \in 1 .. Len(L) /\ SegmentEnd = TimeOf(input, L[n]) /\ SegmentEnd < To
      /\ ~HasNext => SegmentEnd = To
      /\ \A k \in 1 .. Len(L) : k >= n => TimeOf(input, L[k]) >= SegmentEnd
      /\ Alone(input) => \A t \in cursor.start .. SegmentEnd - 1 : L[cursor.held] = InEffectIn(input, t)
  BY <1>1, SegmentFacts
<1>5. Pieces(input, segments', From, SegmentEnd)
  <2>1. CASE SegmentEnd > cursor.start
    <3>1. MaxGap \in Int
      BY ImuIntervalAssumption
    <3>2. /\ SegmentEnd - Held.time <= MaxGap
          /\ Held.time - cursor.start <= MaxGap
      <4>1. HoldSpan = (IF SegmentEnd >= Held.time THEN SegmentEnd ELSE Held.time)
                         - (IF cursor.start <= Held.time THEN cursor.start ELSE Held.time)
        BY DEF HoldSpan
      <4> HIDE DEF Held, SegmentEnd
      <4> QED
        BY <1>1, <1>4, <2>1, <3>1, <4>1
    <3>3. p.reading = L[cursor.held] /\ p.from = cursor.start /\ p.to = SegmentEnd
      OBVIOUS
    <3> HIDE DEF p
    <3>4. GoodPiece(input, p)
      BY <1>4, <2>1, <3>2, <3>3 DEF GoodPiece
    <3>5. Pieces(input, Append(segments, p), From, p.to)
      BY <1>3, <3>3, <3>4, PiecesGrow
    <3> QED
      BY <1>1, <2>1, <3>3, <3>5
  <2>2. CASE ~(SegmentEnd > cursor.start)
    <3>1. SegmentEnd = cursor.start
      BY <1>2, <1>4, <2>2
    <3> QED
      BY <1>1, <1>3, <2>2, <3>1
  <2> QED
    BY <2>1, <2>2
<1>6. CASE HasNext
  <2>1. pc' = "hold" /\ cursor' = [held |-> n, next |-> n + 1, start |-> SegmentEnd]
    BY <1>1, <1>6 DEF Integrate
  <2>2. /\ Len(L) \in Nat
        /\ \A k \in 1 .. Len(L) : TimeOf(input, L[k]) \in Int
        /\ \A j, k \in 1 .. Len(L) : j <= k => TimeOf(input, L[j]) <= TimeOf(input, L[k])
    BY <1>2, <1>3, ListFacts
  <2>3. \A k \in 1 .. Len(L) :
          IF k < n THEN TimeOf(input, L[k]) <= cursor.start
          ELSE TimeOf(input, L[k]) > From
    BY <1>3 DEF CursorAt
  <2> DEFINE c == cursor'
  <2>4. c.held = n /\ c.next = n + 1 /\ c.start = SegmentEnd
    BY <2>1
  <2> HIDE DEF c
  <2>5. \A k \in 1 .. Len(L) :
          IF k < n + 1 THEN TimeOf(input, L[k]) <= SegmentEnd
          ELSE TimeOf(input, L[k]) > From /\ TimeOf(input, L[k]) >= SegmentEnd
    <3> HIDE DEF L, n
    <3> QED
      BY <1>2, <1>4, <1>6, <2>2, <2>3
  <2>6. CursorAt(input, L, c, From, To)
    <3>1. c.next \in 1 .. Len(L) + 1 /\ c.next # 1 /\ c.held = c.next - 1
      BY <1>4, <1>6, <2>2, <2>4
    <3>2. c.start \in From .. To - 1
      BY <1>2, <1>4, <1>6, <2>4
    <3> HIDE DEF L, n
    <3> QED
      BY <2>4, <2>5, <3>1, <3>2 DEF CursorAt
  <2>7. Pieces(input, segments', From, c.start)
    BY <1>5, <2>4
  <2> QED
    BY <1>1, <1>2, <1>3, <2>1, <2>6, <2>7 DEF HoldInv, c
<1>7. CASE ~HasNext
  <2>1. pc' = "close" /\ cursor' = cursor
    BY <1>1, <1>7 DEF Integrate
  <2>2. Pieces(input, segments', From, To)
    BY <1>4, <1>5, <1>7
  <2> QED
    BY <1>1, <1>2, <1>3, <2>1, <2>2 DEF HoldInv
<1> QED
  BY <1>6, <1>7

\* The hold begins at the start of the interval.
LEMMA ProcessHolds ==
  ASSUME input \in Inputs, i \in 2 .. Len(input.boundaries), Process, Refusal = "none"
  PROVE  HoldInv' /\ Lists(input, readings', SliceOf(input, From, To))
<1> DEFINE before == Cardinality({k \in DOMAIN Readings : Sample(Readings[k]).time <= From})
<1>1. /\ input' = input /\ i' = i /\ pc' = "hold" /\ readings' = Readings /\ segments' = <<>>
      /\ cursor' = [held |-> HeldAtStart(before), next |-> before + 1, start |-> From]
  BY DEF Process
<1>2. From \in Int /\ To \in Int /\ From < To /\ From' = From /\ To' = To
  BY <1>1, IntervalFacts DEF From, To
<1>3. Readings # <<>>
  <2>1. Refusal # "no_imu_samples"
    OBVIOUS
  <2> QED
    BY <2>1 DEF Refusal
<1>4. Lists(input, Readings, SliceOf(input, From, To))
  BY ReadingsListSlice
<1> DEFINE b == Cardinality({k \in DOMAIN Readings : TimeOf(input, Readings[k]) <= From})
           c == [held |-> IF b = 0 THEN 1 ELSE b, next |-> b + 1, start |-> From]
<1>5. cursor' = c /\ c.start = From
  BY <1>1 DEF HeldAtStart, Sample, TimeOf
<1>6. CursorAt(input, Readings, c, From, To)
  <2>1. \E e : e = b
    OBVIOUS
  <2> QED
    BY <1>2, <1>3, <1>4, <2>1, CursorAtStart
<1>7. Pieces(input, <<>>, From, From)
  BY NoPieces
<1> HIDE DEF c
<1> QED
  BY <1>1, <1>2, <1>3, <1>4, <1>5, <1>6, <1>7 DEF HoldInv

-----------------------------------------------------------------------------
(* The samples of an edge.                                                  *)

\* The samples of an interval can be counted.
LEMMA WithinFinite ==
  ASSUME input \in Inputs, NEW a, NEW b
  PROVE  IsFiniteSet(Within(input, a, b)) /\ Cardinality(Within(input, a, b)) \in Nat
<1>1. Within(input, a, b) \in SUBSET DOMAIN input.samples
  BY DEF Within, OwnOf
<1> QED
  BY <1>1, SampleFacts, FS_Subset, FS_CardinalityType

\* Neighbouring intervals share no sample.
LEMMA WithinAdds ==
  ASSUME input \in Inputs, NEW a \in Int, NEW b \in Int, NEW c \in Int, a <= b, b <= c
  PROVE  Cardinality(Within(input, a, c))
           = Cardinality(Within(input, a, b)) + Cardinality(Within(input, b, c))
<1> DEFINE A == Within(input, a, b)
           B == Within(input, b, c)
<1>1. \A n \in OwnOf(input) : TimeOf(input, n) \in Int
  BY SampleFacts DEF OwnOf
<1>2. Within(input, a, c) = A \cup B /\ A \cap B = {}
  BY <1>1 DEF Within
<1>3. IsFiniteSet(A) /\ IsFiniteSet(B) /\ Cardinality(A) \in Nat /\ Cardinality(B) \in Nat
  BY WithinFinite
<1> HIDE DEF A, B
<1>4. Cardinality(A \cup B) = Cardinality(A) + Cardinality(B) - Cardinality(A \cap B)
  BY <1>3, FS_Union
<1>5. Cardinality(A \cap B) = 0
  BY <1>2, FS_EmptySet
<1> QED
  BY <1>2, <1>3, <1>4, <1>5 DEF A, B

\* The readings after the start of the interval and up to its end are counted.
LEMMA CountIsWithin ==
  ASSUME input \in Inputs, i \in 2 .. Len(input.boundaries),
         Lists(input, readings, SliceOf(input, From, To)), Separate(input)
  PROVE  SamplesInside = Cardinality(Within(input, From, To))
<1> DEFINE L == readings
           W == SliceOf(input, From, To)
           K == {k \in DOMAIN L : TimeOf(input, L[k]) \in (From + 1) .. (To - 1)}
           A == {n \in OwnOf(input) : TimeOf(input, n) \in (From + 1) .. (To - 1)}
           B == {n \in OwnOf(input) : TimeOf(input, n) = To}
           f == [k \in K |-> L[k]]
<1>1. From \in Int /\ To \in Int /\ From < To
  BY IntervalFacts
<1>2. /\ Len(L) \in Nat /\ DOMAIN L = 1 .. Len(L)
      /\ \A k \in 1 .. Len(L) :
           L[k] \in OwnOf(input) /\ L[k] \in DOMAIN input.samples /\ TimeOf(input, L[k]) \in Int
      /\ \A j, k \in 1 .. Len(L) : j < k => Before(input, L[j], L[k])
  BY <1>1, ListFacts
<1>3. \A n \in OwnOf(input) :
        n \in DOMAIN input.samples /\ TimeOf(input, n) \in Int
  BY SampleFacts DEF OwnOf
<1>4. \A n \in OwnOf(input) :
        TimeOf(input, n) \in (From + 1) .. To => \E k \in 1 .. Len(L) : L[k] = n
  <2>1. \A n \in OwnOf(input) : TimeOf(input, n) \in (From + 1) .. To => n \in W
    BY <1>1, SliceFacts
  <2>2. \A n \in W : \E k \in 1 .. Len(L) : L[k] = n
    BY DEF Lists
  <2> QED
    BY <2>1, <2>2
<1>5. IsFiniteSet(K)
  <2>1. K \in SUBSET (1 .. Len(L)) /\ IsFiniteSet(1 .. Len(L))
    BY <1>2, FS_Interval
  <2> QED
    BY <2>1, FS_Subset
<1>6. f \in Bijection(K, A)
  <2>1. f \in [K -> A]
    BY <1>2
  <2>2. ASSUME NEW j \in K, NEW k \in K, f[j] = f[k] PROVE j = k
    <3>1. j \in 1 .. Len(L) /\ k \in 1 .. Len(L) /\ L[j] = L[k] /\ ~Before(input, L[j], L[j])
      BY <1>2, <2>2, OrderFacts
    <3>2. ~(j < k) /\ ~(k < j)
      BY <1>2, <3>1
    <3> QED
      BY <1>2, <3>1, <3>2
  <2>3. ASSUME NEW n \in A PROVE \E k \in K : f[k] = n
    <3>1. n \in OwnOf(input) /\ TimeOf(input, n) \in (From + 1) .. (To - 1)
      OBVIOUS
    <3>2. TimeOf(input, n) \in (From + 1) .. To
      BY <1>1, <3>1
    <3>3. PICK k \in 1 .. Len(L) : L[k] = n
      BY <1>4, <3>1, <3>2
    <3>4. k \in K
      BY <1>2, <3>1, <3>3
    <3> QED
      BY <3>3, <3>4
  <2> HIDE DEF f, K, A
  <2> QED
    BY <2>1, <2>2, <2>3 DEF Bijection, Injection, Surjection, IsInjective
<1>7. Cardinality(A) = Cardinality(K) /\ IsFiniteSet(A)
  <2>1. ExistsBijection(K, A)
    BY <1>6 DEF ExistsBijection
  <2> HIDE DEF K, A
  <2> QED
    BY <1>5, <2>1, FS_Bijection
<1>8. SamplesInside = Cardinality(K) + (IF \E k \in DOMAIN L : TimeOf(input, L[k]) = To THEN 1 ELSE 0)
  BY DEF SamplesInside, Sample, TimeOf
<1>9. IsFiniteSet(B) /\ Cardinality(B) = IF \E k \in DOMAIN L : TimeOf(input, L[k]) = To THEN 1 ELSE 0
  <2>1. CASE \E k \in DOMAIN L : TimeOf(input, L[k]) = To
    <3>1. PICK k \in DOMAIN L : TimeOf(input, L[k]) = To
      BY <2>1
    <3>2. L[k] \in B
      BY <1>2, <3>1
    <3>3. \A n \in B : n = L[k]
      BY <3>2 DEF Separate
    <3>4. B = {L[k]}
      BY <3>2, <3>3
    <3> HIDE DEF B, L
    <3> QED
      BY <2>1, <3>4, FS_Singleton
  <2>2. CASE ~\E k \in DOMAIN L : TimeOf(input, L[k]) = To
    <3>1. ASSUME NEW n \in B PROVE FALSE
      <4>1. n \in OwnOf(input) /\ TimeOf(input, n) = To
        OBVIOUS
      <4>2. TimeOf(input, n) \in (From + 1) .. To
        BY <1>1, <4>1
      <4>3. PICK k \in 1 .. Len(L) : L[k] = n
        BY <1>4, <4>1, <4>2
      <4> QED
        BY <1>2, <2>2, <4>1, <4>3
    <3>2. B = {}
      BY <3>1
    <3> HIDE DEF B
    <3> QED
      BY <2>2, <3>2, FS_EmptySet
  <2> QED
    BY <2>1, <2>2
<1>10. Within(input, From, To) = A \cup B /\ A \cap B = {}
  <2>1. \A x \in Int : x \in (From + 1) .. To <=> (x \in (From + 1) .. (To - 1) \/ x = To)
    BY <1>1
  <2>2. \A x \in Int : ~(x \in (From + 1) .. (To - 1) /\ x = To)
    BY <1>1
  <2> QED
    BY <1>3, <2>1, <2>2 DEF Within
<1> HIDE DEF A, B, K
<1>11. Cardinality(A \cup B) = Cardinality(A) + Cardinality(B) - Cardinality(A \cap B)
  BY <1>7, <1>9, FS_Union
<1>12. Cardinality(A \cap B) = 0 /\ Cardinality(A) \in Nat /\ Cardinality(B) \in Nat
  BY <1>7, <1>9, <1>10, FS_EmptySet, FS_CardinalityType
<1> QED
  BY <1>7, <1>8, <1>9, <1>10, <1>11, <1>12

-----------------------------------------------------------------------------
(* The steps of the frontend.                                               *)

\* Nothing is read and nothing is registered before the first interval.
LEMMA JStart == Init => JInv
<1> SUFFICES ASSUME Init PROVE JInv
  OBVIOUS
<1>1. Len(input.boundaries) \in Nat /\ Len(input.boundaries) >= 2
  BY BoundaryFacts DEF Init
<1>2. /\ pc = "initialize" /\ i = 2 /\ frontend.failures = 0 /\ readings = <<>>
      /\ edges = <<>> /\ Len(edges) = 0
  BY DEF Init
<1>3. readings \in Seq(OwnOf(input))
  BY <1>2, EmptySeq
<1> QED
  BY <1>1, <1>2, <1>3 DEF JInv, HoldInv

\* Steps that end outside the hold loop and register nothing.
LEMMA OutsideKeeps ==
  ASSUME JInv, input' = input, edges' = edges, readings' = readings,
         pc' \in {"interval", "solve", "failed"},
         i' \in 2 .. Len(input.boundaries) + 1, frontend'.failures \in 0 .. i' - 2
  PROVE  JInv'
<1>1. \A k \in 1 .. Len(edges') : GoodEdge(input', edges'[k])
  BY DEF JInv
<1> QED
  BY <1>1 DEF JInv, HoldInv

\* The loop variable and the count of failures go up together.
LEMMA JFacts ==
  ASSUME IInv, JInv
  PROVE  /\ input \in Inputs /\ i \in Int
         /\ Len(input.boundaries) \in Nat /\ frontend.failures \in Nat
         /\ pc \in {"hold", "close"} => i \in 2 .. Len(input.boundaries)
         /\ i <= Len(input.boundaries) => i + 1 \in 2 .. Len(input.boundaries) + 1
         /\ frontend.failures + 1 \in 0 .. (i + 1) - 2 /\ frontend.failures \in 0 .. (i + 1) - 2
         /\ 0 \in 0 .. (i + 1) - 2
<1>1. input \in Inputs /\ Len(input.boundaries) \in Nat
  BY BoundaryFacts DEF IInv
<1>2. i \in 2 .. Len(input.boundaries) + 1 /\ frontend.failures \in 0 .. i - 2
  BY DEF JInv
<1>3. pc \in {"hold", "close"} => i <= Len(input.boundaries)
  BY DEF IInv, Abreast
<1> QED
  BY <1>1, <1>2, <1>3

\* A rejection registers nothing.
LEMMA RejectHolds ==
  ASSUME IInv, JInv, NEW reason, Reject(reason), i <= Len(input.boundaries)
  PROVE  JInv'
<1>1. /\ input' = input /\ edges' = edges /\ readings' = readings /\ pc' = "interval"
      /\ i' = i + 1 /\ frontend'.failures = frontend.failures + 1
  BY DEF Reject, NextInterval
<1> QED
  BY <1>1, JFacts, OutsideKeeps

\* An edge takes over the segments and the count of its interval.
LEMMA EvidenceHolds ==
  ASSUME IInv, JInv, Evidence
  PROVE  JInv'
<1>1. /\ pc = "close" /\ pc' = "interval" /\ i' = i + 1 /\ input' = input /\ readings' = readings
      /\ frontend'.failures = 0
  BY DEF Evidence, NextInterval
<1>2. input \in Inputs /\ i \in 2 .. Len(input.boundaries) /\ i' \in 2 .. Len(input.boundaries) + 1
  BY <1>1, JFacts
<1>3. PICK accepted \in BOOLEAN : Register(accepted)
  BY DEF Evidence
<1>4. CASE ~accepted
  <2>1. edges' = edges
    BY <1>3, <1>4 DEF Register
  <2> QED
    BY <1>1, <1>2, <2>1, JFacts, OutsideKeeps
<1>5. CASE accepted
  <2> DEFINE e == [from |-> From, to |-> To, count |-> SamplesInside, segments |-> segments]
             S == Range(edges) \cup {e}
  <2>1. edges' = Append(edges, e)
    BY <1>3, <1>5 DEF Register
  <2>2. edges \in Seq(S) /\ e \in S
    <3>1. edges \in Seq(Range(edges)) /\ Range(edges) \subseteq S
      BY DEF IInv
    <3> QED
      BY <3>1, SeqMonotonic
  <2>3. GoodEdge(input, e)
    <3>1. From < To
      BY <1>2, IntervalFacts
    <3>2. Pieces(input, segments, From, To) /\ Lists(input, readings, SliceOf(input, From, To))
      BY <1>1 DEF JInv, HoldInv
    <3>3. Separate(input) => SamplesInside = Cardinality(Within(input, From, To))
      BY <1>2, <3>2, CountIsWithin
    <3>4. e.from = From /\ e.to = To /\ e.count = SamplesInside /\ e.segments = segments
      OBVIOUS
    <3> HIDE DEF e
    <3> QED
      BY <3>1, <3>2, <3>3, <3>4 DEF GoodEdge
  <2> HIDE DEF e, S
  <2>4. /\ Len(edges') = Len(edges) + 1 /\ Len(edges) \in Nat /\ edges'[Len(edges) + 1] = e
        /\ \A k \in 1 .. Len(edges) : edges'[k] = edges[k]
    BY <2>1, <2>2, AppendProperties, LenProperties
  <2>5. ASSUME NEW k \in 1 .. Len(edges') PROVE GoodEdge(input, edges'[k])
    <3>1. k \in 1 .. Len(edges) \/ k = Len(edges) + 1
      BY <2>4
    <3> QED
      BY <2>3, <2>4, <3>1 DEF JInv
  <2>6. 0 \in 0 .. i' - 2
    BY <1>1, JFacts
  <2> QED
    BY <1>1, <1>2, <2>5, <2>6 DEF JInv, HoldInv
<1> QED
  BY <1>4, <1>5

\* No step of the frontend or the pipeline leaves the invariant.
LEMMA JStep == IInv /\ JInv /\ [Next]_vars => JInv'
<1> SUFFICES ASSUME IInv, JInv, [Next]_vars PROVE JInv'
  OBVIOUS
<1>0. input \in Inputs
  BY JFacts
<1>1. CASE UNCHANGED vars
  <2>1. From' = From /\ To' = To
    BY <1>1 DEF vars, From, To
  <2> QED
    BY <1>1, <2>1 DEF vars, JInv, HoldInv
<1>2. CASE InitializeFromStationaryWindow
  <2>1. /\ input' = input /\ edges' = edges /\ readings' = readings
        /\ pc' \in {"interval", "failed"} /\ i' = i /\ frontend' = frontend
    BY <1>2 DEF InitializeFromStationaryWindow
  <2>2. i' \in 2 .. Len(input.boundaries) + 1 /\ frontend'.failures \in 0 .. i' - 2
    BY <2>1 DEF JInv
  <2> QED
    BY <2>1, <2>2, OutsideKeeps
<1>3. CASE SkipInterval
  <2>1. /\ input' = input /\ edges' = edges /\ readings' = readings
        /\ pc' = "interval" /\ i' = i + 1 /\ frontend' = frontend /\ i <= Len(input.boundaries)
    BY <1>3 DEF SkipInterval, NextInterval
  <2> QED
    BY <2>1, JFacts, OutsideKeeps
<1>4. CASE Process
  <2>1. i \in 2 .. Len(input.boundaries)
    BY <1>4, JFacts DEF Process, JInv
  <2>2. CASE Refusal # "none"
    BY <1>4, <2>1, <2>2, RejectHolds DEF Process
  <2>3. CASE Refusal = "none"
    <3>1. HoldInv' /\ Lists(input, readings', SliceOf(input, From, To))
      BY <1>0, <1>4, <2>1, <2>3, ProcessHolds
    <3>2. readings' \in Seq(OwnOf(input))
      BY <1>0, <2>1, <3>1, ListFacts, IntervalFacts
    <3>3. /\ input' = input /\ i' = i /\ edges' = edges /\ frontend' = frontend /\ pc' = "hold"
      BY <1>4, <2>3 DEF Process
    <3> QED
      BY <3>1, <3>2, <3>3 DEF JInv
  <2> QED
    BY <2>2, <2>3
<1>5. CASE GapTooLarge
  BY <1>5, JFacts, RejectHolds DEF GapTooLarge
<1>6. CASE Integrate
  <2>1. i \in 2 .. Len(input.boundaries) /\ HoldInv
    BY <1>6, JFacts DEF Integrate, JInv
  <2>2. HoldInv'
    BY <1>0, <1>6, <2>1, IntegrateHolds
  <2>3. /\ input' = input /\ i' = i /\ edges' = edges /\ frontend' = frontend
        /\ readings' = readings /\ pc' \in {"hold", "close"}
    BY <1>6 DEF Integrate
  <2> QED
    BY <2>2, <2>3 DEF JInv
<1>7. CASE TooFewSamples
  BY <1>7, JFacts, RejectHolds DEF TooFewSamples
<1>8. CASE Evidence
  BY <1>8, EvidenceHolds
<1>9. CASE Finish
  <2>1. /\ input' = input /\ edges' = edges /\ readings' = readings
        /\ pc' \in {"solve", "failed"} /\ i' = i /\ frontend' = frontend
    BY <1>9 DEF Finish
  <2>2. i' \in 2 .. Len(input.boundaries) + 1 /\ frontend'.failures \in 0 .. i' - 2
    BY <2>1 DEF JInv
  <2> QED
    BY <2>1, <2>2, OutsideKeeps
<1> QED
  BY <1>1, <1>2, <1>3, <1>4, <1>5, <1>6, <1>7, <1>8, <1>9 DEF Next

\* Both invariants hold of every state.
LEMMA JAlways == Spec => [](IInv /\ JInv)
<1>1. IInv /\ JInv /\ [Next]_vars => IInv' /\ JInv'
  BY Step, JStep
<1>2. Init => IInv /\ JInv
  BY Start, JStart
<1> QED
  BY <1>1, <1>2, PTL DEF Spec

\* What every edge in the graph is made of.
LEMMA EdgePieces ==
  ASSUME IInv, JInv, NEW k \in DOMAIN edges
  PROVE  /\ k \in 1 .. Len(edges) /\ Len(edges) \in Nat
         /\ edges[k].from < edges[k].to
         /\ Pieces(input, edges[k].segments, edges[k].from, edges[k].to)
         /\ DOMAIN edges[k].segments = 1 .. Len(edges[k].segments)
         /\ Separate(input) =>
              edges[k].count = Cardinality(Within(input, edges[k].from, edges[k].to))
<1>1. k \in 1 .. Len(edges) /\ Len(edges) \in Nat
  BY EdgeFacts
<1>2. GoodEdge(input, edges[k])
  BY <1>1 DEF JInv
<1>3. edges[k].segments \in Seq(Range(edges[k].segments))
  BY <1>2 DEF GoodEdge, Pieces
<1> QED
  BY <1>1, <1>2, <1>3, LenProperties DEF GoodEdge

\* For any samples and boundaries the cursor of the hold loop points at readings
\* of the sensor, and the loop ends inside the boundaries.
THEOREM TypeCorrect == Spec => []TypeOK
<1>1. ASSUME IInv, JInv PROVE TypeOK
  <2>1. /\ pc \in {"initialize", "interval", "hold", "close", "solve", "failed"}
        /\ i \in 2 .. Len(input.boundaries) + 1
    BY <1>1 DEF JInv
  <2>2. \A k \in DOMAIN readings : readings[k] \in Own
    <3>1. readings \in Seq(OwnOf(input))
      BY <1>1 DEF JInv
    <3> QED
      BY <3>1, OwnFacts, ElementOfSeq, LenProperties
  <2>3. ASSUME pc \in {"hold", "close"}
        PROVE  /\ cursor.held \in DOMAIN readings /\ cursor.next \in 1 .. Len(readings) + 1
               /\ cursor.start \in From .. To
    <3>1. i \in 2 .. Len(input.boundaries) /\ input \in Inputs
      BY <1>1, <2>3, JFacts
    <3>2. From \in Int /\ To \in Int /\ From < To
      BY <3>1, IntervalFacts
    <3>3. /\ Lists(input, readings, SliceOf(input, From, To)) /\ readings # <<>>
          /\ CursorAt(input, readings, cursor, From, To)
      BY <1>1, <2>3 DEF JInv, HoldInv
    <3>4. Len(readings) \in Nat /\ DOMAIN readings = 1 .. Len(readings) /\ Len(readings) # 0
      BY <3>1, <3>2, <3>3, ListFacts, EmptySeq DEF Lists
    <3> QED
      BY <3>2, <3>3, <3>4 DEF CursorAt
  <2>4. frontend.failures \in 0 .. Len(input.boundaries)
    <3>1. frontend.failures \in 0 .. i - 2
      BY <1>1 DEF JInv
    <3> QED
      BY <1>1, <2>1, <3>1, JFacts
  <2> QED
    BY <2>1, <2>2, <2>3, <2>4 DEF TypeOK
<1> QED
  BY <1>1, JAlways, PTL

\* No edge holds a reading over an instant further than the gap from when the
\* reading was captured, whatever the samples and the limits.
THEOREM NoStaleReadingCorrect == Spec => []NoStaleReading
<1>1. ASSUME IInv, JInv PROVE NoStaleReading
  <2>1. ASSUME NEW k \in DOMAIN edges, NEW n \in DOMAIN edges[k].segments
        PROVE  LET s == edges[k].segments[n]
                   time == Sample(s.reading).time
               IN s.to - time <= MaxGap /\ time - s.from <= MaxGap
    <3>1. n \in 1 .. Len(edges[k].segments) /\ Pieces(input, edges[k].segments, edges[k].from, edges[k].to)
      BY <1>1, <2>1, EdgePieces
    <3> QED
      BY <3>1 DEF Pieces, GoodPiece, TimeOf, Sample
  <2> QED
    BY <2>1 DEF NoStaleReading
<1> QED
  BY <1>1, JAlways, PTL

\* Of any bag with one IMU, cut into whatever slices, every edge covers its
\* interval end to end with the readings in effect in the whole stream.
THEOREM SliceIsEnoughCorrect == Spec => []SliceIsEnough
<1>1. ASSUME IInv, JInv PROVE SliceIsEnough
  <2> SUFFICES ASSUME \A n \in DOMAIN input.samples : n \in Own, NEW k \in DOMAIN edges
               PROVE  LET s == edges[k].segments IN
                      /\ s # <<>> /\ s[1].from = edges[k].from /\ s[Len(s)].to = edges[k].to
                      /\ \A n \in DOMAIN s :
                           /\ n > 1 => s[n].from = s[n - 1].to
                           /\ \A t \in s[n].from .. s[n].to - 1 : s[n].reading = InEffect(t)
    BY DEF SliceIsEnough, HeldAsDocumented
  <2> DEFINE s == edges[k].segments
  <2>1. Alone(input)
    BY OwnFacts DEF Alone
  <2>2. /\ edges[k].from < edges[k].to /\ Pieces(input, s, edges[k].from, edges[k].to)
        /\ DOMAIN s = 1 .. Len(s)
    BY <1>1, EdgePieces
  <2> HIDE DEF s
  <2>3. edges[k].from # edges[k].to
    <3>1. edges[k].from = input.boundaries[k] /\ edges[k].to = input.boundaries[k + 1]
      BY <1>1, EdgePieces DEF IInv, Chained
    <3>2. k \in 1 .. Len(input.boundaries) /\ k + 1 \in 1 .. Len(input.boundaries)
      <4>1. k \in 1 .. Len(edges) /\ Len(edges) \in Nat /\ edges # <<>>
        BY <1>1, EdgePieces
      <4>2. Len(edges) + 1 \in 1 .. Len(input.boundaries) /\ Len(input.boundaries) \in Nat
        BY <1>1, <4>1, JFacts DEF IInv, Prefix
      <4> QED
        BY <4>1, <4>2
    <3>3. input.boundaries[k] \in Int /\ input.boundaries[k + 1] \in Int
      BY <1>1, <3>2, BoundaryFacts, JFacts, ElementOfSeq
    <3> QED
      BY <2>2, <3>1, <3>3
  <2>4. s # <<>> /\ s[1].from = edges[k].from /\ s[Len(s)].to = edges[k].to
    BY <2>2, <2>3 DEF Pieces
  <2>5. ASSUME NEW n \in DOMAIN s
        PROVE  /\ n > 1 => s[n].from = s[n - 1].to
               /\ \A t \in s[n].from .. s[n].to - 1 : s[n].reading = InEffect(t)
    BY <2>1, <2>2, EffectFacts DEF Pieces, GoodPiece
  <2> QED
    BY <2>4, <2>5 DEF s
<1> QED
  BY <1>1, JAlways, PTL

-----------------------------------------------------------------------------
(* The sum of the counts.                                                   *)

CountsTo(n, s, f) == f[0] = 0 /\ \A k \in 1 .. n : f[k] = f[k - 1] + s[k].count

\* A set of numbers up to N that holds 0, and each number after one it holds.
LEMMA UpTo ==
  ASSUME NEW N \in Nat, NEW T, T \subseteq 0 .. N, 0 \in T,
         \A n \in 1 .. N : n - 1 \in T => n \in T
  PROVE  T = 0 .. N
<1> DEFINE R == (0 .. N) \ T
<1>1. ASSUME R # {} PROVE FALSE
  <2>1. PICK n \in R : \A m \in R : n <= m
    <3>1. R \subseteq Nat
      OBVIOUS
    <3> HIDE DEF R
    <3> QED
      BY <1>1, <3>1, LeastElement
  <2>2. n \in 1 .. N /\ n - 1 \in 0 .. N /\ n - 1 \notin R
    BY <2>1
  <2> QED
    BY <2>1, <2>2
<1> QED
  BY <1>1

\* The running sums of the counts exist.
LEMMA CountsExist ==
  ASSUME NEW N \in Nat, NEW s
  PROVE  \E f : f = [k \in 0 .. N |-> f[k]] /\ CountsTo(N, s, f)
<1> DEFINE T == {n \in 0 .. N : \E f : f = [k \in 0 .. n |-> f[k]] /\ CountsTo(n, s, f)}
<1>1. 0 \in T
  <2> DEFINE f == [k \in 0 .. 0 |-> 0]
  <2>1. f = [k \in 0 .. 0 |-> f[k]] /\ CountsTo(0, s, f)
    BY DEF CountsTo
  <2> QED
    BY <2>1
<1>2. ASSUME NEW n \in 1 .. N, n - 1 \in T PROVE n \in T
  <2>1. PICK f : f = [k \in 0 .. n - 1 |-> f[k]] /\ CountsTo(n - 1, s, f)
    BY <1>2
  <2> DEFINE e == f[n - 1] + s[n].count
             g == [k \in 0 .. n |-> IF k = n THEN e ELSE f[k]]
  <2>2. g = [k \in 0 .. n |-> g[k]]
    OBVIOUS
  <2>3. g[0] = 0
    BY <2>1 DEF CountsTo
  <2>4. ASSUME NEW k \in 1 .. n PROVE g[k] = g[k - 1] + s[k].count
    <3>1. CASE k = n
      BY <3>1
    <3>2. CASE k # n
      <4>1. k \in 1 .. n - 1 /\ k - 1 # n /\ k \in 0 .. n /\ k - 1 \in 0 .. n
        BY <3>2
      <4>2. g[k] = f[k] /\ g[k - 1] = f[k - 1]
        BY <3>2, <4>1
      <4>3. f[k] = f[k - 1] + s[k].count
        BY <2>1, <4>1 DEF CountsTo
      <4> QED
        BY <4>2, <4>3
    <3> QED
      BY <3>1, <3>2
  <2>5. CountsTo(n, s, g)
    BY <2>3, <2>4 DEF CountsTo
  <2> HIDE DEF g
  <2> QED
    BY <2>2, <2>5
<1>3. T = 0 .. N
  <2> HIDE DEF T
  <2>1. T \subseteq 0 .. N
    BY DEF T
  <2> QED
    BY <1>1, <1>2, <2>1, UpTo
<1>4. N \in T
  BY <1>3
<1> QED
  BY <1>4

\* EdgeCounts is the last of the running sums.
LEMMA EdgeCountsSum ==
  ASSUME Len(edges) \in Nat
  PROVE  \E f : CountsTo(Len(edges), edges, f) /\ EdgeCounts = f[Len(edges)]
<1> DEFINE N == Len(edges)
           NextOf(f) == [n \in 0 .. N |-> IF n = 0 THEN 0 ELSE f[n - 1] + edges[n].count]
           total == CHOOSE f : f = NextOf(f)
<1>2. \E f : f = NextOf(f)
  <2>1. PICK f : f = [n \in 0 .. N |-> f[n]] /\ CountsTo(N, edges, f)
    BY CountsExist
  <2>2. ASSUME NEW n \in 0 .. N PROVE f[n] = NextOf(f)[n]
    <3>1. CASE n = 0
      BY <2>1, <3>1 DEF CountsTo
    <3>2. CASE n # 0
      <4>1. n \in 1 .. N
        BY <3>2
      <4>2. f[n] = f[n - 1] + edges[n].count
        BY <2>1, <4>1 DEF CountsTo
      <4> QED
        BY <3>2, <4>2
    <3> QED
      BY <3>1, <3>2
  <2>3. NextOf(f) = [n \in 0 .. N |-> NextOf(f)[n]]
    OBVIOUS
  <2>4. f = NextOf(f)
    <3> HIDE DEF NextOf
    <3>1. [n \in 0 .. N |-> f[n]] = [n \in 0 .. N |-> NextOf(f)[n]]
      BY <2>2
    <3> QED
      BY <2>1, <2>3, <3>1
  <2> QED
    BY <2>4
<1>3. total = NextOf(total)
  <2> HIDE DEF NextOf
  <2> QED
    BY <1>2
<1>4. EdgeCounts = total[N]
  BY DEF EdgeCounts
<1> HIDE DEF total
<1>5. CountsTo(N, edges, total)
  <2>1. \A n \in 0 .. N : total[n] = IF n = 0 THEN 0 ELSE total[n - 1] + edges[n].count
    <3>1. \A n \in 0 .. N : NextOf(total)[n] = IF n = 0 THEN 0 ELSE total[n - 1] + edges[n].count
      OBVIOUS
    <3> HIDE DEF NextOf
    <3> QED
      BY <1>3, <3>1
  <2>2. 0 \in 0 .. N /\ \A n \in 1 .. N : n \in 0 .. N /\ n # 0
    OBVIOUS
  <2> QED
    BY <2>1, <2>2 DEF CountsTo
<1> QED
  BY <1>4, <1>5

\* Neighbouring intervals share no sample and lose none, for any bag in which no
\* two samples of the sensor carry one time.
THEOREM SamplesCountedOnceCorrect == Spec => []SamplesCountedOnce
<1>1. ASSUME IInv, JInv PROVE SamplesCountedOnce
  <2> SUFFICES ASSUME \A m, n \in Own : m # n => Sample(m).time # Sample(n).time, graph # <<>>
               PROVE  EdgeCounts
                        = Cardinality({n \in Own : Sample(n).time \in (graph[1] + 1) .. graph[Len(graph)]})
    BY DEF SamplesCountedOnce
  <2> DEFINE N == Len(edges)
             b == input.boundaries
  <2>1. Separate(input)
    BY OwnFacts DEF Separate, TimeOf, Sample
  <2>2. input \in Inputs /\ N \in Nat /\ N + 1 \in 1 .. Len(b) /\ Len(b) \in Nat
    BY <1>1, JFacts, EdgeFacts DEF IInv, Prefix
  <2>3. \A k \in 1 .. Len(b) : b[k] \in Int
    BY <2>2, BoundaryFacts, ElementOfSeq
  <2>4. \A j, k \in 1 .. Len(b) : j < k => b[j] < b[k]
    BY <2>2, BoundaryFacts
  <2>5. PICK f : CountsTo(N, edges, f) /\ EdgeCounts = f[N]
    BY <2>2, EdgeCountsSum
  <2>6. ASSUME NEW k \in 1 .. N
        PROVE  edges[k].count = Cardinality(Within(input, b[k], b[k + 1]))
    <3>1. k \in DOMAIN edges
      BY <1>1, EdgeFacts
    <3>2. edges[k].from = b[k] /\ edges[k].to = b[k + 1]
      BY <1>1 DEF IInv, Chained
    <3> QED
      BY <1>1, <2>1, <3>1, <3>2, EdgePieces
  <2> DEFINE T == {n \in 0 .. N : f[n] = Cardinality(Within(input, b[1], b[n + 1]))}
  <2>7. 0 \in T
    <3>1. Within(input, b[1], b[1]) = {}
      <4>1. (b[1] + 1) .. b[1] = {}
        BY <2>2, <2>3
      <4> QED
        BY <4>1 DEF Within
    <3>2. f[0] = 0
      BY <2>5 DEF CountsTo
    <3>3. Cardinality(Within(input, b[1], b[1])) = 0
      BY <3>1, FS_EmptySet
    <3>4. f[0] = Cardinality(Within(input, b[1], b[0 + 1])) /\ 0 \in 0 .. N
      BY <2>2, <3>2, <3>3
    <3> QED
      BY <3>4
  <2>8. ASSUME NEW n \in 1 .. N, n - 1 \in T PROVE n \in T
    <3>1. f[n] = f[n - 1] + edges[n].count
      BY <2>5 DEF CountsTo
    <3>2. f[n - 1] = Cardinality(Within(input, b[1], b[n]))
      BY <2>2, <2>8
    <3>3. 1 \in 1 .. Len(b) /\ n \in 1 .. Len(b) /\ n + 1 \in 1 .. Len(b) /\ n < n + 1
      BY <2>2
    <3>4. b[1] \in Int /\ b[n] \in Int /\ b[n + 1] \in Int /\ b[1] <= b[n] /\ b[n] <= b[n + 1]
      <4>1. n = 1 \/ 1 < n
        OBVIOUS
      <4> QED
        BY <2>3, <2>4, <3>3, <4>1
    <3>5. Cardinality(Within(input, b[1], b[n + 1]))
            = Cardinality(Within(input, b[1], b[n])) + Cardinality(Within(input, b[n], b[n + 1]))
      BY <2>2, <3>4, WithinAdds
    <3> QED
      BY <2>2, <2>6, <3>1, <3>2, <3>5
  <2>9. T = 0 .. N
    <3>1. T \subseteq 0 .. N
      OBVIOUS
    <3> HIDE DEF T
    <3> QED
      BY <2>2, <2>7, <2>8, <3>1, UpTo
  <2>10. f[N] = Cardinality(Within(input, b[1], b[N + 1]))
    <3>1. N \in T
      BY <2>2, <2>9
    <3> QED
      BY <3>1
  <2>11. graph[1] = b[1] /\ graph[Len(graph)] = b[N + 1]
    <3>1. Len(graph) = N + 1 /\ \A k \in 1 .. Len(graph) : graph[k] = b[k]
      BY <1>1, GraphFacts
    <3> QED
      BY <2>2, <3>1
  <2>12. {n \in Own : Sample(n).time \in (graph[1] + 1) .. graph[Len(graph)]}
           = Within(input, b[1], b[N + 1])
    BY <2>11, OwnFacts DEF Within, Sample, TimeOf
  <2> QED
    BY <2>5, <2>10, <2>12
<1> QED
  BY <1>1, JAlways, PTL
=============================================================================
