------------------------ MODULE SonarFrontendProofs ------------------------
(***************************************************************************)
(* Dbscan computes the clusters of its definition, for any contacts, radius *)
(* and number of neighbours, and Health() speaks of the answers given, for  *)
(* any frames and configurations.                                           *)
(***************************************************************************)
EXTENDS SonarFrontend, TLAPS, FunctionTheorems, FiniteSetTheorems, SequenceTheorems

-----------------------------------------------------------------------------
(* Sequences of indices.                                                    *)

\* InOrder lists each member of a finite set of indices, and nothing else.
LEMMA InOrderLists ==
  ASSUME NEW S \in SUBSET Nat, IsFiniteSet(S)
  PROVE  /\ InOrder(S) \in Seq(S) /\ Len(InOrder(S)) = Cardinality(S)
         /\ \A i \in S : \E k \in 1 .. Len(InOrder(S)) : InOrder(S)[k] = i
<1> DEFINE Below(i) == {j \in S : j < i}
           n == Cardinality(S)
           rank == [i \in S |-> Cardinality(Below(i))]
<1>0. n \in Nat
  BY FS_CardinalityType
<1>1. ASSUME NEW i \in S
      PROVE  IsFiniteSet(Below(i)) /\ Cardinality(Below(i)) \in 0 .. n - 1
  <2>1. Below(i) \in SUBSET S /\ i \notin Below(i)
    OBVIOUS
  <2> HIDE DEF Below
  <2>2. IsFiniteSet(Below(i)) /\ Cardinality(Below(i)) <= n /\ Cardinality(Below(i)) # n
    BY <2>1, <1>1, FS_Subset
  <2>3. Cardinality(Below(i)) \in Nat
    BY <2>2, FS_CardinalityType
  <2> HIDE DEF n
  <2> QED
    BY <1>0, <2>2, <2>3
<1>2. ASSUME NEW i \in S, NEW j \in S, i < j
      PROVE  Cardinality(Below(i)) < Cardinality(Below(j))
  <2>0. i \in Nat /\ j \in Nat /\ S \subseteq Nat
    OBVIOUS
  <2>1. i \notin Below(i) /\ Below(i) \cup {i} \subseteq Below(j)
    <3>1. \A x \in Below(i) : x \in Nat /\ x \in S /\ x < i
      BY <2>0
    <3>2. \A x \in Below(i) : x < j
      BY <2>0, <3>1, <1>2
    <3>3. i \in Below(j) /\ ~ (i < i)
      BY <2>0, <1>2
    <3> QED
      BY <3>1, <3>2, <3>3
  <2> HIDE DEF Below
  <2>2. Cardinality(Below(i) \cup {i}) = Cardinality(Below(i)) + 1
    BY <1>1, <2>1, FS_AddElement
  <2>3. Cardinality(Below(i) \cup {i}) <= Cardinality(Below(j))
    <3>1. Below(i) \cup {i} \in SUBSET Below(j)
      BY <2>1
    <3> QED
      BY <1>1, <3>1, FS_Subset
  <2>4. Cardinality(Below(i)) \in Nat /\ Cardinality(Below(j)) \in Nat
    BY <1>1
  <2> QED
    BY <2>2, <2>3, <2>4
<1>3. rank \in Injection(S, 0 .. n - 1)
  <2> HIDE DEF Below, n
  <2>1. rank \in [S -> 0 .. n - 1]
    BY <1>1
  <2>2. ASSUME NEW i \in S, NEW j \in S, rank[i] = rank[j] PROVE i = j
    <3>1. Cardinality(Below(i)) = Cardinality(Below(j)) /\ Cardinality(Below(i)) \in Nat
      BY <1>1, <2>2
    <3>2. i < j \/ j < i \/ i = j
      OBVIOUS
    <3> QED
      BY <1>2, <3>1, <3>2
  <2> QED
    BY <2>1, <2>2 DEF Injection, IsInjective
<1>4. rank \in Surjection(S, 0 .. n - 1)
  <2>1. IsFiniteSet(0 .. n - 1) /\ Cardinality(0 .. n - 1) = n
    <3> HIDE DEF n
    <3>1. IsFiniteSet(0 .. n - 1) /\ Cardinality(0 .. n - 1) = IF 0 > n - 1 THEN 0 ELSE n - 1 - 0 + 1
      BY <1>0, FS_Interval
    <3> QED
      BY <1>0, <3>1
  <2> HIDE DEF rank
  <2> QED
    BY <1>3, <2>1, FS_Injection
<1>5. ASSUME NEW k \in 1 .. n PROVE \E i \in S : Cardinality(Below(i)) = k - 1
  <2>1. k - 1 \in 0 .. n - 1
    BY <1>0
  <2>2. PICK i \in S : rank[i] = k - 1
    BY <1>4, <2>1 DEF Surjection
  <2> QED
    BY <2>2
<1>6. InOrder(S) = [k \in 1 .. n |-> CHOOSE i \in S : Cardinality(Below(i)) = k - 1]
  BY DEF InOrder
<1> HIDE DEF Below, n, rank
<1>7. ASSUME NEW k \in 1 .. n
      PROVE  InOrder(S)[k] \in S /\ Cardinality(Below(InOrder(S)[k])) = k - 1
  BY <1>5, <1>6
<1>8. InOrder(S) \in Seq(S) /\ Len(InOrder(S)) = n
  <2>1. InOrder(S) \in [1 .. n -> S]
    BY <1>6, <1>7
  <2> QED
    BY <1>0, <2>1
<1>9. ASSUME NEW i \in S PROVE \E k \in 1 .. n : InOrder(S)[k] = i
  <2> DEFINE k == Cardinality(Below(i)) + 1
  <2>1. k \in 1 .. n /\ k - 1 = Cardinality(Below(i))
    BY <1>0, <1>1
  <2>2. PICK x \in S : x = InOrder(S)[k] /\ Cardinality(Below(x)) = Cardinality(Below(i))
    BY <1>7, <2>1
  <2>3. x = i
    <3>1. Cardinality(Below(i)) \in Nat /\ x \in Nat /\ i \in Nat
      BY <1>1
    <3>2. ~ (x < i)
      BY <1>2, <2>2, <3>1
    <3>3. ~ (i < x)
      BY <1>2, <2>2, <3>1
    <3> QED
      BY <3>1, <3>2, <3>3
  <2> QED
    BY <2>1, <2>2, <2>3
<1> QED
  BY <1>8, <1>9 DEF n

-----------------------------------------------------------------------------
(***************************************************************************)
(* Dbscan on a graph: the points of D, the neighbours N[i] of each, the core *)
(* points C, the labels L so far, the cluster g being grown and the points Q *)
(* that wait in the queue.                                                  *)
(***************************************************************************)
Graph(D, N, C) ==
  /\ N \in [D -> SUBSET D] /\ C \subseteq D
  /\ \A i, j \in D : j \in N[i] <=> i \in N[j]
  /\ \A i \in D : i \in N[i]

Connected(N, T) ==
  \A S \in SUBSET T : S # {} /\ S # T => \E i \in S, j \in T \ S : j \in N[i]

CoresOf(C, L, c) == {i \in C : L[i] = c}

\* The neighbours of a core point with a label have one or wait for it, and a
\* core point among them has the same: a cluster that is not grown any more is
\* closed.
Closed(N, C, L, g, Q) ==
  \A i \in C : \A j \in N[i] : L[i] >= 0 =>
    /\ L[j] >= 0 \/ (L[i] = g /\ j \in Q)
    /\ j \in C /\ L[j] >= 0 => L[j] = L[i]

\* A point that has the label of a cluster, or waits for it, lies next to one
\* of its core points.
NextToCore(D, N, C, L, g, Q) ==
  /\ \A i \in D : L[i] >= 0 => \E k \in C : L[k] = L[i] /\ k \in N[i]
  /\ \A i \in Q : \E k \in C : L[k] = g /\ k \in N[i]

Grown(D, N, C, L, g, Q) ==
  /\ L \in [D -> Int] /\ g \in Int /\ g >= -1 /\ Q \subseteq D
  /\ \A i \in D : L[i] >= -2 /\ L[i] <= g
  /\ Q # {} => g >= 0
  /\ \A i \in C : L[i] # -1
  /\ \A c \in 0 .. g : CoresOf(C, L, c) # {} /\ Connected(N, CoresOf(C, L, c))
  /\ NextToCore(D, N, C, L, g, Q)
  /\ Closed(N, C, L, g, Q)

\* A point nobody has visited that is no core point may be called noise.
LEMMA CalledNoise ==
  ASSUME NEW D, NEW N, NEW C, NEW L, NEW g, Graph(D, N, C), Grown(D, N, C, L, g, {}),
         NEW i \in D, L[i] = -2, i \notin C
  PROVE  Grown(D, N, C, [L EXCEPT ![i] = -1], g, {})
<1> DEFINE M == [L EXCEPT ![i] = -1]
<1>1. /\ L \in [D -> Int] /\ g \in Int /\ g >= -1 /\ C \subseteq D
      /\ \A j \in D : L[j] >= -2 /\ L[j] <= g
  BY DEF Grown, Graph
<1>2. /\ M \in [D -> Int] /\ M[i] = -1 /\ \A j \in D : j # i => M[j] = L[j]
      /\ \A j \in C : M[j] = L[j]
  BY <1>1
<1> HIDE DEF M
<1>3. \A j \in D : M[j] >= -2 /\ M[j] <= g
  BY <1>1, <1>2
<1>4. \A c : CoresOf(C, M, c) = CoresOf(C, L, c)
  BY <1>2 DEF CoresOf
<1>5. NextToCore(D, N, C, M, g, {})
  BY <1>1, <1>2 DEF NextToCore, Grown
<1>6. Closed(N, C, M, g, {})
  <2> SUFFICES ASSUME NEW k \in C, NEW j \in N[k], M[k] >= 0
               PROVE  M[j] >= 0 /\ (j \in C => M[j] = M[k])
    BY DEF Closed
  <2>1. j \in D /\ M[k] = L[k]
    BY <1>1, <1>2 DEF Graph
  <2>2. L[j] >= 0 /\ (j \in C => L[j] = L[k])
    BY <2>1 DEF Closed, Grown
  <2>3. j # i
    BY <2>2
  <2> QED
    BY <1>2, <2>1, <2>2, <2>3
<1>7. \A j \in C : M[j] # -1
  BY <1>2 DEF Grown
<1>8. \A c \in 0 .. g : CoresOf(C, M, c) # {} /\ Connected(N, CoresOf(C, M, c))
  BY <1>4 DEF Grown
<1> QED
  BY <1>1, <1>2, <1>3, <1>5, <1>6, <1>7, <1>8 DEF Grown, M

\* A core point nobody has visited starts a cluster, and its neighbours wait.
LEMMA ClusterSeeded ==
  ASSUME NEW D, NEW N, NEW C, NEW L, NEW g, Graph(D, N, C), Grown(D, N, C, L, g, {}),
         NEW i \in C, L[i] = -2
  PROVE  Grown(D, N, C, [L EXCEPT ![i] = g + 1], g + 1, N[i])
<1> DEFINE M == [L EXCEPT ![i] = g + 1]
<1>1. /\ L \in [D -> Int] /\ g \in Int /\ g >= -1 /\ C \subseteq D /\ i \in D
      /\ \A j \in D : L[j] >= -2 /\ L[j] <= g /\ L[j] \in Int
  BY DEF Grown, Graph
<1>2. /\ M \in [D -> Int] /\ M[i] = g + 1 /\ \A j \in D : j # i => M[j] = L[j]
  BY <1>1
<1> HIDE DEF M
<1>3. \A j \in D : M[j] >= -2 /\ M[j] <= g + 1
  BY <1>1, <1>2
<1>4. \A j \in C : M[j] # -1
  BY <1>1, <1>2 DEF Grown
<1>5. ASSUME NEW c \in 0 .. g + 1
      PROVE  CoresOf(C, M, c) # {} /\ Connected(N, CoresOf(C, M, c))
  <2>1. CASE c \in 0 .. g
    <3>1. CoresOf(C, M, c) = CoresOf(C, L, c)
      BY <1>1, <1>2, <2>1 DEF CoresOf
    <3> QED
      BY <2>1, <3>1 DEF Grown
  <2>2. CASE c = g + 1
    <3>1. CoresOf(C, M, c) = {i}
      BY <1>1, <1>2, <2>2 DEF CoresOf
    <3>2. Connected(N, {i})
      BY DEF Connected
    <3> QED
      BY <3>1, <3>2
  <2> QED
    BY <1>1, <1>5, <2>1, <2>2
<1>6. NextToCore(D, N, C, M, g + 1, N[i])
  <2>1. ASSUME NEW j \in D, M[j] >= 0 PROVE \E k \in C : M[k] = M[j] /\ k \in N[j]
    <3>1. CASE j = i
      BY <3>1 DEF Graph
    <3>2. CASE j # i
      <4>1. L[j] >= 0 /\ M[j] = L[j]
        BY <1>2, <2>1, <3>2
      <4>2. PICK k \in C : L[k] = L[j] /\ k \in N[j]
        BY <4>1 DEF NextToCore, Grown
      <4>3. k # i /\ k \in D
        BY <1>1, <4>1, <4>2
      <4> QED
        BY <1>2, <4>1, <4>2, <4>3
    <3> QED
      BY <3>1, <3>2
  <2>2. ASSUME NEW j \in N[i] PROVE \E k \in C : M[k] = g + 1 /\ k \in N[j]
    <3>1. j \in D /\ i \in N[j]
      BY <1>1 DEF Graph
    <3> QED
      BY <1>2, <3>1
  <2> QED
    BY <2>1, <2>2 DEF NextToCore
<1>7. Closed(N, C, M, g + 1, N[i])
  <2> SUFFICES ASSUME NEW k \in C, NEW j \in N[k], M[k] >= 0
               PROVE  /\ M[j] >= 0 \/ (M[k] = g + 1 /\ j \in N[i])
                      /\ j \in C /\ M[j] >= 0 => M[j] = M[k]
    BY DEF Closed
  <2>0. k \in D /\ j \in D /\ k \in N[j]
    BY <1>1 DEF Graph
  <2>1. CASE k = i
    <3>1. ASSUME j \in C, j # i PROVE ~ (M[j] >= 0)
      <4>1. M[j] = L[j]
        BY <1>2, <2>0, <3>1
      <4>2. L[j] >= 0 => L[i] >= 0
        BY <2>0, <2>1, <3>1 DEF Closed, Grown
      <4> QED
        BY <4>1, <4>2
    <3> QED
      BY <1>2, <2>1, <3>1
  <2>2. CASE k # i
    <3>1. M[k] = L[k] /\ L[k] >= 0
      BY <1>2, <2>0, <2>2
    <3>2. L[j] >= 0 /\ (j \in C => L[j] = L[k])
      BY <3>1 DEF Closed, Grown
    <3>3. j # i
      BY <3>2
    <3> QED
      BY <1>2, <2>0, <3>1, <3>2, <3>3
  <2> QED
    BY <2>1, <2>2
<1>8. N[i] \subseteq D
  BY <1>1 DEF Graph
<1>9. \A h \in {g + 1} : h \in Int /\ h >= -1 /\ h >= 0
  BY <1>1
<1>10. Grown(D, N, C, M, g + 1, N[i])
  BY <1>2, <1>3, <1>4, <1>5, <1>6, <1>7, <1>8, <1>9 DEF Grown
<1> QED
  BY <1>10 DEF M

\* A point that has its label leaves the queue.
LEMMA LabelledLeaves ==
  ASSUME NEW D, NEW N, NEW C, NEW L, NEW g, NEW Q, NEW R, Graph(D, N, C), Grown(D, N, C, L, g, Q),
         NEW i \in Q, L[i] >= 0, Q \ {i} \subseteq R, R \subseteq Q
  PROVE  Grown(D, N, C, L, g, R)
<1>1. NextToCore(D, N, C, L, g, R)
  BY DEF NextToCore, Grown
<1>2. Closed(N, C, L, g, R)
  BY DEF Closed, Grown
<1> QED
  BY <1>1, <1>2 DEF Grown

\* A set of core points stays connected when one next to it joins.
LEMMA ConnectedJoined ==
  ASSUME NEW D, NEW N, NEW C, Graph(D, N, C), NEW T \in SUBSET D, Connected(N, T),
         NEW i \in D, NEW k \in T, k \in N[i], i \notin T
  PROVE  Connected(N, T \cup {i})
<1> SUFFICES ASSUME NEW S \in SUBSET (T \cup {i}), S # {}, S # T \cup {i}
             PROVE  \E x \in S, y \in (T \cup {i}) \ S : y \in N[x]
  BY DEF Connected
<1>0. i \in N[k]
  BY DEF Graph
<1>1. CASE S = {i}
  BY <1>1
<1>2. CASE S = T
  BY <1>0, <1>2
<1>3. CASE S # {i} /\ S # T
  <2>1. S \ {i} \in SUBSET T /\ S \ {i} # {}
    BY <1>3
  <2>2. CASE S \ {i} # T
    <3>1. PICK x \in S \ {i}, y \in T \ (S \ {i}) : y \in N[x]
      BY <2>1, <2>2 DEF Connected
    <3>2. y \in (T \cup {i}) \ S
      OBVIOUS
    <3> QED
      BY <3>1, <3>2
  <2>3. CASE S \ {i} = T
    BY <1>3, <2>3
  <2> QED
    BY <2>2, <2>3
<1> QED
  BY <1>1, <1>2, <1>3

\* A point that has none gets the label of the cluster; if it is a core point,
\* its neighbours without a label come to the queue.
LEMMA ClusterJoined ==
  ASSUME NEW D, NEW N, NEW C, NEW L, NEW g, NEW Q, NEW R, Graph(D, N, C), Grown(D, N, C, L, g, Q),
         NEW i \in Q, L[i] < 0, Q \ {i} \subseteq R,
         i \notin C => R \subseteq Q,
         i \in C => R \subseteq Q \cup N[i] /\ \A j \in N[i] : j # i /\ L[j] < 0 => j \in R
  PROVE  Grown(D, N, C, [L EXCEPT ![i] = g], g, R)
<1> DEFINE M == [L EXCEPT ![i] = g]
<1>1. /\ L \in [D -> Int] /\ g \in Int /\ g >= 0 /\ C \subseteq D /\ i \in D /\ Q \subseteq D
      /\ \A j \in D : L[j] >= -2 /\ L[j] <= g /\ L[j] \in Int
  BY DEF Grown, Graph
<1>2. /\ M \in [D -> Int] /\ M[i] = g /\ \A j \in D : j # i => M[j] = L[j]
  BY <1>1
<1> HIDE DEF M
<1>3. \A j \in D : M[j] >= -2 /\ M[j] <= g
  BY <1>1, <1>2
<1>4. \A j \in C : M[j] # -1
  BY <1>1, <1>2 DEF Grown
<1>5. PICK k \in C : L[k] = g /\ k \in N[i]
  BY DEF Grown, NextToCore
<1>6. ASSUME NEW c \in 0 .. g
      PROVE  CoresOf(C, M, c) # {} /\ Connected(N, CoresOf(C, M, c))
  <2>1. CASE c # g \/ i \notin C
    <3>1. CoresOf(C, M, c) = CoresOf(C, L, c)
      BY <1>1, <1>2, <1>6, <2>1 DEF CoresOf
    <3> QED
      BY <1>6, <3>1 DEF Grown
  <2>2. CASE c = g /\ i \in C
    <3>1. CoresOf(C, M, c) = CoresOf(C, L, c) \cup {i}
      BY <1>1, <1>2, <2>2 DEF CoresOf
    <3>2. i \notin CoresOf(C, L, c) /\ k \in CoresOf(C, L, c) /\ CoresOf(C, L, c) \in SUBSET D
      BY <1>1, <1>5, <2>2 DEF CoresOf
    <3>3. Connected(N, CoresOf(C, L, c))
      BY <1>6 DEF Grown
    <3>4. Connected(N, CoresOf(C, L, c) \cup {i})
      BY <1>1, <1>5, <3>2, <3>3, ConnectedJoined
    <3> QED
      BY <3>1, <3>4
  <2> QED
    BY <2>1, <2>2
<1>7. NextToCore(D, N, C, M, g, R)
  <2>1. ASSUME NEW j \in D, M[j] >= 0 PROVE \E h \in C : M[h] = M[j] /\ h \in N[j]
    <3>1. CASE j = i
      <4>1. k # i /\ k \in D
        BY <1>1, <1>5
      <4> QED
        BY <1>2, <1>5, <3>1, <4>1
    <3>2. CASE j # i
      <4>1. L[j] >= 0 /\ M[j] = L[j]
        BY <1>2, <2>1, <3>2
      <4>2. PICK h \in C : L[h] = L[j] /\ h \in N[j]
        BY <4>1 DEF NextToCore, Grown
      <4>3. h # i /\ h \in D
        BY <1>1, <4>1, <4>2
      <4> QED
        BY <1>2, <4>1, <4>2, <4>3
    <3> QED
      BY <3>1, <3>2
  <2>2. ASSUME NEW j \in R PROVE \E h \in C : M[h] = g /\ h \in N[j]
    <3>1. CASE j \in Q
      <4>1. PICK h \in C : L[h] = g /\ h \in N[j]
        BY <3>1 DEF Grown, NextToCore
      <4>2. h # i /\ h \in D
        BY <1>1, <4>1
      <4> QED
        BY <1>2, <4>1, <4>2
    <3>2. CASE j \notin Q
      <4>1. i \in C /\ j \in N[i]
        BY <2>2, <3>2
      <4>2. i \in N[j]
        BY <1>1, <4>1 DEF Graph
      <4> QED
        BY <1>2, <4>1, <4>2
    <3> QED
      BY <3>1, <3>2
  <2> QED
    BY <2>1, <2>2 DEF NextToCore
<1>8. Closed(N, C, M, g, R)
  <2> SUFFICES ASSUME NEW a \in C, NEW j \in N[a], M[a] >= 0
               PROVE  /\ M[j] >= 0 \/ (M[a] = g /\ j \in R)
                      /\ j \in C /\ M[j] >= 0 => M[j] = M[a]
    BY DEF Closed
  <2>0. a \in D /\ j \in D /\ a \in N[j]
    BY <1>1 DEF Graph
  <2>1. CASE a = i
    <3>1. CASE j = i
      BY <1>1, <1>2, <2>1, <3>1
    <3>2. CASE j # i
      <4>1. M[j] = L[j] /\ M[a] = g
        BY <1>2, <2>0, <2>1, <3>2
      <4>2. L[j] < 0 => j \in R
        BY <2>1, <3>2
      <4>3. j \in C /\ L[j] >= 0 => L[j] = g
        BY <2>0, <2>1 DEF Closed, Grown
      <4>4. L[j] \in Int
        BY <1>1, <2>0
      <4> QED
        BY <4>1, <4>2, <4>3, <4>4
    <3> QED
      BY <3>1, <3>2
  <2>2. CASE a # i
    <3>1. M[a] = L[a] /\ L[a] >= 0
      BY <1>2, <2>0, <2>2
    <3>2. /\ L[j] >= 0 \/ (L[a] = g /\ j \in Q)
          /\ j \in C /\ L[j] >= 0 => L[j] = L[a]
      BY <3>1 DEF Closed, Grown
    <3>3. CASE j = i
      BY <1>1, <1>2, <3>1, <3>2, <3>3
    <3>4. CASE j # i
      BY <1>2, <2>0, <3>1, <3>2, <3>4
    <3> QED
      BY <3>3, <3>4
  <2> QED
    BY <2>1, <2>2
<1>9. R \subseteq D
  BY <1>1 DEF Graph
<1> QED
  BY <1>1, <1>2, <1>3, <1>4, <1>6, <1>7, <1>8, <1>9 DEF Grown, M

\* When everything is visited and nothing waits, the clusters are those of the
\* definition and the rest is next to no core point.
LEMMA GrownIsDbscan ==
  ASSUME NEW D, NEW N, NEW C, NEW L, NEW g, Graph(D, N, C), Grown(D, N, C, L, g, {}),
         \A i \in D : L[i] # -2
  PROVE  /\ \A i \in D : L[i] = -1 <=> \A k \in C : k \notin N[i]
         /\ \A i \in D : L[i] \in -1 .. g
         /\ \A c \in 0 .. g :
              /\ CoresOf(C, L, c) # {} /\ Connected(N, CoresOf(C, L, c))
              /\ \A i \in CoresOf(C, L, c), j \in C \ CoresOf(C, L, c) : j \notin N[i]
              /\ \A i \in D : L[i] = c => \E k \in CoresOf(C, L, c) : k \in N[i]
<1>1. /\ L \in [D -> Int] /\ g \in Int /\ g >= -1 /\ C \subseteq D
      /\ \A j \in D : L[j] >= -2 /\ L[j] <= g /\ L[j] \in Int
  BY DEF Grown, Graph
<1>2. \A i \in D : L[i] \in -1 .. g
  BY <1>1
<1>3. ASSUME NEW i \in D, NEW k \in C, k \in N[i] PROVE L[i] >= 0
  <2>1. i \in N[k] /\ k \in D
    BY <1>1, <1>3 DEF Graph
  <2>2. L[k] >= 0
    BY <1>1, <2>1 DEF Grown
  <2> QED
    BY <2>1, <2>2 DEF Grown, Closed
<1>4. ASSUME NEW i \in D, L[i] >= 0 PROVE \E k \in C : L[k] = L[i] /\ k \in N[i]
  BY <1>4 DEF Grown, NextToCore
<1>5. ASSUME NEW i \in D PROVE L[i] = -1 <=> \A k \in C : k \notin N[i]
  BY <1>1, <1>2, <1>3, <1>4
<1>6. ASSUME NEW c \in 0 .. g, NEW i \in CoresOf(C, L, c), NEW j \in C, j \in N[i]
      PROVE  L[j] = c
  <2>1. i \in C /\ L[i] = c /\ c >= 0
    BY DEF CoresOf
  <2> QED
    BY <1>6, <2>1 DEF Grown, Closed
<1>7. ASSUME NEW c \in 0 .. g
      PROVE  /\ CoresOf(C, L, c) # {} /\ Connected(N, CoresOf(C, L, c))
             /\ \A i \in CoresOf(C, L, c), j \in C \ CoresOf(C, L, c) : j \notin N[i]
             /\ \A i \in D : L[i] = c => \E k \in CoresOf(C, L, c) : k \in N[i]
  <2>1. CoresOf(C, L, c) # {} /\ Connected(N, CoresOf(C, L, c))
    BY <1>7 DEF Grown
  <2>2. \A i \in CoresOf(C, L, c), j \in C \ CoresOf(C, L, c) : j \notin N[i]
    BY <1>6 DEF CoresOf
  <2>3. \A i \in D : L[i] = c => \E k \in CoresOf(C, L, c) : k \in N[i]
    BY <1>4 DEF CoresOf
  <2> QED
    BY <2>1, <2>2, <2>3
<1> QED
  BY <1>2, <1>5, <1>7

-----------------------------------------------------------------------------
(* The graph of the contacts of a frame.                                    *)

ContactRecords == [range : Int, bearing : Int, intensity : Int]

Neighbours(contacts, e) ==
  [i \in DOMAIN contacts |->
     {j \in DOMAIN contacts : SquaredNorm(Place(contacts[i]), Place(contacts[j])) <= e}]

CorePoints(contacts, e, m) ==
  {i \in DOMAIN contacts : Cardinality(Neighbours(contacts, e)[i]) >= m}

LEMMA NormFacts ==
  ASSUME NEW a \in Int, NEW b \in Int, NEW c \in Int, NEW d \in Int
  PROVE  /\ SquaredNorm(<<a, b>>, <<c, d>>) = SquaredNorm(<<c, d>>, <<a, b>>)
         /\ SquaredNorm(<<a, b>>, <<c, d>>) \in Int
         /\ SquaredNorm(<<a, b>>, <<a, b>>) = 0
<1>1. \A x \in Int, y \in Int : (x - y) * (x - y) = (y - x) * (y - x) /\ (x - y) * (x - y) \in Int
  OBVIOUS
<1>2. a - a = 0 /\ b - b = 0
  OBVIOUS
<1> QED
  BY <1>1, <1>2 DEF SquaredNorm

LEMMA GraphOfContacts ==
  ASSUME NEW contacts \in Seq(ContactRecords), NEW e \in Nat, NEW m
  PROVE  Graph(DOMAIN contacts, Neighbours(contacts, e), CorePoints(contacts, e, m))
<1>1. ASSUME NEW i \in DOMAIN contacts
      PROVE  \E a, b \in Int : Place(contacts[i]) = <<a, b>>
  <2>1. contacts[i].range \in Int /\ contacts[i].bearing \in Int
    <3>1. contacts[i] \in ContactRecords
      BY <1>1, ElementOfSeq, LenProperties
    <3> QED
      BY <3>1 DEF ContactRecords
  <2>2. contacts[i].range * contacts[i].bearing \in Int
    BY <2>1
  <2> QED
    BY <2>1, <2>2 DEF Place
<1>2. ASSUME NEW i \in DOMAIN contacts, NEW j \in DOMAIN contacts
      PROVE  /\ SquaredNorm(Place(contacts[i]), Place(contacts[j]))
                  = SquaredNorm(Place(contacts[j]), Place(contacts[i]))
             /\ SquaredNorm(Place(contacts[i]), Place(contacts[i])) = 0
  <2>1. PICK a, b \in Int : Place(contacts[i]) = <<a, b>>
    BY <1>1
  <2>2. PICK c, d \in Int : Place(contacts[j]) = <<c, d>>
    BY <1>1
  <2> QED
    BY <2>1, <2>2, NormFacts
<1> QED
  BY <1>2 DEF Graph, Neighbours, CorePoints

\* Indices of contacts, and sets of them.
LEMMA IndexFacts ==
  ASSUME NEW T, NEW contacts \in Seq(T), NEW S \in SUBSET DOMAIN contacts
  PROVE  /\ S \in SUBSET Nat /\ IsFiniteSet(S) /\ Cardinality(S) \in Nat
         /\ Cardinality(S) <= Len(contacts) /\ Len(contacts) \in Nat
         /\ DOMAIN contacts = 1 .. Len(contacts)
<1>1. DOMAIN contacts = 1 .. Len(contacts) /\ Len(contacts) \in Nat
  BY LenProperties
<1>2. /\ IsFiniteSet(1 .. Len(contacts))
      /\ Cardinality(1 .. Len(contacts)) = IF 1 > Len(contacts) THEN 0 ELSE Len(contacts) - 1 + 1
  BY <1>1, FS_Interval
<1>3. Cardinality(1 .. Len(contacts)) = Len(contacts)
  BY <1>1, <1>2
<1> QED
  BY <1>1, <1>2, <1>3, FS_Subset, FS_CardinalityType

\* The contacts of a frame whose beams are in order.
LEMMA ContactsTyped ==
  ASSUME NEW frame \in Frames, IsAzimuthAscending(frame), NEW mask
  PROVE  FirstContacts(frame, mask) \in Seq(ContactRecords)
<1> DEFINE beams == {c \in DOMAIN frame.azimuth : Contacts(frame, mask, c) # {}}
           cols == InOrder(beams)
           first(c) == InOrder(Contacts(frame, mask, c))[1]
<1>1. /\ frame.azimuth \in Seq(Int \cup {NaN}) /\ frame.intensity \in Seq(Seq(Int))
      /\ frame.ranges \in Seq(Int) /\ Len(frame.ranges) = Len(frame.intensity)
      /\ \A r \in DOMAIN frame.intensity : DOMAIN frame.intensity[r] = DOMAIN frame.azimuth
  BY SonarFrontendAssumption
<1>2. beams \in SUBSET Nat /\ IsFiniteSet(beams)
  BY <1>1, IndexFacts
<1>3. cols \in Seq(beams)
  BY <1>2, InOrderLists
<1>4. ASSUME NEW c \in beams PROVE first(c) \in DOMAIN frame.intensity
  <2>1. Contacts(frame, mask, c) \in SUBSET DOMAIN frame.intensity
    BY DEF Contacts
  <2>2. Contacts(frame, mask, c) \in SUBSET Nat /\ IsFiniteSet(Contacts(frame, mask, c))
    BY <1>1, <2>1, IndexFacts
  <2>3. PICK x \in Contacts(frame, mask, c) : TRUE
    BY <1>4
  <2>4. /\ InOrder(Contacts(frame, mask, c)) \in Seq(Contacts(frame, mask, c))
        /\ \E k \in 1 .. Len(InOrder(Contacts(frame, mask, c))) : TRUE
    BY <2>2, <2>3, InOrderLists
  <2>5. Len(InOrder(Contacts(frame, mask, c))) \in Nat
    BY <2>4, LenProperties
  <2>6. 1 \in 1 .. Len(InOrder(Contacts(frame, mask, c)))
    BY <2>4, <2>5
  <2> QED
    BY <2>1, <2>4, <2>6, ElementOfSeq
<1>5. ASSUME NEW c \in beams
      PROVE  /\ frame.ranges[first(c)] \in Int /\ frame.azimuth[c] \in Int
             /\ frame.intensity[first(c)][c] \in Int
  <2> DEFINE r == first(c)
  <2>1. r \in DOMAIN frame.intensity /\ c \in DOMAIN frame.azimuth
    BY <1>4
  <2> HIDE DEF r, first, beams
  <2>2. frame.ranges[r] \in Int
    BY <1>1, <2>1, ElementOfSeq, LenProperties
  <2>3. frame.azimuth[c] \in Int
    <3>1. frame.azimuth[c] \in Int \cup {NaN}
      BY <1>1, <2>1, ElementOfSeq, LenProperties
    <3>2. frame.azimuth[c] # NaN
      BY <2>1 DEF IsAzimuthAscending
    <3> QED
      BY <3>1, <3>2
  <2>4. frame.intensity[r] \in Seq(Int) /\ c \in DOMAIN frame.intensity[r]
    BY <1>1, <2>1, ElementOfSeq, LenProperties
  <2>5. frame.intensity[r][c] \in Int
    BY <2>4, ElementOfSeq, LenProperties
  <2> QED
    BY <2>2, <2>3, <2>5 DEF r
<1>6. FirstContacts(frame, mask)
        = [i \in DOMAIN cols |-> [range |-> frame.ranges[first(cols[i])],
                                  bearing |-> frame.azimuth[cols[i]],
                                  intensity |-> frame.intensity[first(cols[i])][cols[i]]]]
  BY DEF FirstContacts
<1> HIDE DEF beams, cols, first
<1>7. DOMAIN cols = 1 .. Len(cols) /\ Len(cols) \in Nat /\ \A i \in DOMAIN cols : cols[i] \in beams
  BY <1>3, ElementOfSeq, LenProperties
<1>8. \A i \in DOMAIN cols : FirstContacts(frame, mask)[i] \in ContactRecords
  BY <1>5, <1>6, <1>7 DEF ContactRecords
<1>9. FirstContacts(frame, mask) \in [1 .. Len(cols) -> ContactRecords]
  BY <1>6, <1>7, <1>8
<1> QED
  BY <1>7, <1>9

-----------------------------------------------------------------------------
(***************************************************************************)
(* The invariant of the clusters.                                           *)
(***************************************************************************)
Elements(q) == {q[k] : k \in 1 .. Len(q)}

DbscanInv ==
  /\ config \in Configs /\ pc \in {"idle", "cluster"}
  /\ detections \in Seq(ContactRecords)
  /\ queue \in Seq(DOMAIN detections)
  /\ pc = "idle" => detections = <<>> /\ labels = <<>> /\ queue = <<>> /\ grown = Noise
  /\ pc = "cluster" =>
       Grown(DOMAIN detections, Neighbours(detections, config.epsSquared),
             CorePoints(detections, config.epsSquared, config.minSamples),
             labels, grown, Elements(queue))

\* An answer is what DBSCAN's definition says of its contacts.
IsDbscan(a, e, m) ==
  LET N == Neighbours(a.contacts, e)
      C == CorePoints(a.contacts, e, m)
      members(c) == a.candidates[c].members
  IN /\ a.noise = {i \in DOMAIN a.contacts : \A k \in C : k \notin N[i]}
     /\ UNION {members(c) : c \in DOMAIN a.candidates} = DOMAIN a.contacts \ a.noise
     /\ \A c \in DOMAIN a.candidates :
          /\ members(c) \cap C # {} /\ Connected(N, members(c) \cap C)
          /\ \A i \in members(c) \cap C, j \in C \ members(c) : j \notin N[i]
          /\ \A i \in members(c) : \E k \in members(c) \cap C : k \in N[i]
          /\ \A d \in DOMAIN a.candidates \ {c} : members(c) \cap members(d) = {}

AnswerInv == IsDbscan(answer, config.epsSquared, config.minSamples)

LEMMA ConfigFacts ==
  ASSUME config \in Configs
  PROVE  /\ config.epsSquared \in Nat /\ config.minSamples \in Nat
         /\ config.minValid \in Nat /\ config.minValid > 0
BY SonarFrontendAssumption

LEMMA RegionFacts ==
  ASSUME NEW i \in DOMAIN detections
  PROVE  /\ RegionQuery(i) = Neighbours(detections, config.epsSquared)[i]
         /\ Dense(i) <=> i \in CorePoints(detections, config.epsSquared, config.minSamples)
BY DEF RegionQuery, Dense, Neighbours, CorePoints

LEMMA EmptyIsDbscan ==
  ASSUME NEW ood, NEW e, NEW m
  PROVE  IsDbscan(EmptyAnswer(ood), e, m)
<1>1. DOMAIN EmptyAnswer(ood).contacts = {} /\ DOMAIN EmptyAnswer(ood).candidates = {}
  BY DEF EmptyAnswer
<1>2. EmptyAnswer(ood).noise = {}
  BY DEF EmptyAnswer
<1> QED
  BY <1>1, <1>2 DEF IsDbscan

LEMMA NothingListed ==
  ASSUME NEW S
  PROVE  <<>> \in Seq(S) /\ Elements(<<>>) = {} /\ DOMAIN <<>> = {}
<1>1. <<>> \in Seq(S) /\ Len(<<>>) = 0
  BY EmptySeq
<1>2. DOMAIN <<>> = 1 .. 0
  BY <1>1, LenProperties
<1>3. 1 .. 0 = {}
  OBVIOUS
<1> QED
  BY <1>1, <1>2, <1>3 DEF Elements

LEMMA DbscanStart == Init => DbscanInv /\ AnswerInv
  BY EmptyIsDbscan, NothingListed DEF Init, DbscanInv, AnswerInv

\* Contacts nobody has visited.
LEMMA ContactsStart ==
  ASSUME DbscanInv, NEW frame \in Frames, NEW mask, IsAzimuthAscending(frame), pc = "idle",
         ContactFrame(frame, mask, FirstContacts(frame, mask))
  PROVE  DbscanInv'
<1> DEFINE D == FirstContacts(frame, mask)
<1>1. /\ detections' = D /\ labels' = [i \in DOMAIN D |-> Unvisited] /\ pc' = "cluster"
      /\ grown' = Noise /\ queue' = <<>> /\ config' = config /\ config \in Configs
  BY DEF ContactFrame, DbscanInv
<1>2. D \in Seq(ContactRecords)
  BY ContactsTyped
<1> HIDE DEF D
<1>3. Grown(DOMAIN D, Neighbours(D, config.epsSquared),
            CorePoints(D, config.epsSquared, config.minSamples), labels', Noise, {})
  <2> DEFINE C == CorePoints(D, config.epsSquared, config.minSamples)
             N == Neighbours(D, config.epsSquared)
  <2>1. C \subseteq DOMAIN D /\ \A i \in DOMAIN D : N[i] \subseteq DOMAIN D
    BY DEF CorePoints, Neighbours
  <2>2. /\ labels' \in [DOMAIN D -> Int] /\ Noise \in Int /\ Noise >= -1
        /\ \A i \in DOMAIN D : labels'[i] = -2
    BY <1>1 DEF Unvisited, Noise
  <2> HIDE DEF C, N
  <2>3. 0 .. Noise = {}
    BY DEF Noise
  <2>4. Closed(N, C, labels', Noise, {}) /\ NextToCore(DOMAIN D, N, C, labels', Noise, {})
    BY <2>1, <2>2 DEF Closed, NextToCore
  <2>5. \A i \in DOMAIN D : labels'[i] >= -2 /\ labels'[i] <= Noise
    BY <2>2 DEF Noise
  <2>6. \A i \in C : labels'[i] # -1
    BY <2>1, <2>2
  <2> QED
    BY <2>2, <2>3, <2>4, <2>5, <2>6 DEF Grown, C, N
<1> QED
  BY <1>1, <1>2, <1>3, NothingListed DEF DbscanInv

LEMMA VisitKeeps ==
  ASSUME DbscanInv, Visit
  PROVE  DbscanInv'
<1> DEFINE N == Neighbours(detections, config.epsSquared)
           C == CorePoints(detections, config.epsSquared, config.minSamples)
           i == InOrder(Remaining)[1]
<1>1. /\ pc = "cluster" /\ queue = <<>> /\ Remaining # {}
      /\ detections \in Seq(ContactRecords) /\ config \in Configs
      /\ UNCHANGED <<config, pc, detections>>
  BY DEF Visit, DbscanInv
<1>2. Graph(DOMAIN detections, N, C)
  BY <1>1, ConfigFacts, GraphOfContacts
<1>3. Grown(DOMAIN detections, N, C, labels, grown, {})
  BY <1>1, NothingListed DEF DbscanInv
<1>4. i \in Remaining /\ i \in DOMAIN detections /\ labels[i] = -2
  <2>1. Remaining \in SUBSET DOMAIN detections
    BY <1>3 DEF Remaining, Grown
  <2>2. Remaining \in SUBSET Nat /\ IsFiniteSet(Remaining)
    BY <1>1, <2>1, IndexFacts
  <2>3. /\ InOrder(Remaining) \in Seq(Remaining)
        /\ \E k \in 1 .. Len(InOrder(Remaining)) : TRUE
    BY <1>1, <2>2, InOrderLists
  <2>4. Len(InOrder(Remaining)) \in Nat
    BY <2>3, LenProperties
  <2>5. 1 \in 1 .. Len(InOrder(Remaining))
    BY <2>3, <2>4
  <2>6. i \in Remaining
    BY <2>3, <2>5, ElementOfSeq
  <2> QED
    BY <2>1, <2>6 DEF Remaining, Unvisited
<1>5. RegionQuery(i) = N[i] /\ (Dense(i) <=> i \in C)
  BY <1>4, RegionFacts
<1>6. N[i] \in SUBSET DOMAIN detections
  BY <1>2, <1>4 DEF Graph
<1> HIDE DEF N, C
<1>7. CASE Dense(i)
  <2>1. labels' = [labels EXCEPT ![i] = grown + 1] /\ grown' = grown + 1 /\ queue' = InOrder(N[i])
    BY <1>5, <1>7 DEF Visit
  <2>2. Grown(DOMAIN detections, N, C, [labels EXCEPT ![i] = grown + 1], grown + 1, N[i])
    BY <1>2, <1>3, <1>4, <1>5, <1>7, ClusterSeeded
  <2>3. /\ InOrder(N[i]) \in Seq(N[i])
        /\ \A j \in N[i] : \E k \in 1 .. Len(InOrder(N[i])) : InOrder(N[i])[k] = j
    BY <1>1, <1>6, IndexFacts, InOrderLists
  <2>4. Elements(InOrder(N[i])) = N[i]
    BY <2>3, ElementOfSeq DEF Elements
  <2>5. InOrder(N[i]) \in Seq(DOMAIN detections)
    BY <1>6, <2>3, SeqMonotonic
  <2> HIDE DEF i
  <2> QED
    BY <1>1, <2>1, <2>2, <2>4, <2>5 DEF DbscanInv, N, C
<1>8. CASE ~ Dense(i)
  <2>1. labels' = [labels EXCEPT ![i] = -1] /\ grown' = grown /\ queue' = <<>>
    BY <1>1, <1>8 DEF Visit, Noise
  <2>2. Grown(DOMAIN detections, N, C, [labels EXCEPT ![i] = -1], grown, {})
    BY <1>2, <1>3, <1>4, <1>5, <1>8, CalledNoise
  <2> HIDE DEF i
  <2> QED
    BY <1>1, <2>1, <2>2, NothingListed DEF DbscanInv, N, C
<1> QED
  BY <1>7, <1>8

LEMMA ElementsJoined ==
  ASSUME NEW S, NEW s \in Seq(S), NEW t \in Seq(S)
  PROVE  s \o t \in Seq(S) /\ Elements(s \o t) = Elements(s) \cup Elements(t)
<1>1. /\ s \o t \in Seq(S) /\ Len(s \o t) = Len(s) + Len(t) /\ Len(s) \in Nat /\ Len(t) \in Nat
      /\ \A i \in 1 .. Len(s) + Len(t) : (s \o t)[i] = IF i <= Len(s) THEN s[i] ELSE t[i - Len(s)]
  BY ConcatProperties, LenProperties
<1>2. ASSUME NEW x \in Elements(s \o t) PROVE x \in Elements(s) \cup Elements(t)
  <2>1. PICK k \in 1 .. Len(s) + Len(t) : (s \o t)[k] = x
    BY <1>1 DEF Elements
  <2>2. k <= Len(s) => x \in Elements(s)
    BY <1>1, <2>1 DEF Elements
  <2>3. ~ (k <= Len(s)) => x = t[k - Len(s)] /\ k - Len(s) \in 1 .. Len(t)
    BY <1>1, <2>1
  <2> QED
    BY <2>2, <2>3 DEF Elements
<1>3. ASSUME NEW x \in Elements(s) PROVE x \in Elements(s \o t)
  <2>1. PICK k \in 1 .. Len(s) : s[k] = x
    BY DEF Elements
  <2>2. k \in 1 .. Len(s) + Len(t) /\ (s \o t)[k] = x
    BY <1>1, <2>1
  <2> QED
    BY <1>1, <2>2 DEF Elements
<1>4. ASSUME NEW x \in Elements(t) PROVE x \in Elements(s \o t)
  <2>1. PICK k \in 1 .. Len(t) : t[k] = x
    BY DEF Elements
  <2>2. Len(s) + k \in 1 .. Len(s) + Len(t) /\ ~ (Len(s) + k <= Len(s)) /\ Len(s) + k - Len(s) = k
    BY <1>1
  <2>3. (s \o t)[Len(s) + k] = x
    BY <1>1, <2>1, <2>2
  <2> QED
    BY <1>1, <2>2, <2>3 DEF Elements
<1> QED
  BY <1>1, <1>2, <1>3, <1>4

LEMMA HeadAndTail ==
  ASSUME NEW S, NEW q \in Seq(S), q # <<>>
  PROVE  /\ Head(q) \in Elements(q) /\ Head(q) \in S
         /\ Tail(q) \in Seq(S)
         /\ Elements(q) \ {Head(q)} \subseteq Elements(Tail(q))
         /\ Elements(Tail(q)) \subseteq Elements(q)
<1>1. /\ Len(q) \in Nat /\ Len(q) > 0 /\ Head(q) = q[1] /\ Head(q) \in S /\ Tail(q) \in Seq(S)
      /\ Len(Tail(q)) = Len(q) - 1
      /\ \A k \in 1 .. Len(Tail(q)) : Tail(q)[k] = q[k + 1]
  BY HeadTailProperties, EmptySeq, LenProperties
<1>2. Head(q) \in Elements(q)
  BY <1>1 DEF Elements
<1>3. ASSUME NEW x \in Elements(q), x # Head(q) PROVE x \in Elements(Tail(q))
  <2>1. PICK k \in 1 .. Len(q) : q[k] = x
    BY DEF Elements
  <2>2. k # 1
    BY <1>1, <1>3, <2>1
  <2>3. k - 1 \in 1 .. Len(Tail(q)) /\ k - 1 + 1 = k
    BY <1>1, <2>1, <2>2
  <2>4. Tail(q)[k - 1] = x
    BY <1>1, <2>1, <2>3
  <2> QED
    BY <2>3, <2>4 DEF Elements
<1>4. ASSUME NEW x \in Elements(Tail(q)) PROVE x \in Elements(q)
  <2>1. PICK k \in 1 .. Len(Tail(q)) : Tail(q)[k] = x
    BY DEF Elements
  <2>2. k + 1 \in 1 .. Len(q) /\ q[k + 1] = x
    BY <1>1, <2>1
  <2> QED
    BY <2>2 DEF Elements
<1> QED
  BY <1>1, <1>2, <1>3, <1>4

LEMMA GrowKeeps ==
  ASSUME DbscanInv, Grow
  PROVE  DbscanInv'
<1> DEFINE N == Neighbours(detections, config.epsSquared)
           C == CorePoints(detections, config.epsSquared, config.minSamples)
           i == Head(queue)
           Q == Elements(queue)
           R == Elements(queue')
           more == {j \in RegionQuery(i) : labels'[j] < 0}
<1>1. /\ pc = "cluster" /\ queue # <<>> /\ queue \in Seq(DOMAIN detections)
      /\ detections \in Seq(ContactRecords) /\ config \in Configs
      /\ UNCHANGED <<config, pc, detections, grown>>
  BY DEF Grow, DbscanInv
<1>2. Graph(DOMAIN detections, N, C)
  BY <1>1, ConfigFacts, GraphOfContacts
<1>3. Grown(DOMAIN detections, N, C, labels, grown, Q)
  BY <1>1 DEF DbscanInv
<1>4. /\ i \in Q /\ i \in DOMAIN detections /\ Tail(queue) \in Seq(DOMAIN detections)
      /\ Q \ {i} \subseteq Elements(Tail(queue)) /\ Elements(Tail(queue)) \subseteq Q
  BY <1>1, HeadAndTail
<1>5. RegionQuery(i) = N[i] /\ (Dense(i) <=> i \in C) /\ N[i] \in SUBSET DOMAIN detections
  BY <1>2, <1>4, RegionFacts DEF Graph
<1>6. labels[i] \in Int /\ labels[i] >= -2 /\ (i \in C => labels[i] # -1)
  BY <1>3, <1>4 DEF Grown
<1>7. /\ InOrder(more) \in Seq(DOMAIN detections) /\ Elements(InOrder(more)) = more
  <2>1. more \in SUBSET DOMAIN detections
    BY <1>5
  <2> HIDE DEF more
  <2>2. /\ InOrder(more) \in Seq(more)
        /\ \A j \in more : \E k \in 1 .. Len(InOrder(more)) : InOrder(more)[k] = j
    BY <1>1, <2>1, IndexFacts, InOrderLists
  <2>3. Elements(InOrder(more)) = more
    BY <2>2, ElementOfSeq DEF Elements
  <2> QED
    BY <2>1, <2>2, <2>3, SeqMonotonic
<1>8. labels' = IF labels[i] < 0 THEN [labels EXCEPT ![i] = grown] ELSE labels
  BY DEF Grow
<1>9. CASE labels[i] = Unvisited /\ Dense(i)
  <2>1. queue' = Tail(queue) \o InOrder(more)
    BY <1>9 DEF Grow
  <2>2. queue' \in Seq(DOMAIN detections) /\ R = Elements(Tail(queue)) \cup more
    <3> DEFINE t == InOrder(more)
    <3>1. t \in Seq(DOMAIN detections) /\ Elements(t) = more /\ queue' = Tail(queue) \o t
      BY <1>7, <2>1
    <3> DEFINE T == Tail(queue)
    <3>2. T \in Seq(DOMAIN detections)
      BY <1>4
    <3> HIDE DEF t, more, T, i, N, C, Q
    <3>3. T \o t \in Seq(DOMAIN detections) /\ Elements(T \o t) = Elements(T) \cup Elements(t)
      BY <3>1, <3>2, ElementsJoined
    <3> QED
      BY <3>1, <3>3 DEF T
  <2>3. i \in C /\ labels[i] < 0 /\ more = {j \in N[i] : labels'[j] < 0}
    BY <1>5, <1>9 DEF Unvisited
  <2>4. labels' = [labels EXCEPT ![i] = grown]
    BY <1>8, <2>3
  <2>5. \A j \in N[i] : j # i /\ labels[j] < 0 => j \in R
    <3>1. labels \in [DOMAIN detections -> Int]
      BY <1>3 DEF Grown
    <3> HIDE DEF i, N, R
    <3> QED
      BY <1>5, <2>2, <2>3, <2>4, <3>1
  <2> HIDE DEF N, C, i, Q, R, more
  <2>6. Q \ {i} \subseteq R /\ R \subseteq Q \cup N[i]
    BY <1>4, <2>2, <2>3
  <2>7. Grown(DOMAIN detections, N, C, [labels EXCEPT ![i] = grown], grown, R)
    BY <1>2, <1>3, <1>4, <2>3, <2>5, <2>6, ClusterJoined
  <2> QED
    BY <1>1, <2>2, <2>4, <2>7 DEF DbscanInv, N, C, R
<1>10. CASE ~ (labels[i] = Unvisited /\ Dense(i))
  <2>1. queue' = Tail(queue) \o <<>>
    BY <1>10 DEF Grow
  <2>2. queue' \in Seq(DOMAIN detections) /\ R = Elements(Tail(queue))
    BY <1>4, <2>1, ElementsJoined, NothingListed
  <2> HIDE DEF N, C, i, Q, R, more
  <2>3. Q \ {i} \subseteq R /\ R \subseteq Q
    BY <1>4, <2>2
  <2>4. CASE labels[i] < 0
    <3>1. i \notin C
      <4>1. labels[i] = -2 \/ labels[i] = -1
        BY <1>6, <2>4
      <4> QED
        BY <1>5, <1>6, <1>10, <4>1 DEF Unvisited
    <3>2. Grown(DOMAIN detections, N, C, [labels EXCEPT ![i] = grown], grown, R)
      BY <1>2, <1>3, <1>4, <2>3, <2>4, <3>1, ClusterJoined
    <3> QED
      BY <1>1, <1>8, <2>2, <2>4, <3>2 DEF DbscanInv, N, C, R
  <2>5. CASE ~ (labels[i] < 0)
    <3>1. labels[i] >= 0
      BY <1>6, <2>5
    <3>2. Grown(DOMAIN detections, N, C, labels, grown, R)
      BY <1>2, <1>3, <1>4, <2>3, <3>1, LabelledLeaves
    <3> QED
      BY <1>1, <1>8, <2>2, <2>5, <3>2 DEF DbscanInv, N, C, R
  <2> QED
    BY <2>4, <2>5
<1> QED
  BY <1>9, <1>10

-----------------------------------------------------------------------------
(* The answer.                                                              *)

Found == {Candidate(c, nextId + c) : c \in Clusters}

\* A ranking holds each of a finite set of candidates once.
LEMMA RankingFacts ==
  ASSUME NEW K, IsFiniteSet(K), NEW s \in Rankings(K)
  PROVE  /\ DOMAIN s = 1 .. Cardinality(K) /\ \A i \in DOMAIN s : s[i] \in K
         /\ \A i, j \in DOMAIN s : i # j => s[i] # s[j]
         /\ \A x \in K : \E i \in DOMAIN s : s[i] = x
         /\ s = <<>> <=> K = {}
<1> DEFINE n == Cardinality(K)
<1>1. /\ s \in [1 .. n -> K] /\ n \in Nat
      /\ \A i, j \in 1 .. n : i # j => s[i] # s[j]
  BY FS_CardinalityType DEF Rankings
<1>2. IsFiniteSet(1 .. n) /\ Cardinality(1 .. n) = n
  <2> HIDE DEF n
  <2>1. IsFiniteSet(1 .. n) /\ Cardinality(1 .. n) = IF 1 > n THEN 0 ELSE n - 1 + 1
    BY <1>1, FS_Interval
  <2> QED
    BY <1>1, <2>1
<1>3. s \in Injection(1 .. n, K)
  BY <1>1 DEF Injection, IsInjective
<1>4. s \in Surjection(1 .. n, K)
  <2> HIDE DEF n
  <2>1. Cardinality(1 .. n) = Cardinality(K)
    BY <1>2 DEF n
  <2> QED
    BY <1>3, <2>1, FS_Injection
<1>5. \A x \in K : \E i \in 1 .. n : s[i] = x
  BY <1>4 DEF Surjection
<1>6. s = <<>> <=> K = {}
  <2>1. n = 0 <=> K = {}
    BY FS_EmptySet
  <2>2. DOMAIN <<>> = {} /\ <<>> = [i \in {} |-> {}]
    BY NothingListed
  <2>3. CASE n = 0
    <3>1. 1 .. n = {}
      BY <2>3
    <3>2. s = <<>>
      BY <1>1, <2>2, <3>1
    <3> QED
      BY <2>1, <2>3, <3>2
  <2>4. CASE n # 0
    <3>1. 1 \in DOMAIN s
      BY <1>1, <2>4
    <3> QED
      BY <2>1, <2>2, <2>4, <3>1
  <2> QED
    BY <2>3, <2>4
<1> QED
  BY <1>1, <1>5, <1>6

LEMMA CandidateMembers ==
  ASSUME NEW c, NEW id
  PROVE  Candidate(c, id).members = Members(c)
BY DEF Candidate

\* The clusters when Dbscan is done.
LEMMA ClustersFound ==
  ASSUME DbscanInv, Finished
  PROVE  LET N == Neighbours(detections, config.epsSquared)
             C == CorePoints(detections, config.epsSquared, config.minSamples)
         IN  /\ Clusters = 0 .. grown /\ IsFiniteSet(Clusters) /\ IsFiniteSet(Found)
             /\ (Found = {} <=> Clusters = {})
             /\ detections \in Seq(ContactRecords) /\ DOMAIN labels = DOMAIN detections
             /\ C \subseteq DOMAIN detections
             /\ Members(Noise) = {i \in DOMAIN detections : \A k \in C : k \notin N[i]}
             /\ \A i \in DOMAIN detections : i \in Members(Noise) \/ \E c \in Clusters : i \in Members(c)
             /\ \A c \in Clusters :
                  /\ Members(c) \subseteq DOMAIN detections
                  /\ Members(c) \cap Members(Noise) = {}
                  /\ \A d \in Clusters \ {c} : Members(c) \cap Members(d) = {}
                  /\ Members(c) \cap C # {} /\ Connected(N, Members(c) \cap C)
                  /\ \A i \in Members(c) \cap C, j \in C \ Members(c) : j \notin N[i]
                  /\ \A i \in Members(c) : \E k \in Members(c) \cap C : k \in N[i]
<1> DEFINE N == Neighbours(detections, config.epsSquared)
           C == CorePoints(detections, config.epsSquared, config.minSamples)
           D == DOMAIN detections
<1>1. /\ pc = "cluster" /\ queue = <<>> /\ Remaining = {}
      /\ detections \in Seq(ContactRecords) /\ config \in Configs
  BY DEF Finished, DbscanInv
<1>2. Graph(D, N, C)
  BY <1>1, ConfigFacts, GraphOfContacts
<1>3. Grown(D, N, C, labels, grown, {})
  BY <1>1, NothingListed DEF DbscanInv
<1> HIDE DEF N, C, D
<1>4. DOMAIN labels = D /\ grown \in Int /\ C \subseteq D
  BY <1>2, <1>3 DEF Grown, Graph
<1>5. \A i \in D : labels[i] # -2
  BY <1>1, <1>4 DEF Remaining, Unvisited
<1>6. /\ \A i \in D : labels[i] = -1 <=> \A k \in C : k \notin N[i]
      /\ \A i \in D : labels[i] \in -1 .. grown
      /\ \A c \in 0 .. grown :
           /\ CoresOf(C, labels, c) # {} /\ Connected(N, CoresOf(C, labels, c))
           /\ \A i \in CoresOf(C, labels, c), j \in C \ CoresOf(C, labels, c) : j \notin N[i]
           /\ \A i \in D : labels[i] = c => \E k \in CoresOf(C, labels, c) : k \in N[i]
  BY <1>2, <1>3, <1>5, GrownIsDbscan
<1>7. Clusters = 0 .. grown
  <2>1. ASSUME NEW c \in 0 .. grown PROVE c \in Clusters
    <3>1. CoresOf(C, labels, c) # {}
      BY <1>6
    <3>2. PICK i \in CoresOf(C, labels, c) : TRUE
      BY <3>1
    <3>3. i \in D /\ labels[i] = c
      BY <1>4, <3>2 DEF CoresOf
    <3>4. c # Noise
      BY DEF Noise
    <3> QED
      BY <1>4, <3>3, <3>4 DEF Clusters
  <2>2. ASSUME NEW c \in Clusters PROVE c \in 0 .. grown
    <3>1. PICK i \in D : labels[i] = c
      BY <1>4 DEF Clusters
    <3>2. c # -1
      BY DEF Clusters, Noise
    <3>3. labels[i] \in -1 .. grown
      BY <1>6
    <3> QED
      BY <1>4, <3>1, <3>2, <3>3
  <2> QED
    BY <2>1, <2>2
<1>8. IsFiniteSet(Clusters)
  BY <1>4, <1>7, FS_Interval
<1>9. IsFiniteSet(Found) /\ (Found = {} <=> Clusters = {})
  <2> DEFINE f == [c \in Clusters |-> Candidate(c, nextId + c)]
  <2>1. f \in Surjection(Clusters, Found)
    BY DEF Surjection, Found
  <2>2. IsFiniteSet(Found)
    <3> HIDE DEF f, Found
    <3> QED
      BY <1>8, <2>1, FS_Surjection
  <2> QED
    BY <2>2 DEF Found
<1>10. \A c \in Int : Members(c) \cap C = CoresOf(C, labels, c)
  BY <1>4 DEF Members, CoresOf
<1>11. \A c : Members(c) = {i \in D : labels[i] = c}
  BY <1>4 DEF Members
<1>12. Members(Noise) = {i \in D : \A k \in C : k \notin N[i]}
  BY <1>6, <1>11 DEF Noise
<1>13. ASSUME NEW i \in D PROVE i \in Members(Noise) \/ \E c \in Clusters : i \in Members(c)
  BY <1>4, <1>6, <1>7, <1>11 DEF Noise
<1>14. ASSUME NEW c \in Clusters
       PROVE  /\ Members(c) \subseteq D
              /\ Members(c) \cap Members(Noise) = {}
              /\ \A d \in Clusters \ {c} : Members(c) \cap Members(d) = {}
              /\ Members(c) \cap C # {} /\ Connected(N, Members(c) \cap C)
              /\ \A i \in Members(c) \cap C, j \in C \ Members(c) : j \notin N[i]
              /\ \A i \in Members(c) : \E k \in Members(c) \cap C : k \in N[i]
  <2>1. c \in 0 .. grown /\ c \in Int /\ c # Noise
    BY <1>4, <1>7 DEF Noise
  <2>2. Members(c) \cap C = CoresOf(C, labels, c)
    BY <1>10, <2>1
  <2>3. C \ Members(c) = C \ CoresOf(C, labels, c)
    BY <2>2
  <2>4. \A i \in Members(c) : i \in D /\ labels[i] = c
    BY <1>11
  <2>5. /\ Members(c) \cap Members(Noise) = {}
        /\ \A d \in Clusters \ {c} : Members(c) \cap Members(d) = {}
    BY <1>11, <2>1
  <2> QED
    BY <1>6, <2>1, <2>2, <2>3, <2>4, <2>5
<1> QED
  BY <1>1, <1>4, <1>7, <1>8, <1>9, <1>12, <1>13, <1>14 DEF N, C, D

LEMMA AnswerKeeps ==
  ASSUME DbscanInv, AnswerFrame
  PROVE  DbscanInv' /\ AnswerInv'
<1> DEFINE N == Neighbours(detections, config.epsSquared)
           C == CorePoints(detections, config.epsSquared, config.minSamples)
           D == DOMAIN detections
<1>1. /\ Finished /\ pc' = "idle" /\ detections' = <<>> /\ labels' = <<>> /\ grown' = Noise
      /\ config' = config /\ queue' = queue /\ queue = <<>> /\ config \in Configs
  BY DEF AnswerFrame, Finished, DbscanInv
<1>2. DbscanInv'
  BY <1>1, NothingListed DEF DbscanInv
<1>3. PICK ranking \in Rankings(Found), elapsed \in Durations : Publish(ranking, elapsed)
  BY DEF AnswerFrame, Found
<1>4. /\ answer'.candidates = ranking /\ answer'.noise = Members(Noise)
      /\ answer'.contacts = detections
  BY <1>3 DEF Publish, Answer
<1>5. /\ IsFiniteSet(Found) /\ C \subseteq D
      /\ Members(Noise) = {i \in D : \A k \in C : k \notin N[i]}
      /\ \A i \in D : i \in Members(Noise) \/ \E c \in Clusters : i \in Members(c)
  BY <1>1, ClustersFound
<1>6. ASSUME NEW c \in Clusters
      PROVE  /\ Members(c) \subseteq D /\ Members(c) \cap Members(Noise) = {}
             /\ \A d \in Clusters \ {c} : Members(c) \cap Members(d) = {}
             /\ Members(c) \cap C # {} /\ Connected(N, Members(c) \cap C)
             /\ \A i \in Members(c) \cap C, j \in C \ Members(c) : j \notin N[i]
             /\ \A i \in Members(c) : \E k \in Members(c) \cap C : k \in N[i]
  BY <1>1, ClustersFound
<1> HIDE DEF N, C, D
<1>7. ASSUME NEW r \in DOMAIN ranking
      PROVE  \E c \in Clusters : ranking[r] = Candidate(c, nextId + c) /\ ranking[r].members = Members(c)
  <2>1. ranking[r] \in Found
    BY <1>5, RankingFacts
  <2> QED
    BY <2>1, CandidateMembers DEF Found
<1>8. ASSUME NEW c \in Clusters
      PROVE  \E r \in DOMAIN ranking : ranking[r].members = Members(c)
  <2>1. Candidate(c, nextId + c) \in Found
    BY DEF Found
  <2> QED
    BY <1>5, <2>1, RankingFacts, CandidateMembers
<1>9. ASSUME NEW r \in DOMAIN ranking, NEW q \in DOMAIN ranking \ {r}
      PROVE  ranking[r].members \cap ranking[q].members = {}
  <2>1. PICK c \in Clusters : ranking[r] = Candidate(c, nextId + c) /\ ranking[r].members = Members(c)
    BY <1>7
  <2>2. PICK d \in Clusters : ranking[q] = Candidate(d, nextId + d) /\ ranking[q].members = Members(d)
    BY <1>7
  <2>3. ranking[r] # ranking[q]
    BY <1>5, RankingFacts
  <2>4. c # d
    BY <2>1, <2>2, <2>3
  <2> QED
    BY <1>6, <2>1, <2>2, <2>4
<1>10. UNION {ranking[r].members : r \in DOMAIN ranking} = D \ Members(Noise)
  <2>1. ASSUME NEW i \in D \ Members(Noise) PROVE \E r \in DOMAIN ranking : i \in ranking[r].members
    BY <1>5, <1>8
  <2>2. ASSUME NEW r \in DOMAIN ranking, NEW i \in ranking[r].members PROVE i \in D \ Members(Noise)
    <3>1. PICK c \in Clusters : ranking[r].members = Members(c)
      BY <1>7
    <3>2. i \in Members(c)
      BY <2>2, <3>1
    <3>3. Members(c) \subseteq D /\ Members(c) \cap Members(Noise) = {}
      BY <1>6
    <3> QED
      BY <3>2, <3>3
  <2> QED
    BY <2>1, <2>2
<1>11. ASSUME NEW r \in DOMAIN ranking
       PROVE  /\ ranking[r].members \cap C # {} /\ Connected(N, ranking[r].members \cap C)
              /\ \A i \in ranking[r].members \cap C, j \in C \ ranking[r].members : j \notin N[i]
              /\ \A i \in ranking[r].members : \E k \in ranking[r].members \cap C : k \in N[i]
  <2>1. PICK c \in Clusters : ranking[r].members = Members(c)
    BY <1>7
  <2> QED
    BY <1>6, <2>1
<1>12. IsDbscan(answer', config.epsSquared, config.minSamples)
  <2> DEFINE a == answer'
             e == config.epsSquared
             m == config.minSamples
  <2>1. /\ a.candidates = ranking /\ a.noise = Members(Noise) /\ a.contacts = detections
        /\ DOMAIN a.contacts = D /\ Neighbours(a.contacts, e) = N /\ CorePoints(a.contacts, e, m) = C
    BY <1>4 DEF D, N, C
  <2> HIDE DEF a, e, m
  <2>2. /\ a.noise = {i \in DOMAIN a.contacts : \A k \in CorePoints(a.contacts, e, m) :
                                                k \notin Neighbours(a.contacts, e)[i]}
        /\ UNION {a.candidates[r].members : r \in DOMAIN a.candidates} = DOMAIN a.contacts \ a.noise
    BY <1>5, <1>10, <2>1
  <2>3. ASSUME NEW r \in DOMAIN a.candidates
        PROVE  /\ a.candidates[r].members \cap C # {} /\ Connected(N, a.candidates[r].members \cap C)
               /\ \A i \in a.candidates[r].members \cap C, j \in C \ a.candidates[r].members :
                    j \notin N[i]
               /\ \A i \in a.candidates[r].members : \E k \in a.candidates[r].members \cap C : k \in N[i]
               /\ \A q \in DOMAIN a.candidates \ {r} :
                    a.candidates[r].members \cap a.candidates[q].members = {}
    BY <1>9, <1>11, <2>1
  <2>4. IsDbscan(a, e, m)
    BY <2>1, <2>2, <2>3 DEF IsDbscan
  <2> QED
    BY <2>4 DEF a, e, m
<1> QED
  BY <1>1, <1>2, <1>12 DEF AnswerInv

LEMMA DbscanStep == DbscanInv /\ AnswerInv /\ [Next]_vars => DbscanInv' /\ AnswerInv'
<1> SUFFICES ASSUME DbscanInv, AnswerInv, [Next]_vars PROVE DbscanInv' /\ AnswerInv'
  OBVIOUS
<1>1. CASE ProcessSonarFrame
  <2>1. PICK frame \in Frames :
          \/ \E elapsed \in Durations : RejectFrame(frame, elapsed)
          \/ /\ IsAzimuthAscending(frame)
             /\ LET mask == Detect(frame)
                    contacts == FirstContacts(frame, mask)
                IN \/ \E elapsed \in Durations : QuietFrame(frame, mask, elapsed)
                   \/ ContactFrame(frame, mask, contacts)
    BY <1>1 DEF ProcessSonarFrame
  <2>2. pc = "idle"
    BY <1>1 DEF ProcessSonarFrame
  <2>3. CASE \E elapsed \in Durations : RejectFrame(frame, elapsed) \/ QuietFrame(frame, Detect(frame), elapsed)
    <3>1. /\ UNCHANGED <<config, pc, detections, labels, queue, grown>>
          /\ answer' = EmptyAnswer(TRUE) \/ answer' = EmptyAnswer(FALSE)
      BY <2>3 DEF RejectFrame, QuietFrame, Answer
    <3> QED
      BY <2>2, <3>1, EmptyIsDbscan DEF DbscanInv, AnswerInv
  <2>4. CASE IsAzimuthAscending(frame) /\ ContactFrame(frame, Detect(frame), FirstContacts(frame, Detect(frame)))
    <3>1. DbscanInv'
      BY <2>2, <2>4, ContactsStart
    <3>2. AnswerInv'
      BY <2>4 DEF ContactFrame, AnswerInv
    <3> QED
      BY <3>1, <3>2
  <2> QED
    BY <2>1, <2>3, <2>4
<1>2. CASE Visit
  <2>1. AnswerInv'
    BY <1>2 DEF Visit, AnswerInv
  <2> QED
    BY <1>2, <2>1, VisitKeeps
<1>3. CASE Grow
  <2>1. AnswerInv'
    BY <1>3 DEF Grow, AnswerInv
  <2> QED
    BY <1>3, <2>1, GrowKeeps
<1>4. CASE AnswerFrame
  BY <1>4, AnswerKeeps
<1>5. CASE UNCHANGED vars
  BY <1>5 DEF vars, DbscanInv, AnswerInv
<1> QED
  BY <1>1, <1>2, <1>3, <1>4, <1>5 DEF Next

\* The candidates of every answer are the clusters of DBSCAN's definition, for
\* frames of any size, any radius and any number of neighbours.
THEOREM DbscanCorrect == Spec => []ClustersAreDbscan
<1>1. DbscanInv /\ AnswerInv => ClustersAreDbscan
  <2> SUFFICES ASSUME AnswerInv PROVE ClustersAreDbscan
    OBVIOUS
  <2> DEFINE a == answer
             D == DOMAIN a.contacts
             N == Neighbours(a.contacts, config.epsSquared)
             C == CorePoints(a.contacts, config.epsSquared, config.minSamples)
             members(c) == a.candidates[c].members
  <2>1. \A i \in D, j \in D : Near(a.contacts[i], a.contacts[j]) <=> j \in N[i]
    BY DEF Near, Neighbours
  <2>2. Cores(a.contacts) = C /\ C \subseteq D
    BY DEF Cores, CorePoints, Near, Neighbours
  <2>3. \A S, T : S \subseteq D /\ T \subseteq D =>
          (Split(a.contacts, S, T) <=> \A i \in S, j \in T : j \notin N[i])
    BY <2>1 DEF Split
  <2>4. /\ a.noise = {i \in D : \A k \in C : k \notin N[i]}
        /\ UNION {members(c) : c \in DOMAIN a.candidates} = D \ a.noise
        /\ \A c \in DOMAIN a.candidates :
             /\ members(c) \cap C # {} /\ Connected(N, members(c) \cap C)
             /\ \A i \in members(c) \cap C, j \in C \ members(c) : j \notin N[i]
             /\ \A i \in members(c) : \E k \in members(c) \cap C : k \in N[i]
             /\ \A d \in DOMAIN a.candidates \ {c} : members(c) \cap members(d) = {}
    BY DEF AnswerInv, IsDbscan
  <2> DEFINE near == {i \in D : ~ Split(a.contacts, {i}, C)}
  <2> HIDE DEF a, N, C
  <2>5. near = D \ a.noise
    BY <2>2, <2>3, <2>4
  <2>6. ASSUME NEW c \in DOMAIN a.candidates
        PROVE  /\ members(c) \cap C # {}
               /\ Split(a.contacts, members(c) \cap C, C \ (members(c) \cap C))
               /\ \A S \in (SUBSET (members(c) \cap C)) \ {{}, members(c) \cap C} :
                    ~ Split(a.contacts, S, (members(c) \cap C) \ S)
               /\ \A i \in members(c) : ~ Split(a.contacts, {i}, members(c) \cap C)
               /\ \A d \in DOMAIN a.candidates \ {c} : members(c) \cap members(d) = {}
    <3> DEFINE own == members(c) \cap C
    <3>1. /\ members(c) \subseteq D /\ own # {} /\ Connected(N, own)
          /\ own \subseteq D /\ C \ own \subseteq D
          /\ \A i \in own, j \in C \ members(c) : j \notin N[i]
          /\ \A i \in members(c) : \E k \in own : k \in N[i]
          /\ \A d \in DOMAIN a.candidates \ {c} : members(c) \cap members(d) = {}
      <4>1. members(c) \subseteq D \ a.noise
        BY <2>4
      <4>2. own # {} /\ Connected(N, own) /\ \A i \in own, j \in C \ members(c) : j \notin N[i]
        BY <2>4
      <4>3. /\ \A i \in members(c) : \E k \in own : k \in N[i]
            /\ \A d \in DOMAIN a.candidates \ {c} : members(c) \cap members(d) = {}
        BY <2>4
      <4>4. own \subseteq D /\ C \ own \subseteq D
        BY <2>2, <4>1
      <4> QED
        BY <4>1, <4>2, <4>3, <4>4
    <3>2. C \ own = C \ members(c)
      OBVIOUS
    <3> HIDE DEF own, members, D
    <3>3. Split(a.contacts, own, C \ own)
      BY <2>3, <3>1, <3>2
    <3>4. ASSUME NEW S \in (SUBSET own) \ {{}, own} PROVE ~ Split(a.contacts, S, own \ S)
      <4>1. \E i \in S, j \in own \ S : j \in N[i]
        BY <3>1 DEF Connected
      <4>2. S \subseteq D /\ own \ S \subseteq D
        BY <3>1
      <4> QED
        BY <2>3, <4>1, <4>2
    <3>5. ASSUME NEW i \in members(c) PROVE ~ Split(a.contacts, {i}, own)
      <4>1. {i} \subseteq D /\ own \subseteq D
        BY <3>1
      <4>2. \E k \in own : k \in N[i]
        BY <3>1
      <4> QED
        BY <2>3, <4>1, <4>2
    <3>6. /\ own # {}
          /\ Split(a.contacts, own, C \ own)
          /\ \A S \in (SUBSET own) \ {{}, own} : ~ Split(a.contacts, S, own \ S)
          /\ \A i \in members(c) : ~ Split(a.contacts, {i}, own)
          /\ \A d \in DOMAIN a.candidates \ {c} : members(c) \cap members(d) = {}
      BY <3>1, <3>3, <3>4, <3>5
    <3> QED
      BY <3>6 DEF own
  <2> QED
    BY <2>2, <2>4, <2>5, <2>6 DEF ClustersAreDbscan, a
<1> QED
  BY DbscanStart, DbscanStep, <1>1, PTL DEF Spec

-----------------------------------------------------------------------------
(* Health().                                                                *)

Counters == {"processed", "rejected", "empty", "background", "alarms", "valid", "latencies"}

\* The counters are those of the answers given, and the frame that is being
\* clustered is counted already; without a candidate there is no valid cluster.
HealthInv ==
  /\ DOMAIN health = Counters
  /\ {health.processed, health.rejected, health.empty, health.valid} \subseteq Nat
  /\ given \in [refusal : Nat, nothing : Nat, candidates : Nat]
  /\ health.rejected = given.refusal /\ health.empty = given.nothing
  /\ health.processed = given.refusal + given.nothing + given.candidates + (IF pc = "idle" THEN 0 ELSE 1)
  /\ pc = "idle" /\ answer.candidates = <<>> => health.valid = 0

LEMMA ArrivedFacts ==
  ASSUME DOMAIN health = Counters, NEW r \in {0, 1}
  PROVE  LET a == Arrived(r)
         IN  /\ DOMAIN a = Counters /\ a.processed = health.processed + 1
             /\ a.rejected = health.rejected + r /\ a.empty = health.empty /\ a.valid = 0
BY DEF Arrived, Counters

LEMMA AnswerCounts ==
  ASSUME given \in [refusal : Nat, nothing : Nat, candidates : Nat], NEW a, Answer(a)
  PROVE  /\ answer' = a /\ given' \in [refusal : Nat, nothing : Nat, candidates : Nat]
         /\ given'.refusal = given.refusal + (IF a.ood THEN 1 ELSE 0)
         /\ given'.nothing = given.nothing + (IF ~ a.ood /\ a.candidates = <<>> THEN 1 ELSE 0)
         /\ given'.candidates = given.candidates + (IF ~ a.ood /\ a.candidates # <<>> THEN 1 ELSE 0)
<1>1. CASE a.ood
  <2>1. given' = [given EXCEPT !["refusal"] = @ + 1]
    BY <1>1 DEF Answer
  <2> QED
    BY <1>1, <2>1 DEF Answer
<1>2. CASE ~ a.ood /\ a.candidates = <<>>
  <2>1. given' = [given EXCEPT !["nothing"] = @ + 1]
    BY <1>2 DEF Answer
  <2> QED
    BY <1>2, <2>1 DEF Answer
<1>3. CASE ~ a.ood /\ a.candidates # <<>>
  <2>1. given' = [given EXCEPT !["candidates"] = @ + 1]
    BY <1>3 DEF Answer
  <2> QED
    BY <1>3, <2>1 DEF Answer
<1> QED
  BY <1>1, <1>2, <1>3

LEMMA HealthStep == DbscanInv /\ HealthInv /\ [Next]_vars => HealthInv'
<1> SUFFICES ASSUME DbscanInv, HealthInv, [Next]_vars PROVE HealthInv'
  OBVIOUS
<1>1. /\ given \in [refusal : Nat, nothing : Nat, candidates : Nat] /\ DOMAIN health = Counters
      /\ {health.processed, health.rejected, health.empty, health.valid} \subseteq Nat
      /\ health.rejected = given.refusal /\ health.empty = given.nothing
      /\ health.processed =
           given.refusal + given.nothing + given.candidates + (IF pc = "idle" THEN 0 ELSE 1)
  BY DEF HealthInv
<1>2. ASSUME NEW frame \in Frames, NEW elapsed \in Durations, pc = "idle", RejectFrame(frame, elapsed)
      PROVE  HealthInv'
  <2>1. Answer(EmptyAnswer(TRUE)) /\ pc' = pc
    BY <1>2 DEF RejectFrame
  <2>2. /\ given' \in [refusal : Nat, nothing : Nat, candidates : Nat]
        /\ given'.refusal = given.refusal + 1 /\ given'.nothing = given.nothing
        /\ given'.candidates = given.candidates
    BY <1>1, <2>1, AnswerCounts DEF EmptyAnswer
  <2> DEFINE a == Arrived(1)
  <2>3. /\ DOMAIN a = Counters /\ a.processed = health.processed + 1
        /\ a.rejected = health.rejected + 1 /\ a.empty = health.empty /\ a.valid = 0
    BY <1>1, ArrivedFacts
  <2>4. health' = [a EXCEPT !.latencies = FinishProcessing(@, elapsed)]
    BY <1>2 DEF RejectFrame
  <2> HIDE DEF a
  <2>5. /\ DOMAIN health' = Counters /\ health'.processed = a.processed
        /\ health'.rejected = a.rejected /\ health'.empty = a.empty /\ health'.valid = 0
    BY <2>3, <2>4 DEF Counters
  <2>6. /\ {health'.processed, health'.rejected, health'.empty, health'.valid} \subseteq Nat
        /\ health'.rejected = given'.refusal /\ health'.empty = given'.nothing
        /\ health'.processed = given'.refusal + given'.nothing + given'.candidates
    BY <1>1, <1>2, <2>2, <2>3, <2>5
  <2> QED
    BY <1>2, <2>1, <2>2, <2>5, <2>6 DEF HealthInv
<1>3. ASSUME NEW frame \in Frames, NEW mask, NEW elapsed \in Durations, pc = "idle",
             QuietFrame(frame, mask, elapsed)
      PROVE  HealthInv'
  <2>1. Answer(EmptyAnswer(FALSE)) /\ pc' = pc
    BY <1>3 DEF QuietFrame
  <2>2. /\ given' \in [refusal : Nat, nothing : Nat, candidates : Nat]
        /\ given'.refusal = given.refusal /\ given'.nothing = given.nothing + 1
        /\ given'.candidates = given.candidates
    BY <1>1, <2>1, AnswerCounts DEF EmptyAnswer
  <2> DEFINE a == Arrived(0)
  <2>3. /\ DOMAIN a = Counters /\ a.processed = health.processed + 1
        /\ a.rejected = health.rejected + 0 /\ a.empty = health.empty /\ a.valid = 0
    BY <1>1, ArrivedFacts
  <2>4. health' = [a EXCEPT !.background = Background(frame, mask), !.empty = @ + 1,
                            !.latencies = FinishProcessing(@, elapsed)]
    BY <1>3 DEF QuietFrame
  <2> HIDE DEF a
  <2>5. /\ DOMAIN health' = Counters /\ health'.processed = a.processed
        /\ health'.rejected = a.rejected /\ health'.empty = a.empty + 1 /\ health'.valid = 0
    BY <2>3, <2>4 DEF Counters
  <2> QED
    BY <1>1, <1>3, <2>1, <2>2, <2>3, <2>5 DEF HealthInv
<1>4. ASSUME NEW frame \in Frames, NEW mask, NEW contacts, pc = "idle",
             ContactFrame(frame, mask, contacts)
      PROVE  HealthInv'
  <2> DEFINE a == Arrived(0)
  <2>1. /\ DOMAIN a = Counters /\ a.processed = health.processed + 1
        /\ a.rejected = health.rejected + 0 /\ a.empty = health.empty /\ a.valid = 0
    BY <1>1, ArrivedFacts
  <2>2. health' = [a EXCEPT !.background = Background(frame, mask)] /\ pc' = "cluster" /\ given' = given
    BY <1>4 DEF ContactFrame
  <2> HIDE DEF a
  <2>3. /\ DOMAIN health' = Counters /\ health'.processed = a.processed
        /\ health'.rejected = a.rejected /\ health'.empty = a.empty /\ health'.valid = 0
    BY <2>1, <2>2 DEF Counters
  <2> QED
    BY <1>1, <1>4, <2>1, <2>2, <2>3 DEF HealthInv
<1>5. CASE ProcessSonarFrame
  <2>1. pc = "idle"
    BY <1>5 DEF ProcessSonarFrame
  <2>2. PICK frame \in Frames :
          \/ \E elapsed \in Durations : RejectFrame(frame, elapsed)
          \/ \E elapsed \in Durations : QuietFrame(frame, Detect(frame), elapsed)
          \/ ContactFrame(frame, Detect(frame), FirstContacts(frame, Detect(frame)))
    BY <1>5 DEF ProcessSonarFrame
  <2>3. CASE \E elapsed \in Durations : RejectFrame(frame, elapsed)
    BY <1>2, <2>1, <2>3
  <2>4. CASE \E elapsed \in Durations : QuietFrame(frame, Detect(frame), elapsed)
    <3>1. PICK elapsed \in Durations : QuietFrame(frame, Detect(frame), elapsed)
      BY <2>4
    <3> QED
      BY <1>3, <2>1, <3>1
  <2>5. CASE ContactFrame(frame, Detect(frame), FirstContacts(frame, Detect(frame)))
    <3> DEFINE mask == Detect(frame)
               contacts == FirstContacts(frame, mask)
    <3>1. ContactFrame(frame, mask, contacts)
      BY <2>5
    <3> HIDE DEF mask, contacts
    <3> QED
      BY <1>4, <2>1, <3>1
  <2> QED
    BY <2>2, <2>3, <2>4, <2>5
<1>6. CASE Visit \/ Grow
  BY <1>6 DEF Visit, Grow, HealthInv
<1>7. CASE AnswerFrame
  <2>1. Finished /\ pc = "cluster" /\ pc' = "idle"
    BY <1>7 DEF AnswerFrame, Finished
  <2>2. PICK ranking \in Rankings(Found), elapsed \in Durations : Publish(ranking, elapsed)
    BY <1>7 DEF AnswerFrame, Found
  <2>3. IsFiniteSet(Clusters) /\ IsFiniteSet(Found) /\ (Found = {} <=> Clusters = {})
    BY <2>1, ClustersFound
  <2>4. ranking = <<>> <=> Clusters = {}
    BY <2>3, RankingFacts
  <2>5. Cardinality(Clusters) \in Nat /\ (Clusters = {} => Cardinality(Clusters) = 0)
    BY <2>3, FS_CardinalityType, FS_EmptySet
  <2> DEFINE a == [ood |-> FALSE, candidates |-> ranking, noise |-> Members(Noise),
                   contacts |-> detections, ambiguous |-> Len(ranking) > 1]
  <2>6. Answer(a)
    BY <2>2 DEF Publish
  <2>7. /\ answer'.candidates = ranking
        /\ given' \in [refusal : Nat, nothing : Nat, candidates : Nat]
        /\ given'.refusal = given.refusal
        /\ given'.nothing = given.nothing + (IF Clusters = {} THEN 1 ELSE 0)
        /\ given'.candidates = given.candidates + (IF Clusters = {} THEN 0 ELSE 1)
    BY <1>1, <2>4, <2>6, AnswerCounts
  <2>8. health' = [health EXCEPT !.alarms = <<Cardinality(Members(Noise)), Len(detections)>>,
                                 !.valid = Cardinality(Clusters),
                                 !.empty = IF Clusters = {} THEN @ + 1 ELSE @,
                                 !.latencies = FinishProcessing(@, elapsed)]
    BY <2>2 DEF Publish
  <2>9. /\ DOMAIN health' = Counters /\ health'.processed = health.processed
        /\ health'.rejected = health.rejected /\ health'.valid = Cardinality(Clusters)
        /\ health'.empty = IF Clusters = {} THEN health.empty + 1 ELSE health.empty
    BY <1>1, <2>8 DEF Counters
  <2> HIDE DEF a
  <2> QED
    BY <1>1, <2>1, <2>4, <2>5, <2>7, <2>9 DEF HealthInv
<1>8. CASE UNCHANGED vars
  BY <1>8 DEF vars, HealthInv
<1> QED
  BY <1>5, <1>6, <1>7, <1>8 DEF Next

\* Health() speaks of the answers that were given: it calls the frontend healthy
\* only after an answer with a candidate, and its two shares count the answers.
THEOREM HealthCorrect == Spec => []HealthTellsAnswers
<1>1. Init => HealthInv
  BY DEF Init, HealthInv, Counters, EmptyAnswer
<1>2. DbscanInv /\ HealthInv => HealthTellsAnswers
  <2> SUFFICES ASSUME DbscanInv, HealthInv, pc = "idle"
               PROVE  /\ Status = "healthy" => answer.candidates # <<>>
                      /\ InputValid = given.nothing + given.candidates
                      /\ ValidDomain = given.refusal + given.candidates
    BY DEF HealthTellsAnswers
  <2>1. ASSUME Status = "healthy" PROVE answer.candidates # <<>>
    <3>1. Reason = "none"
      BY <2>1 DEF Status
    <3>2. ~ (health.valid < config.minValid)
      BY <3>1 DEF Reason
    <3>3. config.minValid \in Nat \ {0}
      BY SonarFrontendAssumption DEF DbscanInv
    <3> QED
      BY <3>2, <3>3 DEF HealthInv
  <2> QED
    BY <2>1 DEF HealthInv, InputValid, ValidDomain
<1> QED
  BY DbscanStart, DbscanStep, HealthStep, <1>1, <1>2, PTL DEF Spec

-----------------------------------------------------------------------------
(* Types.                                                                   *)

\* What the counters that are not of HealthInv range over.
MeterInv ==
  /\ health.latencies \in Seq(Int) /\ Len(health.latencies) <= Window
  /\ health.alarms[1] <= health.alarms[2]
  /\ nextId \in Nat /\ health.processed <= MaxFrames

LEMMA LatenciesBounded ==
  ASSUME NEW l \in Seq(Int), Len(l) <= Window, NEW elapsed \in Durations
  PROVE  FinishProcessing(l, elapsed) \in Seq(Int) /\ Len(FinishProcessing(l, elapsed)) <= Window
<1> DEFINE all == Append(l, IF elapsed > 0 THEN elapsed ELSE 0)
<1>1. elapsed \in Int /\ Window \in Nat \ {0}
  BY SonarFrontendAssumption
<1>2. all \in Seq(Int) /\ Len(all) = Len(l) + 1 /\ Len(l) \in Nat
  BY <1>1
<1> HIDE DEF all
<1>3. all # <<>> /\ Tail(all) \in Seq(Int) /\ Len(Tail(all)) = Len(all) - 1
  BY <1>2
<1>4. FinishProcessing(l, elapsed) = IF Len(all) > Window THEN Tail(all) ELSE all
  BY DEF FinishProcessing, all
<1> QED
  BY <1>1, <1>2, <1>3, <1>4

LEMMA AlarmsCounted ==
  ASSUME DbscanInv, Finished
  PROVE  /\ Cardinality(Members(Noise)) \in Nat /\ Cardinality(Clusters) \in Nat
         /\ Cardinality(Members(Noise)) <= Len(detections)
<1>1. detections \in Seq(ContactRecords) /\ DOMAIN labels = DOMAIN detections /\ IsFiniteSet(Clusters)
  BY ClustersFound
<1>2. Members(Noise) \subseteq 1 .. Len(detections) /\ Len(detections) \in Nat
  BY <1>1 DEF Members
<1> DEFINE n == Len(detections)
<1> HIDE DEF n
<1>3. n \in Nat /\ IsFiniteSet(1 .. n) /\ Cardinality(1 .. n) = IF 1 > n THEN 0 ELSE n - 1 + 1
  BY <1>2, FS_Interval DEF n
<1>4. Cardinality(1 .. n) = n
  BY <1>3
<1>5. IsFiniteSet(Members(Noise)) /\ Cardinality(Members(Noise)) <= Cardinality(1 .. n)
  BY <1>2, <1>3, FS_Subset DEF n
<1> QED
  BY <1>1, <1>4, <1>5, FS_CardinalityType DEF n

LEMMA MeterStep == DbscanInv /\ HealthInv /\ MeterInv /\ [Next]_vars => MeterInv'
<1> SUFFICES ASSUME DbscanInv, HealthInv, MeterInv, [Next]_vars PROVE MeterInv'
  OBVIOUS
<1>1. /\ DOMAIN health = Counters /\ health.processed \in Nat /\ health.latencies \in Seq(Int)
      /\ Len(health.latencies) <= Window /\ health.processed <= MaxFrames /\ nextId \in Nat
      /\ MaxFrames \in Nat
  BY SonarFrontendAssumption DEF HealthInv, MeterInv
<1>2. ASSUME NEW r \in {0, 1}
      PROVE  LET a == Arrived(r)
             IN  /\ DOMAIN a = Counters /\ a.processed = health.processed + 1
                 /\ a.latencies = health.latencies /\ a.alarms[1] = 0 /\ a.alarms[2] = 0
  BY <1>1 DEF Arrived, Counters
<1>3. ASSUME NEW frame \in Frames, NEW elapsed \in Durations, health.processed < MaxFrames,
             RejectFrame(frame, elapsed)
      PROVE  MeterInv'
  <2> DEFINE a == Arrived(1)
             l == FinishProcessing(health.latencies, elapsed)
  <2>1. /\ DOMAIN a = Counters /\ a.processed = health.processed + 1
        /\ a.latencies = health.latencies /\ a.alarms[1] = 0 /\ a.alarms[2] = 0
    BY <1>2
  <2>2. health' = [a EXCEPT !.latencies = FinishProcessing(@, elapsed)] /\ nextId' = nextId
    BY <1>3 DEF RejectFrame
  <2>3. l \in Seq(Int) /\ Len(l) <= Window
    BY <1>1, LatenciesBounded
  <2> HIDE DEF a
  <2>4. /\ health'.latencies = l /\ health'.processed = health.processed + 1
        /\ health'.alarms[1] = 0 /\ health'.alarms[2] = 0
    BY <2>1, <2>2 DEF Counters
  <2> HIDE DEF l
  <2> QED
    BY <1>1, <1>3, <2>2, <2>3, <2>4 DEF MeterInv
<1>4. ASSUME NEW frame \in Frames, NEW mask, NEW elapsed \in Durations, health.processed < MaxFrames,
             QuietFrame(frame, mask, elapsed)
      PROVE  MeterInv'
  <2> DEFINE a == Arrived(0)
             l == FinishProcessing(health.latencies, elapsed)
  <2>1. /\ DOMAIN a = Counters /\ a.processed = health.processed + 1
        /\ a.latencies = health.latencies /\ a.alarms[1] = 0 /\ a.alarms[2] = 0
    BY <1>2
  <2>2. /\ health' = [a EXCEPT !.background = Background(frame, mask), !.empty = @ + 1,
                               !.latencies = FinishProcessing(@, elapsed)]
        /\ nextId' = nextId
    BY <1>4 DEF QuietFrame
  <2>3. l \in Seq(Int) /\ Len(l) <= Window
    BY <1>1, LatenciesBounded
  <2> HIDE DEF a
  <2>4. /\ health'.latencies = l /\ health'.processed = health.processed + 1
        /\ health'.alarms[1] = 0 /\ health'.alarms[2] = 0
    BY <2>1, <2>2 DEF Counters
  <2> HIDE DEF l
  <2> QED
    BY <1>1, <1>4, <2>2, <2>3, <2>4 DEF MeterInv
<1>5. ASSUME NEW frame \in Frames, NEW mask, NEW contacts, health.processed < MaxFrames,
             ContactFrame(frame, mask, contacts)
      PROVE  MeterInv'
  <2> DEFINE a == Arrived(0)
  <2>1. /\ DOMAIN a = Counters /\ a.processed = health.processed + 1
        /\ a.latencies = health.latencies /\ a.alarms[1] = 0 /\ a.alarms[2] = 0
    BY <1>2
  <2>2. health' = [a EXCEPT !.background = Background(frame, mask)] /\ nextId' = nextId
    BY <1>5 DEF ContactFrame
  <2> HIDE DEF a
  <2>3. /\ health'.latencies = health.latencies /\ health'.processed = health.processed + 1
        /\ health'.alarms[1] = 0 /\ health'.alarms[2] = 0
    BY <2>1, <2>2 DEF Counters
  <2> QED
    BY <1>1, <1>5, <2>2, <2>3 DEF MeterInv
<1>6. CASE ProcessSonarFrame
  <2>1. health.processed < MaxFrames
    BY <1>6 DEF ProcessSonarFrame
  <2>2. PICK frame \in Frames :
          \/ \E elapsed \in Durations : RejectFrame(frame, elapsed)
          \/ \E elapsed \in Durations : QuietFrame(frame, Detect(frame), elapsed)
          \/ ContactFrame(frame, Detect(frame), FirstContacts(frame, Detect(frame)))
    BY <1>6 DEF ProcessSonarFrame
  <2>3. CASE \E elapsed \in Durations : RejectFrame(frame, elapsed)
    BY <1>3, <2>1, <2>3
  <2>4. CASE \E elapsed \in Durations : QuietFrame(frame, Detect(frame), elapsed)
    <3>1. PICK elapsed \in Durations : QuietFrame(frame, Detect(frame), elapsed)
      BY <2>4
    <3> QED
      BY <1>4, <2>1, <3>1
  <2>5. CASE ContactFrame(frame, Detect(frame), FirstContacts(frame, Detect(frame)))
    <3> DEFINE mask == Detect(frame)
               contacts == FirstContacts(frame, mask)
    <3>1. ContactFrame(frame, mask, contacts)
      BY <2>5
    <3> HIDE DEF mask, contacts
    <3> QED
      BY <1>5, <2>1, <3>1
  <2> QED
    BY <2>2, <2>3, <2>4, <2>5
<1>7. CASE Visit \/ Grow
  BY <1>7 DEF Visit, Grow, MeterInv
<1>8. CASE AnswerFrame
  <2>1. PICK ranking \in Rankings(Found), elapsed \in Durations : Publish(ranking, elapsed)
    BY <1>8 DEF AnswerFrame, Found
  <2> DEFINE l == FinishProcessing(health.latencies, elapsed)
             noise == Cardinality(Members(Noise))
  <2>2. l \in Seq(Int) /\ Len(l) <= Window
    BY <1>1, LatenciesBounded
  <2>3. noise \in Nat /\ Cardinality(Clusters) \in Nat /\ noise <= Len(detections)
    BY <1>8, AlarmsCounted DEF AnswerFrame
  <2>4. nextId' \in Nat
    BY <1>1, <2>1, <2>3 DEF Publish
  <2>5. health' = [health EXCEPT !.alarms = <<noise, Len(detections)>>,
                                 !.valid = Cardinality(Clusters),
                                 !.empty = IF Clusters = {} THEN @ + 1 ELSE @,
                                 !.latencies = FinishProcessing(@, elapsed)]
    BY <2>1 DEF Publish
  <2> HIDE DEF noise
  <2>6. /\ health'.latencies = l /\ health'.processed = health.processed
        /\ health'.alarms[1] = noise /\ health'.alarms[2] = Len(detections)
    BY <1>1, <2>5 DEF Counters
  <2> HIDE DEF l
  <2> QED
    BY <1>1, <2>2, <2>3, <2>4, <2>6 DEF MeterInv
<1>9. CASE UNCHANGED vars
  BY <1>9 DEF vars, MeterInv
<1> QED
  BY <1>6, <1>7, <1>8, <1>9 DEF Next

\* The type invariant, for any frames, parameters and window.
THEOREM SonarTypes == Spec => []TypeOK
<1>1. Init => HealthInv /\ MeterInv
  BY SonarFrontendAssumption DEF Init, HealthInv, MeterInv, Counters, EmptyAnswer
<1>2. DbscanInv /\ HealthInv /\ MeterInv => TypeOK
  <2> SUFFICES ASSUME DbscanInv, HealthInv, MeterInv PROVE TypeOK
    OBVIOUS
  <2>1. labels \in [DOMAIN detections -> Unvisited .. grown]
    <3>1. CASE pc = "idle"
      BY <3>1, NothingListed DEF DbscanInv, Unvisited
    <3>2. CASE pc = "cluster"
      BY <3>2 DEF DbscanInv, Grown, Unvisited
    <3> QED
      BY <3>1, <3>2 DEF DbscanInv
  <2>2. \A i \in DOMAIN queue : queue[i] \in DOMAIN detections
    BY DEF DbscanInv
  <2>3. health.rejected + health.empty <= health.processed
    BY DEF HealthInv
  <2> QED
    BY <2>1, <2>2, <2>3 DEF TypeOK, DbscanInv, MeterInv
<1> QED
  BY DbscanStart, DbscanStep, HealthStep, MeterStep, <1>1, <1>2, PTL DEF Spec
=============================================================================
