----------------------------- MODULE PoseGraph -----------------------------
(***************************************************************************)
(* PoseGraphProblem as a value: the pose blocks in insertion order, which   *)
(* of them are fixed, the inertial blocks in insertion order, and the       *)
(* residual blocks.  The operations of the class are operators from graph   *)
(* to graph; the numbers inside the blocks are left out.  thrown records an *)
(* std::out_of_range, which nothing in the replay catches.                  *)
(***************************************************************************)
EXTENDS Naturals, Sequences, FiniteSets, SequencesExt

\* A ParameterRef: a keyframe has a pose block and may have an inertial one.
PoseRef(k)     == <<"P", k>>
InertialRef(k) == <<"I", k>>

EmptyGraph ==
  [poses |-> <<>>, fixed |-> {}, inertial |-> <<>>, blocks |-> <<>>, thrown |-> FALSE]

HasKeyframe(g, k)      == k \in ToSet(g.poses)
HasInertialState(g, k) == k \in ToSet(g.inertial)

\* No effect when the keyframe is there already.
AddKeyframe(g, k, isFixed) ==
  IF HasKeyframe(g, k) THEN g
  ELSE [g EXCEPT !.poses = Append(@, k),
                 !.fixed = IF isFixed THEN @ \cup {k} ELSE @]

\* Throws for a keyframe without a pose; no effect when the state is there.
AddInertialState(g, k) ==
  IF ~HasKeyframe(g, k) THEN [g EXCEPT !.thrown = TRUE]
  ELSE IF HasInertialState(g, k) THEN g
  ELSE [g EXCEPT !.inertial = Append(@, k)]

Registered(g, ref) ==
  IF ref[1] = "P" THEN HasKeyframe(g, ref[2]) ELSE HasInertialState(g, ref[2])

\* AddResidualBlockOnParameters: throws unless every parameter is registered.
\* owner is the keyframe whose contributing evidence the caller lists the
\* residual under.
AddResidualBlock(g, model, refs, owner) ==
  IF \A ref \in refs : Registered(g, ref)
  THEN [g EXCEPT !.blocks = Append(@, [model |-> model, refs |-> refs, owner |-> owner])]
  ELSE [g EXCEPT !.thrown = TRUE]

(***************************************************************************)
(* CheckGraphObservability.                                                *)
(***************************************************************************)
FreePoses(g) == ToSet(g.poses) \ g.fixed

FreeBlocks(g) ==
  {PoseRef(k) : k \in FreePoses(g)} \cup {InertialRef(k) : k \in ToSet(g.inertial)}

ResidualDim(model) ==
  CASE model \in {"relative_pose", "loop_closure"} -> 6
    [] model = "imu_preintegration" -> 15
    [] model = "inertial_prior" -> 9
    [] model \in {"sonar_range", "depth"} -> 1

\* A pose is stored as 7 numbers and has 6 degrees of freedom.
FreeParameterDim(g) ==
  6 * Cardinality(FreePoses(g)) + 9 * Cardinality(ToSet(g.inertial))

\* Rows of the residuals that touch something the solver moves.
RowsOf(g, b) == IF b.refs \cap FreeBlocks(g) # {} THEN ResidualDim(b.model) ELSE 0

ResidualRows(g) ==
  LET rows[n \in 0 .. Len(g.blocks)] == IF n = 0 THEN 0 ELSE rows[n - 1] + RowsOf(g, g.blocks[n])
  IN rows[Len(g.blocks)]

Referenced(g) == UNION {b.refs : b \in ToSet(g.blocks)}

\* "problems" is empty.
Observable(g) ==
  /\ FreeBlocks(g) \subseteq Referenced(g)
  /\ ResidualRows(g) >= FreeParameterDim(g)

-----------------------------------------------------------------------------
\* A residual between two poses.
Relates(b, k, l) == {PoseRef(k), PoseRef(l)} \subseteq b.refs
=============================================================================
