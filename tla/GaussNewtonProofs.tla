------------------------- MODULE GaussNewtonProofs -------------------------
(***************************************************************************)
(* What GaussNewtonSolver::Solve reports is true of every landscape, every *)
(* set of points and every setting of its options.  The inductive           *)
(* invariant follows the point the solve stands at, which is the backup     *)
(* while a trial step is applied.                                           *)
(***************************************************************************)
EXTENDS GaussNewton, TLAPS

\* The point the solve stands at: a trial step is not yet taken.
Held == IF pc = "judge" THEN backup ELSE params

Running == pc \in {"linearize", "retry", "judge", "endIteration"}

\* current_cost belongs to the held point; between linearization and the
\* verdict on a trial step so does the cost the trial is compared with.
CostsBelong ==
  /\ Running => current = cost[Held]
  /\ pc \in {"retry", "judge"} => costLin = cost[Held] /\ ~accepted
  /\ pc = "endIteration" =>
       IF accepted THEN Leq(current, costLin)
       ELSE current = costLin /\ retry = MaxInnerRetries

\* Every held point is at least as good as the first one, or is the first one.
Descent ==
  /\ pc = "start" => params = start
  /\ Running => /\ summary.initial = cost[start]
                /\ \/ Leq(current, summary.initial)
                   \/ summary.initial = NaN /\ Held = start

\* The counters never leave their bounds, and the report counts the rounds.
Counted ==
  /\ pc = "judge" => retry < MaxInnerRetries
  /\ pc \in {"retry", "judge", "endIteration"} => iter < MaxIterations
  /\ pc \in {"start", "linearize"} => summary.iterations = iter
  /\ pc # "done" => ~summary.converged

Honest == ReportedCostIsAtParams /\ NeverWorse /\ ConvergedIsEarned /\ StallIsHonest

IInv == TypeOK /\ CostsBelong /\ Descent /\ Counted /\ Honest

-----------------------------------------------------------------------------
\* IEEE <= composes: a step down from a step down is a step down.
LEMMA LeqTransitive ==
  ASSUME NEW a \in Costs, NEW b \in Costs, NEW c \in Costs, Leq(a, b), Leq(b, c)
  PROVE  Leq(a, c)
  BY GaussNewtonAssumption DEF Leq, Costs

\* A cost that is a number is at most itself.
LEMMA LeqReflexive ==
  ASSUME NEW a \in Costs, a # NaN
  PROVE  Leq(a, a)
  BY GaussNewtonAssumption DEF Leq, Costs

\* Raising the damping keeps it above the floor.
LEMMA RaisedLambda ==
  ASSUME NEW l \in Nat, l >= LambdaFloor
  PROVE  l * LambdaUp \in Nat /\ l * LambdaUp >= LambdaFloor
<1>1. LambdaUp \in Nat /\ LambdaUp >= 1 /\ LambdaFloor \in Nat
  BY GaussNewtonAssumption
<1>2. l * LambdaUp \in Nat
  BY <1>1
<1>3. l * LambdaUp = l + l * (LambdaUp - 1)
  BY <1>1
<1>4. l * (LambdaUp - 1) >= 0
  <2>1. LambdaUp - 1 \in Nat
    BY <1>1
  <2> QED
    BY <2>1
<1> QED
  BY <1>1, <1>2, <1>3, <1>4

\* Lowering the damping stops at the floor.
LEMMA LoweredLambda ==
  ASSUME NEW l \in Nat
  PROVE  LowerLambda(l) \in Nat /\ LowerLambda(l) >= LambdaFloor
  BY GaussNewtonAssumption DEF LowerLambda

LEMMA InitInvariant == Init => IInv
<1> SUFFICES ASSUME Init PROVE IInv
  OBVIOUS
<1>1. TypeOK
  <2>1. 0 \in 0 .. MaxIterations /\ 0 \in 0 .. MaxInnerRetries /\ 0 \in Costs
    BY GaussNewtonAssumption DEF Costs
  <2>2. summary \in [iterations : 0 .. MaxIterations, initial : Costs, final : Costs,
                     converged : BOOLEAN]
    BY <2>1 DEF Init
  <2> QED
    BY <2>1, <2>2, GaussNewtonAssumption DEF Init, TypeOK
<1>2. CostsBelong /\ Descent /\ Counted /\ Honest
  BY DEF Init, CostsBelong, Descent, Counted, Honest, Running, ReportedCostIsAtParams,
         NeverWorse, ConvergedIsEarned, StallIsHonest
<1> QED
  BY <1>1, <1>2 DEF IInv

\* Every step keeps the invariant.
LEMMA StepInvariant == IInv /\ [Next]_vars => IInv'
<1> SUFFICES ASSUME IInv, [Next]_vars PROVE IInv'
  OBVIOUS
<1> USE DEF IInv, landscape
<1>a. /\ MaxIterations \in Nat /\ MaxInnerRetries \in Nat
      /\ 0 \in 0 .. MaxIterations /\ 0 \in 0 .. MaxInnerRetries
      /\ NaN \in Costs /\ 0 \in Costs
      /\ \A p \in Points : cost[p] \in Costs
  BY GaussNewtonAssumption DEF TypeOK, Costs
<1>1. CASE NothingToSolve
  <2>1. TypeOK'
    BY <1>1, <1>a DEF NothingToSolve, TypeOK
  <2>2. Honest'
    <3>1. NeverWorse'
      BY <1>1, <1>a, LeqReflexive DEF NothingToSolve, TypeOK, NeverWorse, Descent
    <3> QED
      BY <1>1, <3>1, <1>a DEF NothingToSolve, TypeOK, Honest, ReportedCostIsAtParams,
                         ConvergedIsEarned, StallIsHonest
  <2> QED
    BY <1>1, <2>1, <2>2 DEF NothingToSolve, CostsBelong, Descent, Counted, Running
<1>2. CASE Begin
  <2>1. TypeOK'
    BY <1>2, <1>a DEF Begin, TypeOK
  <2>2. Descent'
    BY <1>2, <1>a, LeqReflexive DEF Begin, TypeOK, Descent, Running, Held
  <2>3. Counted'
    BY <1>2, <1>a DEF Begin, TypeOK, Counted
  <2> QED
    BY <1>2, <2>1, <2>2, <2>3 DEF Begin, CostsBelong, Running, Held, Honest,
       ReportedCostIsAtParams, NeverWorse, ConvergedIsEarned, StallIsHonest
<1>3. CASE Linearize
  <2>1. TypeOK'
    BY <1>3, <1>a DEF Linearize, TypeOK
  <2> QED
    BY <1>3, <2>1 DEF Linearize, CostsBelong, Descent, Counted, Running, Held, Honest, TypeOK,
       ReportedCostIsAtParams, NeverWorse, ConvergedIsEarned, StallIsHonest
<1>4. ASSUME NEW q \in Points, Apply(q) PROVE IInv'
  <2>1. TypeOK'
    BY <1>4 DEF Apply, TypeOK
  <2> QED
    BY <1>4, <2>1 DEF Apply, CostsBelong, Descent, Counted, Running, Held, Honest, TypeOK,
       ReportedCostIsAtParams, NeverWorse, ConvergedIsEarned, StallIsHonest
<1>5. CASE Reject
  <2>1. TypeOK'
    BY <1>5, <1>a, RaisedLambda DEF Reject, TypeOK, Counted
  <2> QED
    BY <1>5, <2>1 DEF Reject, CostsBelong, Descent, Counted, Running, Held, Honest,
       ReportedCostIsAtParams, NeverWorse, ConvergedIsEarned, StallIsHonest
<1>6. CASE Accept
  <2>1. TypeOK'
    BY <1>6, <1>a, LoweredLambda DEF Accept, TypeOK
  <2>2. Descent'
    <3>1. costLin = cost[backup] /\ current = costLin
      BY <1>6 DEF Accept, CostsBelong, Running, Held
    <3>2. /\ summary.initial = cost[start]
          /\ Leq(costLin, summary.initial) \/ (summary.initial = NaN /\ backup = start)
      BY <1>6, <3>1 DEF Accept, Descent, Running, Held
    <3>3. costLin # NaN
      BY <1>6 DEF Accept, Leq
    <3>4. Leq(costLin, summary.initial)
      BY <3>1, <3>2, <3>3
    <3>5. Leq(cost[params], summary.initial)
      BY <1>6, <3>4, <3>2, <3>1, <1>a, LeqTransitive DEF Accept, TypeOK
    <3> QED
      BY <1>6, <3>2, <3>5 DEF Accept, Descent, Running, Leq
  <2>3. CostsBelong'
    BY <1>6 DEF Accept, CostsBelong, Running, Held, Leq
  <2> QED
    BY <1>6, <2>1, <2>2, <2>3 DEF Accept, Counted, Honest,
       ReportedCostIsAtParams, NeverWorse, ConvergedIsEarned, StallIsHonest
<1>7. CASE RetriesExhausted
  <2>1. TypeOK'
    BY <1>7 DEF RetriesExhausted, TypeOK
  <2> QED
    BY <1>7, <2>1 DEF RetriesExhausted, CostsBelong, Descent, Counted, Running, Held, Honest,
       ReportedCostIsAtParams, NeverWorse, ConvergedIsEarned, StallIsHonest
<1>8. CASE EndIteration
  <2>1. TypeOK'
    <3>1. iter + 1 \in 0 .. MaxIterations
      BY <1>8, <1>a DEF EndIteration, TypeOK, Counted
    <3> QED
      BY <1>8, <3>1 DEF EndIteration, TypeOK
  <2>2. CASE pc' = "done"
    <3>1. ReportedCostIsAtParams' /\ NeverWorse'
      BY <1>8, <2>2 DEF EndIteration, TypeOK, CostsBelong, Descent, Running, Held,
                        ReportedCostIsAtParams, NeverWorse, Leq
    <3>2. ConvergedIsEarned'
      BY <1>8, <2>2, <1>a, GaussNewtonAssumption
         DEF EndIteration, TypeOK, ConvergedIsEarned, Settled, Costs
    <3>3. StallIsHonest'
      BY <1>8, <2>2 DEF EndIteration, TypeOK, CostsBelong, Running, Held, StallIsHonest
    <3> QED
      BY <1>8, <2>1, <2>2, <3>1, <3>2, <3>3
         DEF EndIteration, CostsBelong, Descent, Counted, Running, Honest
  <2>3. CASE pc' = "linearize"
    BY <1>8, <2>1, <2>3 DEF EndIteration, TypeOK, CostsBelong, Descent, Counted, Running, Held,
       Honest, ReportedCostIsAtParams, NeverWorse, ConvergedIsEarned, StallIsHonest, Leq
  <2> QED
    BY <1>8, <2>2, <2>3 DEF EndIteration
<1>9. CASE IterationsExhausted
  <2>1. TypeOK'
    BY <1>9 DEF IterationsExhausted, TypeOK
  <2>2. Honest'
    BY <1>9 DEF IterationsExhausted, TypeOK, CostsBelong, Descent, Counted, Running, Held, Leq,
       Honest, ReportedCostIsAtParams, NeverWorse, ConvergedIsEarned, StallIsHonest
  <2> QED
    BY <1>9, <2>1, <2>2 DEF IterationsExhausted, CostsBelong, Descent, Counted, Running
<1>10. CASE UNCHANGED vars
  BY <1>10 DEF vars, TypeOK, CostsBelong, Descent, Counted, Running, Held, Leq, Settled,
     Honest, ReportedCostIsAtParams, NeverWorse, ConvergedIsEarned, StallIsHonest
<1> QED
  BY <1>1, <1>2, <1>3, <1>4, <1>5, <1>6, <1>7, <1>8, <1>9, <1>10 DEF Next, Step, Returned

\* The reachable states of every instance satisfy the inductive invariant.
LEMMA Invariance == Spec => []IInv
  BY InitInvariant, StepInvariant, PTL DEF Spec

\* The variables keep their types: the damping never falls to zero and both
\* loop counters stay in their bounds.
THEOREM TypeCorrect == Spec => []TypeOK
<1>1. IInv => TypeOK
  BY DEF IInv
<1> QED
  BY Invariance, <1>1, PTL

\* The reported final cost is that of the parameters left in the problem, for
\* any landscape: no rejected trial stays applied.
THEOREM ReportedCostCorrect == Spec => []ReportedCostIsAtParams
<1>1. IInv => ReportedCostIsAtParams
  BY DEF IInv, Honest
<1> QED
  BY Invariance, <1>1, PTL

\* Solve never makes the problem worse, NaN and infinite costs included.
THEOREM NeverWorseCorrect == Spec => []NeverWorse
<1>1. IInv => NeverWorse
  BY DEF IInv, Honest
<1> QED
  BY Invariance, <1>1, PTL

\* Convergence is reported only for an accepted step that hardly changed a
\* finite cost.
THEOREM ConvergedCorrect == Spec => []ConvergedIsEarned
<1>1. IInv => ConvergedIsEarned
  BY DEF IInv, Honest
<1> QED
  BY Invariance, <1>1, PTL

\* A solve that does not converge used up its iterations or its retries.
THEOREM StallCorrect == Spec => []StallIsHonest
<1>1. IInv => StallIsHonest
  BY DEF IInv, Honest
<1> QED
  BY Invariance, <1>1, PTL

\* Whatever Solve reports is true of what it leaves behind, for any problem.
THEOREM SummaryCorrect == Spec => []SummaryHonest
<1>1. IInv => SummaryHonest
  BY DEF IInv, Honest, SummaryHonest
<1> QED
  BY Invariance, <1>1, PTL
=============================================================================
