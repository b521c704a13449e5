---------------------------- MODULE GaussNewton ----------------------------
(***************************************************************************)
(* GaussNewtonSolver::Solve: the damped Gauss-Newton loop with its inner    *)
(* retries.  A point stands for the value of all free parameter blocks, the *)
(* landscape says what EvaluateAll sums to there and which residual blocks  *)
(* it could evaluate.  Where a trial step lands is decided by linear        *)
(* algebra the model leaves open: any point.                                *)
(***************************************************************************)
EXTENDS Naturals

CONSTANTS
  Points,        \* values of the free parameter blocks
  Residuals,     \* the residual blocks of the problem
  FiniteCosts,   \* the finite costs that occur, in units of 1/CostOne
  CostOne,       \* the cost 1.0 in those units
  NaN, Inf,      \* the IEEE values a sum of squares may also take
  TolNum, TolDen,\* cost_change_tolerance = TolNum / TolDen
  MaxIterations, MaxInnerRetries,
  InitialLambda, LambdaUp, LambdaDown, LambdaFloor  \* in multiples of a small unit

Costs == FiniteCosts \cup {NaN, Inf}

ASSUME GaussNewtonAssumption ==
  /\ Points # {}
  /\ FiniteCosts \subseteq Nat
  /\ 0 \in FiniteCosts
  /\ NaN \notin Nat /\ Inf \notin Nat /\ NaN # Inf
  /\ CostOne \in Nat \ {0} /\ TolNum \in Nat \ {0} /\ TolDen \in Nat \ {0}
  /\ MaxIterations \in Nat /\ MaxInnerRetries \in Nat
  /\ InitialLambda \in Nat /\ LambdaFloor \in Nat \ {0} /\ InitialLambda >= LambdaFloor
  /\ LambdaUp \in Nat \ {0} /\ LambdaDown \in Nat \ {0}

VARIABLES
  pc,           \* "start", "linearize", "retry", "judge", "endIteration", "done"
  cost,         \* the landscape: cost[p], the sum EvaluateAll returns at p
  evaluated,    \* the landscape: the residual blocks whose Evaluate succeeds at p
  hasColumns,   \* is any parameter block free?
  params,       \* the parameter blocks of the problem, updated in place
  backup,       \* the copy made before a trial step is applied
  lambda,       \* damping
  costLin,      \* cost_at_linearization
  current,      \* current_cost
  iter,         \* loop counter
  retry,        \* inner loop counter
  accepted,     \* step_accepted
  summary,      \* GaussNewtonSummary
  start         \* (history variable) the point Solve was called with

landscape == <<cost, evaluated, hasColumns, start>>
vars == <<pc, landscape, params, backup, lambda, costLin, current, iter, retry, accepted, summary>>

-----------------------------------------------------------------------------
\* IEEE <= : false as soon as one side is NaN.
Leq(a, b) ==
  /\ a # NaN /\ b # NaN
  /\ b = Inf \/ (a # Inf /\ b # Inf /\ a <= b)

\* std::abs(a - b) < cost_change_tolerance * max(1.0, |a|), a and b sums of
\* squares.  With an infinite or NaN operand the comparison is false.
Settled(a, b) ==
  /\ a \in Nat /\ b \in Nat
  /\ LET gap   == IF a >= b THEN a - b ELSE b - a
         scale == IF a > CostOne THEN a ELSE CostOne
     IN  gap * TolDen < TolNum * scale

Init ==
  /\ pc = "start"
  /\ cost \in [Points -> Costs]
  /\ evaluated \in [Points -> SUBSET Residuals]
  /\ \A p \in Points : evaluated[p] = {} => cost[p] = 0
  /\ hasColumns \in BOOLEAN
  /\ params \in Points
  /\ backup = params
  /\ lambda = InitialLambda
  /\ costLin = 0 /\ current = 0
  /\ iter = 0 /\ retry = 0
  /\ accepted = FALSE
  /\ summary = [iterations |-> 0, initial |-> 0, final |-> 0, converged |-> FALSE]
  /\ start = params

\* No free block: nothing to solve for, reported as converged.
NothingToSolve ==
  /\ pc = "start" /\ ~hasColumns
  /\ pc' = "done"
  /\ summary' = [summary EXCEPT !.initial = cost[params], !.final = cost[params],
                                !.converged = TRUE]
  /\ UNCHANGED <<landscape, params, backup, lambda, costLin, current, iter, retry, accepted>>

Begin ==
  /\ pc = "start" /\ hasColumns
  /\ pc' = "linearize"
  /\ current' = cost[params]
  /\ summary' = [summary EXCEPT !.initial = cost[params]]
  /\ UNCHANGED <<landscape, params, backup, lambda, costLin, iter, retry, accepted>>

\* One evaluation with Jacobians at the current point.
Linearize ==
  /\ pc = "linearize" /\ iter < MaxIterations
  /\ pc' = "retry"
  /\ costLin' = cost[params]
  /\ retry' = 0
  /\ accepted' = FALSE
  /\ UNCHANGED <<landscape, params, backup, lambda, current, iter, summary>>

\* Back up, then write the trial step into the problem's own storage.
Apply(q) ==
  /\ pc = "retry" /\ retry < MaxInnerRetries
  /\ pc' = "judge"
  /\ backup' = params
  /\ params' = q
  /\ UNCHANGED <<landscape, lambda, costLin, current, iter, retry, accepted, summary>>

\* (Variant) rejects without copying the backup back.
Reject_KeepsTrial ==
  /\ pc = "judge" /\ ~Leq(cost[params], costLin)
  /\ pc' = "retry"
  /\ lambda' = lambda * LambdaUp
  /\ retry' = retry + 1
  /\ UNCHANGED <<landscape, params, backup, costLin, current, iter, accepted, summary>>

\* (Variant) forgets to count the retry.
Reject_Uncounted ==
  /\ pc = "judge" /\ ~Leq(cost[params], costLin)
  /\ pc' = "retry"
  /\ params' = backup
  /\ UNCHANGED <<landscape, backup, lambda, costLin, current, iter, retry, accepted, summary>>

Reject ==
  /\ pc = "judge" /\ ~Leq(cost[params], costLin)
  /\ pc' = "retry"
  /\ params' = backup
  /\ lambda' = lambda * LambdaUp
  /\ retry' = retry + 1
  /\ UNCHANGED <<landscape, backup, costLin, current, iter, accepted, summary>>

\* std::max(lambda / lambda_down_factor, 1e-12)
LowerLambda(l) == IF l \div LambdaDown > LambdaFloor THEN l \div LambdaDown ELSE LambdaFloor

Accept ==
  /\ pc = "judge" /\ Leq(cost[params], costLin)
  /\ pc' = "endIteration"
  /\ current' = cost[params]
  /\ lambda' = LowerLambda(lambda)
  /\ accepted' = TRUE
  /\ UNCHANGED <<landscape, params, backup, costLin, iter, retry, summary>>

RetriesExhausted ==
  /\ pc = "retry" /\ retry = MaxInnerRetries
  /\ pc' = "endIteration"
  /\ UNCHANGED <<landscape, params, backup, lambda, costLin, current, iter, retry, accepted, summary>>

\* The end of an iteration: a stall, convergence, or another round.
EndIteration ==
  /\ pc = "endIteration"
  /\ \/ /\ ~accepted \/ Settled(costLin, current)
        /\ summary' = [summary EXCEPT !.iterations = iter + 1, !.final = current,
                                      !.converged = accepted]
        /\ pc' = "done"
        /\ iter' = iter
     \/ /\ accepted /\ ~Settled(costLin, current)
        /\ summary' = [summary EXCEPT !.iterations = iter + 1]
        /\ pc' = "linearize"
        /\ iter' = iter + 1
  /\ UNCHANGED <<landscape, params, backup, lambda, costLin, current, retry, accepted>>

IterationsExhausted ==
  /\ pc = "linearize" /\ iter = MaxIterations
  /\ pc' = "done"
  /\ summary' = [summary EXCEPT !.final = current]
  /\ UNCHANGED <<landscape, params, backup, lambda, costLin, current, iter, retry, accepted>>

Returned == pc = "done" /\ UNCHANGED vars

Step ==
  \/ NothingToSolve \/ Begin \/ Linearize
  \/ \E q \in Points : Apply(q)
  \/ Reject \/ Accept \/ RetriesExhausted \/ EndIteration \/ IterationsExhausted

Next == Step \/ Returned

Spec == Init /\ [][Next]_vars

\* Solve is one call on one thread: it keeps taking steps until it returns.
FairSpec == Spec /\ WF_vars(Step)

-----------------------------------------------------------------------------
TypeOK ==
  /\ pc \in {"start", "linearize", "retry", "judge", "endIteration", "done"}
  /\ cost \in [Points -> Costs]
  /\ evaluated \in [Points -> SUBSET Residuals]
  /\ hasColumns \in BOOLEAN
  /\ params \in Points /\ backup \in Points /\ start \in Points
  /\ lambda \in Nat /\ lambda >= LambdaFloor
  /\ costLin \in Costs /\ current \in Costs
  /\ iter \in 0 .. MaxIterations /\ retry \in 0 .. MaxInnerRetries
  /\ accepted \in BOOLEAN
  /\ summary \in [iterations : 0 .. MaxIterations, initial : Costs, final : Costs,
                  converged : BOOLEAN]

\* The final cost Solve reports is the cost at the parameters it leaves in the
\* problem: no rejected trial, the last one included, stays applied.  The
\* snapshots published afterwards read these parameters.
ReportedCostIsAtParams ==
  pc = "done" => summary.final = cost[params]

\* Solve never trades the problem it was given for a worse one: the final cost
\* is at most the initial cost, and when the initial cost is not a number the
\* parameters come back untouched (every comparison with NaN rejects).
NeverWorse ==
  pc = "done" =>
     \/ Leq(summary.final, summary.initial)
     \/ summary.initial = NaN /\ params = start

\* "converged" is earned by an accepted step that hardly changed a finite
\* cost; running out of damping, or a cost that is not a number, never counts.
ConvergedIsEarned ==
  pc = "done" /\ hasColumns /\ summary.converged =>
     /\ accepted
     /\ summary.final \in FiniteCosts
     /\ Settled(costLin, summary.final)

\* "damping exhausted: stall, report honestly": a solve that does not converge
\* either used up its iterations or failed every retry of the last one, whose
\* linearization point it then returns.
StallIsHonest ==
  pc = "done" /\ ~summary.converged =>
     \/ summary.iterations = MaxIterations
     \/ ~accepted /\ retry = MaxInnerRetries /\ cost[params] = costLin

\* The summary Solve returns can be taken at its word, whatever the costs are:
\* its final cost is that of the parameters left in the problem, it is no
\* worse than the initial one, and "converged" or a stall was earned.
SummaryHonest ==
  ReportedCostIsAtParams /\ NeverWorse /\ ConvergedIsEarned /\ StallIsHonest

\* Every call of Solve returns, whatever the costs are, NaN and infinity
\* included: both loops count every pass.
SolveReturns == <>(pc = "done")

=============================================================================
