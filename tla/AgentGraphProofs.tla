-------------------------- MODULE AgentGraphProofs --------------------------
(***************************************************************************)
(* Proofs about AgentGraph, for any budgets, costs, limits on mode         *)
(* switches, plans and numbers of stops.                                   *)
(*                                                                         *)
(* The graph is a cycle through the nodes, so most invariants say what is  *)
(* known at a node:                                                        *)
(*  - RouteInv: a task that is over is past its last decision, and the     *)
(*    graph is paused on the gate only; with it OverOnlyFinishes is        *)
(*    inductive;                                                           *)
(*  - RoundInv: what the critic finds was left by the tools of this round; *)
(*    with it the progress of the plan (PlanInv) is;                       *)
(*  - BudgetInv: the cheap model was chosen when the tokens were used up,  *)
(*    they stay used up, and it is chosen once;                            *)
(*  - SuperstepInv: how many supersteps a run has taken at most when it is *)
(*    at a node, in terms of the steps that it has used.                   *)
(***************************************************************************)
EXTENDS AgentGraph, WellFoundedInduction, TLAPS

RouteInv ==
    /\ OverOnlyFinishes
    /\ run = "paused" => node = "approval_gate"

RoundInv ==
    node = "critic" => /\ status = "running" => obs # "none"
                       /\ obs = "ok" => roundOk

PlanInv ==
    mode = "plan_execute" =>
        \A i \in 1..Len(plan) : i <= currentStep => plan[i] = "done"

BudgetInv ==
    /\ downgraded => HasCheapModel /\ tokens = MaxTokens /\ overruns <= 1
    /\ ~downgraded => overruns = 0

\* The supersteps before a node of a run, from the longest cycle: decision, gate,
\* tools, critic, and compressor or planner.
SuperstepInv ==
    /\ node = "planner" => supersteps <= 5 * steps
    /\ node = "react_step" => supersteps <= 5 * steps + 1
    /\ node = "approval_gate" => steps >= 1 /\ supersteps <= 5 * steps - 3
    /\ node = "tool_executor" => steps >= 1 /\ supersteps <= 5 * steps - 2
    /\ node = "critic" => steps >= 1 /\ supersteps <= 5 * steps - 1
    /\ node = "compressor" => supersteps <= 5 * steps
    /\ node = "finisher" => supersteps <= 5 * steps + 2

\* langgraph does not raise GraphRecursionError.
WithinRecursionLimit ==
    run = "going" /\ node # "END" => supersteps < RecursionLimit

-----------------------------------------------------------------------------
(* What the operators do.                                                  *)

\* The budgets and limits are numbers.
LEMMA LimitsAreNat ==
    /\ MaxSteps \in Nat \ {0} /\ MaxTokens \in Nat \ {0} /\ MaxModeSwitches \in Nat
    /\ Costs \subseteq Nat /\ HasCheapModel \in BOOLEAN
  BY GraphAssumption DEF GraphAssumption

\* Tokens never leave their range and never become fewer.
LEMMA SpendAdds ==
    ASSUME tokens \in 0..MaxTokens, Spend
    PROVE  tokens' \in 0..MaxTokens /\ tokens <= tokens'
  BY LimitsAreNat DEF Spend

\* A nonempty set of numbers has a smallest one.
LEMMA SmallestOf ==
    ASSUME NEW S \in SUBSET Nat, S # {}
    PROVE  \E m \in S : \A j \in S : m <= j
<1> DEFINE R == OpToRel(<, Nat)
<1>1. PICK m \in S : \A y \in S : ~ (<<y, m>> \in R)
  <2> HIDE DEF R
  <2>1. IsWellFoundedOn(R, Nat)
    BY NatLessThanWellFounded DEF R
  <2> QED
    BY <2>1, WFMin
<1>2. ASSUME NEW y \in S, ~(m <= y) PROVE FALSE
  <2>1. y \in Nat /\ m \in Nat /\ y < m
    BY <1>2
  <2> QED
    BY <1>1, <2>1 DEF OpToRel
<1> QED
  BY <1>2

\* _first_pending: every batch before the one it returns is done.
LEMMA FirstPendingSkipsDone ==
    ASSUME NEW p \in Seq(Batches)
    PROVE  /\ FirstPending(p) \in Nat
           /\ \A i \in 1..Len(p) : i <= FirstPending(p) => p[i] = "done"
<1> DEFINE open == {i \in 1..Len(p) : p[i] # "done"}
           m == CHOOSE i \in open : \A j \in open : i <= j
<1>0. Len(p) \in Nat /\ open \subseteq 1..Len(p)
  OBVIOUS
<1>1. CASE open = {}
  BY <1>0, <1>1 DEF FirstPending
<1>2. CASE open # {}
  <2>1. open \in SUBSET Nat
    BY <1>0
  <2>2. \E i \in open : \A j \in open : i <= j
    BY <1>2, <2>1, SmallestOf
  <2>3. m \in open /\ \A j \in open : m <= j
    BY <2>2
  <2>4. FirstPending(p) = m - 1
    BY <1>2 DEF FirstPending
  <2>5. m \in 1..Len(p)
    BY <1>0, <2>3
  <2> HIDE DEF m
  <2> QED
    BY <1>0, <2>3, <2>4, <2>5
<1> QED
  BY <1>1, <1>2

\* The plans of the planner are sequences of batches.
LEMMA PlansAreSequences ==
    ASSUME NEW p, p \in ReplannedBatches \/ p \in FreshBatches
    PROVE  p \in Seq(Batches)
<1>1. PICK n \in 1..MaxBatches : p \in [1..n -> Batches]
  BY DEF ReplannedBatches, FreshBatches, Batches
<1>2. n \in Nat
  BY GraphAssumption DEF GraphAssumption
<1> QED
  BY <1>1, <1>2

-----------------------------------------------------------------------------
(* The invariant.                                                          *)

\* require_approval is set at submission and never changes.
LEMMA ApprovalIsFixed == [Next]_vars => UNCHANGED requireApproval
  BY DEF Next, Superstep, Request, vars

\* TypeOK in the parts that are kept one by one.
PlaceType ==
    /\ node \in Nodes
    /\ run \in {"going", "paused", "stopped"}
    /\ mode \in {"react", "plan_execute"}
    /\ status \in {"running", "done", "failed", "canceled", "budget_exceeded"}
    /\ errorKind \in Failures \cup {"none"}
    /\ obs \in Failures \cup {"none", "ok"}
FlagType ==
    /\ canceled \in BOOLEAN /\ requireApproval \in BOOLEAN /\ downgraded \in BOOLEAN
    /\ replan \in BOOLEAN /\ pending \in BOOLEAN /\ needsFinal \in BOOLEAN
    /\ draft \in BOOLEAN /\ roundOk \in BOOLEAN
NumberType ==
    /\ supersteps \in Nat /\ stops \in Nat /\ currentStep \in Nat /\ streak \in Nat
    /\ switches \in Nat /\ steps \in 0..MaxSteps /\ tokens \in 0..MaxTokens
    /\ overruns \in Nat /\ approved \in Nat
PlanType == plan \in Seq(Batches)

\* These are all parts of it.
LEMMA TypeParts == TypeOK <=> PlaceType /\ FlagType /\ NumberType /\ PlanType
  BY DEF TypeOK, PlaceType, FlagType, NumberType, PlanType

\* Every step keeps the types of where the task is.
LEMMA PlaceStep == PlaceType /\ [Next]_vars => PlaceType'
<1> SUFFICES ASSUME PlaceType, [Next]_vars PROVE PlaceType'
  OBVIOUS
<1> USE DEF PlaceType, Nodes, Failures, planVars
<1>1. CASE Planner
  BY <1>1 DEF Planner, Enter
<1>2. CASE ReactStepEnds
  BY <1>2 DEF ReactStepEnds, Enter, RouteAfterStep
<1>3. CASE ReactStep
  BY <1>3 DEF ReactStep, Enter, RouteAfterStep
<1>4. CASE GatePassesThrough
  BY <1>4 DEF GatePassesThrough, Enter
<1>5. CASE GateInterrupts
  BY <1>5 DEF GateInterrupts
<1>6. CASE ToolExecutor
  BY <1>6 DEF ToolExecutor, Enter
<1>7. CASE CriticSkips
  BY <1>7 DEF CriticSkips, Enter, RouteAfterCritic
<1>8. CASE CriticAccepts
  BY <1>8 DEF CriticAccepts, Enter, RouteAfterCritic
<1>9. CASE CriticRetriesOrFails
  BY <1>9 DEF CriticRetriesOrFails, Enter, RouteAfterCritic
<1>10. CASE CriticFindsDefect
  BY <1>10 DEF CriticFindsDefect, Enter, RouteAfterCritic
<1>11. CASE Compressor
  BY <1>11 DEF Compressor, Enter
<1>12. CASE Finisher
  BY <1>12 DEF Finisher, Enter
<1>13. CASE Approve
  BY <1>13 DEF Approve
<1>14. CASE Reject
  BY <1>14 DEF Reject
<1>15. CASE Cancel
  BY <1>15 DEF Cancel, NodeVars
<1>16. CASE Stop
  BY <1>16 DEF Stop, NodeVars
<1>17. CASE Resume
  BY <1>17 DEF Resume, NodeVars
<1>18. CASE UNCHANGED vars
  BY <1>18 DEF vars, control
<1> QED
  BY <1>1, <1>2, <1>3, <1>4, <1>5, <1>6, <1>7, <1>8, <1>9,
     <1>10, <1>11, <1>12, <1>13, <1>14, <1>15, <1>16, <1>17, <1>18
  DEF Next, Superstep, Request

\* Every step keeps the types of the flags.
LEMMA FlagStep == FlagType /\ [Next]_vars => FlagType'
<1> SUFFICES ASSUME FlagType, [Next]_vars PROVE FlagType'
  OBVIOUS
<1>0. UNCHANGED requireApproval
  BY ApprovalIsFixed
<1> USE <1>0 DEF FlagType, planVars, budgetVars, finalVars, history
<1>1. CASE Planner
  BY <1>1 DEF Planner, Enter
<1>2. CASE ReactStepEnds
  BY <1>2 DEF ReactStepEnds, Enter
<1>3. CASE ReactStep
  BY <1>3 DEF ReactStep, Enter
<1>4. CASE GatePassesThrough
  BY <1>4 DEF GatePassesThrough, Enter
<1>5. CASE GateInterrupts
  BY <1>5 DEF GateInterrupts
<1>6. CASE ToolExecutor
  BY <1>6 DEF ToolExecutor, Enter
<1>7. CASE CriticSkips
  BY <1>7 DEF CriticSkips, Enter
<1>8. CASE CriticAccepts
  BY <1>8 DEF CriticAccepts, Enter
<1>9. CASE CriticRetriesOrFails
  BY <1>9 DEF CriticRetriesOrFails, Enter
<1>10. CASE CriticFindsDefect
  BY <1>10 DEF CriticFindsDefect, Enter
<1>11. CASE Compressor
  BY <1>11 DEF Compressor, Enter
<1>12. CASE Finisher
  BY <1>12 DEF Finisher, Enter
<1>13. CASE Approve
  BY <1>13 DEF Approve
<1>14. CASE Reject
  BY <1>14 DEF Reject
<1>15. CASE Cancel
  BY <1>15 DEF Cancel, NodeVars
<1>16. CASE Stop
  BY <1>16 DEF Stop, NodeVars
<1>17. CASE Resume
  BY <1>17 DEF Resume, NodeVars
<1>18. CASE UNCHANGED vars
  BY <1>18 DEF vars, control
<1> QED
  BY <1>1, <1>2, <1>3, <1>4, <1>5, <1>6, <1>7, <1>8, <1>9,
     <1>10, <1>11, <1>12, <1>13, <1>14, <1>15, <1>16, <1>17, <1>18
  DEF Next, Superstep, Request

\* Every step keeps the types of the numbers.
LEMMA NumberStep == NumberType /\ PlanType /\ [Next]_vars => NumberType'
<1> SUFFICES ASSUME NumberType, PlanType, [Next]_vars PROVE NumberType'
  OBVIOUS
<1> USE LimitsAreNat DEF NumberType, PlanType, planVars, budgetVars, finalVars, history
<1>1. CASE Planner
  BY <1>1, SpendAdds, PlansAreSequences, FirstPendingSkipsDone DEF Planner, Enter
<1>2. CASE ReactStepEnds
  BY <1>2 DEF ReactStepEnds, Enter
<1>3. CASE ReactStep
  BY <1>3, SpendAdds DEF ReactStep, Enter, CheckBudget, CountStep
<1>4. CASE GatePassesThrough
  BY <1>4 DEF GatePassesThrough, Enter
<1>5. CASE GateInterrupts
  BY <1>5 DEF GateInterrupts
<1>6. CASE ToolExecutor
  BY <1>6, SpendAdds DEF ToolExecutor, Enter
<1>7. CASE CriticSkips
  BY <1>7 DEF CriticSkips, Enter
<1>8. CASE CriticAccepts
  BY <1>8 DEF CriticAccepts, Enter
<1>9. CASE CriticRetriesOrFails
  BY <1>9 DEF CriticRetriesOrFails, Enter
<1>10. CASE CriticFindsDefect
  BY <1>10 DEF CriticFindsDefect, Enter
<1>11. CASE Compressor
  BY <1>11, SpendAdds DEF Compressor, Enter
<1>12. CASE Finisher
  BY <1>12, SpendAdds DEF Finisher, Enter
<1>13. CASE Approve
  BY <1>13 DEF Approve
<1>14. CASE Reject
  BY <1>14 DEF Reject
<1>15. CASE Cancel
  BY <1>15 DEF Cancel, NodeVars
<1>16. CASE Stop
  BY <1>16 DEF Stop, NodeVars
<1>17. CASE Resume
  BY <1>17 DEF Resume, NodeVars
<1>18. CASE UNCHANGED vars
  BY <1>18 DEF vars, control
<1> QED
  BY <1>1, <1>2, <1>3, <1>4, <1>5, <1>6, <1>7, <1>8, <1>9,
     <1>10, <1>11, <1>12, <1>13, <1>14, <1>15, <1>16, <1>17, <1>18
  DEF Next, Superstep, Request

\* Every step keeps the type of the plan.
LEMMA PlansStep == NumberType /\ PlanType /\ [Next]_vars => PlanType'
<1> SUFFICES ASSUME NumberType, PlanType, [Next]_vars PROVE PlanType'
  OBVIOUS
<1> USE DEF PlanType, planVars
<1>1. CASE Planner
  BY <1>1, PlansAreSequences DEF Planner, Enter
<1>2. CASE ReactStepEnds
  BY <1>2 DEF ReactStepEnds, Enter
<1>3. CASE ReactStep
  BY <1>3 DEF ReactStep, Enter
<1>4. CASE GatePassesThrough
  BY <1>4 DEF GatePassesThrough, Enter
<1>5. CASE GateInterrupts
  BY <1>5 DEF GateInterrupts
<1>6. CASE ToolExecutor
  BY <1>6 DEF ToolExecutor, Enter
<1>7. CASE CriticSkips
  BY <1>7 DEF CriticSkips, Enter
<1>8. CASE CriticAccepts
  BY <1>8 DEF CriticAccepts, Enter, Batches
<1>9. CASE CriticRetriesOrFails
  BY <1>9 DEF CriticRetriesOrFails, Enter
<1>10. CASE CriticFindsDefect
  <2>1. <<"done">> \in Seq(Batches) /\ <<>> \in Seq(Batches)
    BY DEF Batches
  <2>2. plan' \in {plan, <<"done">>, <<>>}
    BY <1>10 DEF CriticFindsDefect
  <2> QED
    BY <2>1, <2>2
<1>11. CASE Compressor
  BY <1>11 DEF Compressor, Enter
<1>12. CASE Finisher
  BY <1>12 DEF Finisher, Enter
<1>13. CASE Approve
  BY <1>13 DEF Approve
<1>14. CASE Reject
  BY <1>14 DEF Reject
<1>15. CASE Cancel
  BY <1>15 DEF Cancel, NodeVars
<1>16. CASE Stop
  BY <1>16 DEF Stop, NodeVars
<1>17. CASE Resume
  BY <1>17 DEF Resume, NodeVars
<1>18. CASE UNCHANGED vars
  BY <1>18 DEF vars, control
<1> QED
  BY <1>1, <1>2, <1>3, <1>4, <1>5, <1>6, <1>7, <1>8, <1>9,
     <1>10, <1>11, <1>12, <1>13, <1>14, <1>15, <1>16, <1>17, <1>18
  DEF Next, Superstep, Request

\* Every step keeps the types.
LEMMA TypeStep == TypeOK /\ [Next]_vars => TypeOK'
  BY TypeParts, PlaceStep, FlagStep, NumberStep, PlansStep DEF TypeOK, PlaceType, FlagType,
     NumberType, PlanType

\* Every step keeps what is known about where a task is.
LEMMA RouteStep == TypeOK /\ RouteInv /\ [Next]_vars => RouteInv'
<1> SUFFICES ASSUME TypeOK, RouteInv, [Next]_vars PROVE RouteInv'
  OBVIOUS
<1> USE DEF RouteInv, OverOnlyFinishes
<1>1. CASE Planner
  BY <1>1 DEF Planner, Enter, planVars, budgetVars, finalVars, history
<1>2. CASE ReactStepEnds
  BY <1>2 DEF ReactStepEnds, Enter, RouteAfterStep
<1>3. CASE ReactStep
  BY <1>3 DEF ReactStep, Enter, RouteAfterStep
<1>4. CASE GatePassesThrough
  BY <1>4 DEF GatePassesThrough, Enter
<1>5. CASE GateInterrupts
  BY <1>5 DEF GateInterrupts
<1>6. CASE ToolExecutor
  BY <1>6 DEF ToolExecutor, Enter
<1>7. CASE CriticSkips
  BY <1>7 DEF CriticSkips, Enter, RouteAfterCritic
<1>8. CASE CriticAccepts
  BY <1>8 DEF CriticAccepts, Enter, RouteAfterCritic
<1>9. CASE CriticRetriesOrFails
  BY <1>9 DEF CriticRetriesOrFails, Enter, RouteAfterCritic
<1>10. CASE CriticFindsDefect
  BY <1>10 DEF CriticFindsDefect, Enter, RouteAfterCritic
<1>11. CASE Compressor
  BY <1>11 DEF Compressor, Enter
<1>12. CASE Finisher
  BY <1>12 DEF Finisher, Enter
<1>13. CASE Approve
  BY <1>13 DEF Approve
<1>14. CASE Reject
  BY <1>14 DEF Reject
<1>15. CASE Cancel
  BY <1>15 DEF Cancel, NodeVars
<1>16. CASE Stop
  BY <1>16 DEF Stop, NodeVars
<1>17. CASE Resume
  BY <1>17 DEF Resume, NodeVars
<1>18. CASE UNCHANGED vars
  BY <1>18 DEF vars, control
<1> QED
  BY <1>1, <1>2, <1>3, <1>4, <1>5, <1>6, <1>7, <1>8, <1>9,
     <1>10, <1>11, <1>12, <1>13, <1>14, <1>15, <1>16, <1>17, <1>18
  DEF Next, Superstep, Request

\* Every step keeps what is known about the last round.
LEMMA RoundStep == TypeOK /\ RoundInv /\ [Next]_vars => RoundInv'
<1> SUFFICES ASSUME TypeOK, RoundInv, [Next]_vars PROVE RoundInv'
  OBVIOUS
<1> USE DEF RoundInv, history
<1>1. CASE Planner
  BY <1>1 DEF Planner, Enter
<1>2. CASE ReactStepEnds
  BY <1>2 DEF ReactStepEnds, Enter, RouteAfterStep
<1>3. CASE ReactStep
  BY <1>3 DEF ReactStep, Enter, RouteAfterStep
<1>4. CASE GatePassesThrough
  BY <1>4 DEF GatePassesThrough, Enter
<1>5. CASE GateInterrupts
  BY <1>5 DEF GateInterrupts
<1>6. CASE ToolExecutor
  BY <1>6 DEF ToolExecutor, Enter, Failures, TypeOK
<1>7. CASE CriticSkips
  BY <1>7 DEF CriticSkips, Enter, RouteAfterCritic
<1>8. CASE CriticAccepts
  BY <1>8 DEF CriticAccepts, Enter, RouteAfterCritic
<1>9. CASE CriticRetriesOrFails
  BY <1>9 DEF CriticRetriesOrFails, Enter, RouteAfterCritic
<1>10. CASE CriticFindsDefect
  BY <1>10 DEF CriticFindsDefect, Enter, RouteAfterCritic
<1>11. CASE Compressor
  BY <1>11 DEF Compressor, Enter
<1>12. CASE Finisher
  BY <1>12 DEF Finisher, Enter
<1>13. CASE Approve
  BY <1>13 DEF Approve
<1>14. CASE Reject
  BY <1>14 DEF Reject
<1>15. CASE Cancel
  BY <1>15 DEF Cancel, NodeVars
<1>16. CASE Stop
  BY <1>16 DEF Stop, NodeVars
<1>17. CASE Resume
  BY <1>17 DEF Resume, NodeVars
<1>18. CASE UNCHANGED vars
  BY <1>18 DEF vars, control
<1> QED
  BY <1>1, <1>2, <1>3, <1>4, <1>5, <1>6, <1>7, <1>8, <1>9,
     <1>10, <1>11, <1>12, <1>13, <1>14, <1>15, <1>16, <1>17, <1>18
  DEF Next, Superstep, Request

\* Every step keeps what is known about the budget.
LEMMA BudgetStep == TypeOK /\ BudgetInv /\ [Next]_vars => BudgetInv'
<1> SUFFICES ASSUME TypeOK, BudgetInv, [Next]_vars PROVE BudgetInv'
  OBVIOUS
<1> USE LimitsAreNat DEF BudgetInv, TypeOK, budgetVars, history
<1>1. CASE Planner
  BY <1>1, SpendAdds DEF Planner, Enter
<1>2. CASE ReactStepEnds
  BY <1>2 DEF ReactStepEnds, Enter
<1>3. CASE ReactStep
  BY <1>3, SpendAdds DEF ReactStep, Enter, CheckBudget
<1>4. CASE GatePassesThrough
  BY <1>4 DEF GatePassesThrough, Enter
<1>5. CASE GateInterrupts
  BY <1>5 DEF GateInterrupts
<1>6. CASE ToolExecutor
  BY <1>6, SpendAdds DEF ToolExecutor, Enter
<1>7. CASE CriticSkips
  BY <1>7 DEF CriticSkips, Enter
<1>8. CASE CriticAccepts
  BY <1>8 DEF CriticAccepts, Enter
<1>9. CASE CriticRetriesOrFails
  BY <1>9 DEF CriticRetriesOrFails, Enter
<1>10. CASE CriticFindsDefect
  BY <1>10 DEF CriticFindsDefect, Enter
<1>11. CASE Compressor
  BY <1>11, SpendAdds DEF Compressor, Enter
<1>12. CASE Finisher
  BY <1>12, SpendAdds DEF Finisher, Enter
<1>13. CASE Approve
  BY <1>13 DEF Approve
<1>14. CASE Reject
  BY <1>14 DEF Reject
<1>15. CASE Cancel
  BY <1>15 DEF Cancel, NodeVars
<1>16. CASE Stop
  BY <1>16 DEF Stop, NodeVars
<1>17. CASE Resume
  BY <1>17 DEF Resume, NodeVars
<1>18. CASE UNCHANGED vars
  BY <1>18 DEF vars, control
<1> QED
  BY <1>1, <1>2, <1>3, <1>4, <1>5, <1>6, <1>7, <1>8, <1>9,
     <1>10, <1>11, <1>12, <1>13, <1>14, <1>15, <1>16, <1>17, <1>18
  DEF Next, Superstep, Request

\* Every step keeps the progress of the plan.
LEMMA PlanStep == TypeOK /\ RoundInv /\ PlanInv /\ [Next]_vars => PlanInv'
<1> SUFFICES ASSUME TypeOK, RoundInv, PlanInv, [Next]_vars PROVE PlanInv'
  OBVIOUS
<1> USE DEF PlanInv, TypeOK, planVars
<1>1. CASE Planner
  BY <1>1, PlansAreSequences, FirstPendingSkipsDone DEF Planner, Enter
<1>2. CASE ReactStepEnds
  BY <1>2 DEF ReactStepEnds, Enter
<1>3. CASE ReactStep
  BY <1>3 DEF ReactStep, Enter
<1>4. CASE GatePassesThrough
  BY <1>4 DEF GatePassesThrough, Enter
<1>5. CASE GateInterrupts
  BY <1>5 DEF GateInterrupts
<1>6. CASE ToolExecutor
  BY <1>6 DEF ToolExecutor, Enter
<1>7. CASE CriticSkips
  BY <1>7 DEF CriticSkips, Enter
<1>8. CASE CriticAccepts
  BY <1>8 DEF CriticAccepts, Enter, RoundInv, BatchFinished, Failures
<1>9. CASE CriticRetriesOrFails
  BY <1>9 DEF CriticRetriesOrFails, Enter
<1>10. CASE CriticFindsDefect
  BY <1>10 DEF CriticFindsDefect, Enter
<1>11. CASE Compressor
  BY <1>11 DEF Compressor, Enter
<1>12. CASE Finisher
  BY <1>12 DEF Finisher, Enter
<1>13. CASE Approve
  BY <1>13 DEF Approve
<1>14. CASE Reject
  BY <1>14 DEF Reject
<1>15. CASE Cancel
  BY <1>15 DEF Cancel, NodeVars
<1>16. CASE Stop
  BY <1>16 DEF Stop, NodeVars
<1>17. CASE Resume
  BY <1>17 DEF Resume, NodeVars
<1>18. CASE UNCHANGED vars
  BY <1>18 DEF vars, control
<1> QED
  BY <1>1, <1>2, <1>3, <1>4, <1>5, <1>6, <1>7, <1>8, <1>9,
     <1>10, <1>11, <1>12, <1>13, <1>14, <1>15, <1>16, <1>17, <1>18
  DEF Next, Superstep, Request

\* Every step keeps the number of supersteps.
LEMMA SuperstepStep == TypeOK /\ RouteInv /\ SuperstepInv /\ [Next]_vars => SuperstepInv'
<1> SUFFICES ASSUME TypeOK, RouteInv, SuperstepInv, [Next]_vars PROVE SuperstepInv'
  OBVIOUS
<1> USE LimitsAreNat DEF SuperstepInv, TypeOK, budgetVars
<1>1. CASE Planner
  BY <1>1 DEF Planner, Enter
<1>2. CASE ReactStepEnds
  BY <1>2 DEF ReactStepEnds, Enter, RouteAfterStep
<1>3. CASE ReactStep
  BY <1>3 DEF ReactStep, Enter, RouteAfterStep, CountStep
<1>4. CASE GatePassesThrough
  BY <1>4 DEF GatePassesThrough, Enter
<1>5. CASE GateInterrupts
  BY <1>5 DEF GateInterrupts
<1>6. CASE ToolExecutor
  BY <1>6 DEF ToolExecutor, Enter
<1>7. CASE CriticSkips
  BY <1>7 DEF CriticSkips, Enter, RouteAfterCritic
<1>8. CASE CriticAccepts
  BY <1>8 DEF CriticAccepts, Enter, RouteAfterCritic
<1>9. CASE CriticRetriesOrFails
  BY <1>9 DEF CriticRetriesOrFails, Enter, RouteAfterCritic
<1>10. CASE CriticFindsDefect
  BY <1>10 DEF CriticFindsDefect, Enter, RouteAfterCritic
<1>11. CASE Compressor
  BY <1>11 DEF Compressor, Enter
<1>12. CASE Finisher
  BY <1>12 DEF Finisher, Enter
<1>13. CASE Approve
  BY <1>13 DEF Approve, RouteInv
<1>14. CASE Reject
  BY <1>14 DEF Reject, RouteInv
<1>15. CASE Cancel
  BY <1>15 DEF Cancel, NodeVars
<1>16. CASE Stop
  BY <1>16 DEF Stop, NodeVars
<1>17. CASE Resume
  BY <1>17 DEF Resume, NodeVars
<1>18. CASE UNCHANGED vars
  BY <1>18 DEF vars, control
<1> QED
  BY <1>1, <1>2, <1>3, <1>4, <1>5, <1>6, <1>7, <1>8, <1>9,
     <1>10, <1>11, <1>12, <1>13, <1>14, <1>15, <1>16, <1>17, <1>18
  DEF Next, Superstep, Request

\* Every step keeps the approval of the round.
LEMMA ApprovalStep == TypeOK /\ EveryRoundApproved /\ [Next]_vars => EveryRoundApproved'
<1> SUFFICES ASSUME TypeOK, EveryRoundApproved, [Next]_vars PROVE EveryRoundApproved'
  OBVIOUS
<1>0. UNCHANGED requireApproval
  BY ApprovalIsFixed
<1> USE <1>0 DEF EveryRoundApproved, budgetVars, history
<1>1. CASE Planner
  BY <1>1 DEF Planner, Enter
<1>2. CASE ReactStepEnds
  BY <1>2 DEF ReactStepEnds, Enter, RouteAfterStep
<1>3. CASE ReactStep
  BY <1>3 DEF ReactStep, Enter, RouteAfterStep
<1>4. CASE GatePassesThrough
  BY <1>4 DEF GatePassesThrough, Enter
<1>5. CASE GateInterrupts
  BY <1>5 DEF GateInterrupts
<1>6. CASE ToolExecutor
  BY <1>6 DEF ToolExecutor, Enter
<1>7. CASE CriticSkips
  BY <1>7 DEF CriticSkips, Enter, RouteAfterCritic
<1>8. CASE CriticAccepts
  BY <1>8 DEF CriticAccepts, Enter, RouteAfterCritic
<1>9. CASE CriticRetriesOrFails
  BY <1>9 DEF CriticRetriesOrFails, Enter, RouteAfterCritic
<1>10. CASE CriticFindsDefect
  BY <1>10 DEF CriticFindsDefect, Enter, RouteAfterCritic
<1>11. CASE Compressor
  BY <1>11 DEF Compressor, Enter
<1>12. CASE Finisher
  BY <1>12 DEF Finisher, Enter
<1>13. CASE Approve
  BY <1>13 DEF Approve
<1>14. CASE Reject
  BY <1>14 DEF Reject
<1>15. CASE Cancel
  BY <1>15 DEF Cancel, NodeVars
<1>16. CASE Stop
  BY <1>16 DEF Stop, NodeVars
<1>17. CASE Resume
  BY <1>17 DEF Resume, NodeVars
<1>18. CASE UNCHANGED vars
  BY <1>18 DEF vars, control
<1> QED
  BY <1>1, <1>2, <1>3, <1>4, <1>5, <1>6, <1>7, <1>8, <1>9,
     <1>10, <1>11, <1>12, <1>13, <1>14, <1>15, <1>16, <1>17, <1>18
  DEF Next, Superstep, Request

\* Every step keeps the number of mode switches within its limit.
LEMMA SwitchStep == TypeOK /\ ModeSwitchesBounded /\ [Next]_vars => ModeSwitchesBounded'
<1> SUFFICES ASSUME TypeOK, ModeSwitchesBounded, [Next]_vars PROVE ModeSwitchesBounded'
  OBVIOUS
<1> USE LimitsAreNat DEF ModeSwitchesBounded, TypeOK, planVars
<1>1. CASE Planner
  BY <1>1 DEF Planner, Enter, Upgrades
<1>2. CASE ReactStepEnds
  BY <1>2 DEF ReactStepEnds, Enter
<1>3. CASE ReactStep
  BY <1>3 DEF ReactStep, Enter
<1>4. CASE GatePassesThrough
  BY <1>4 DEF GatePassesThrough, Enter
<1>5. CASE GateInterrupts
  BY <1>5 DEF GateInterrupts
<1>6. CASE ToolExecutor
  BY <1>6 DEF ToolExecutor, Enter
<1>7. CASE CriticSkips
  BY <1>7 DEF CriticSkips, Enter
<1>8. CASE CriticAccepts
  BY <1>8 DEF CriticAccepts, Enter
<1>9. CASE CriticRetriesOrFails
  BY <1>9 DEF CriticRetriesOrFails, Enter
<1>10. CASE CriticFindsDefect
  BY <1>10 DEF CriticFindsDefect, Enter, MaySwitch
<1>11. CASE Compressor
  BY <1>11 DEF Compressor, Enter
<1>12. CASE Finisher
  BY <1>12 DEF Finisher, Enter
<1>13. CASE Approve
  BY <1>13 DEF Approve
<1>14. CASE Reject
  BY <1>14 DEF Reject
<1>15. CASE Cancel
  BY <1>15 DEF Cancel, NodeVars
<1>16. CASE Stop
  BY <1>16 DEF Stop, NodeVars
<1>17. CASE Resume
  BY <1>17 DEF Resume, NodeVars
<1>18. CASE UNCHANGED vars
  BY <1>18 DEF vars, control
<1> QED
  BY <1>1, <1>2, <1>3, <1>4, <1>5, <1>6, <1>7, <1>8, <1>9,
     <1>10, <1>11, <1>12, <1>13, <1>14, <1>15, <1>16, <1>17, <1>18
  DEF Next, Superstep, Request

Parts == RouteInv /\ RoundInv /\ PlanInv /\ BudgetInv /\ SuperstepInv
IInv == TypeOK /\ Parts /\ EveryRoundApproved /\ ModeSwitchesBounded

\* The initial states satisfy all parts.
LEMMA InvInit == Init => IInv
<1> SUFFICES ASSUME Init PROVE IInv
  OBVIOUS
<1>1. mode \in {"react", "plan_execute"} /\ requireApproval \in BOOLEAN
  BY GraphAssumption DEF GraphAssumption, Init
<1>2. PlaceType /\ FlagType
  BY <1>1 DEF Init, PlaceType, FlagType, Nodes
<1>3. NumberType /\ PlanType
  BY LimitsAreNat DEF Init, NumberType, PlanType
<1>4. TypeOK
  BY <1>2, <1>3, TypeParts
<1>5. RouteInv /\ RoundInv /\ EveryRoundApproved
  BY DEF Init, RouteInv, OverOnlyFinishes, RoundInv, EveryRoundApproved
<1>6. PlanInv
  BY DEF Init, PlanInv
<1>7. BudgetInv /\ SuperstepInv /\ ModeSwitchesBounded
  BY LimitsAreNat DEF Init, BudgetInv, SuperstepInv, ModeSwitchesBounded
<1> QED
  BY <1>4, <1>5, <1>6, <1>7 DEF IInv, Parts

\* The conjunction is an invariant.
LEMMA InvariantHolds == Spec => []IInv
<1>1. IInv /\ [Next]_vars => IInv'
  BY TypeStep, RouteStep, RoundStep, PlanStep, BudgetStep, SuperstepStep, ApprovalStep,
     SwitchStep DEF IInv, Parts
<1> QED
  BY InvInit, <1>1, PTL DEF Spec

-----------------------------------------------------------------------------
(* The theorems.                                                           *)

\* init_state and the nodes: every reachable state is well typed; in particular
\* react_step_node never counts beyond max_steps.
THEOREM TypeCorrect == Spec => []TypeOK
<1>1. IInv => TypeOK
  BY DEF IInv
<1> QED
  BY <1>1, InvariantHolds, PTL

\* planner_node and critic_node: the switches of both together stay within
\* max_mode_switches.
THEOREM SwitchesAreBounded == Spec => []ModeSwitchesBounded
<1>1. IInv => ModeSwitchesBounded
  BY DEF IInv
<1> QED
  BY <1>1, InvariantHolds, PTL

\* check_budget: the token budget is overrun by one decision at most, and only
\* with a cheap model.
THEOREM OverrunIsOneDecision == Spec => []OneDecisionOverBudget
<1>1. IInv => OneDecisionOverBudget
  BY DEF IInv, Parts, TypeOK, BudgetInv, OneDecisionOverBudget
<1> QED
  BY <1>1, InvariantHolds, PTL

\* _first_pending and critic_node: no batch before current_step has a pending step.
THEOREM PlanIsNotSkipped == Spec => []NothingSkipped
<1>1. IInv => NothingSkipped
  BY DEF IInv, Parts, PlanInv, NothingSkipped
<1> QED
  BY <1>1, InvariantHolds, PTL

\* route_after_step and route_after_critic: a task that is over only finishes.
THEOREM OverMeansFinish == Spec => []OverOnlyFinishes
<1>1. IInv => OverOnlyFinishes
  BY DEF IInv, Parts, RouteInv
<1> QED
  BY <1>1, InvariantHolds, PTL

\* approval_gate_node: every round of tools has an approval of its own.
THEOREM RoundsAreApproved == Spec => []EveryRoundApproved
<1>1. IInv => EveryRoundApproved
  BY DEF IInv
<1> QED
  BY <1>1, InvariantHolds, PTL

\* critic_node: a batch becomes done only in a round whose tools ran and succeeded.
THEOREM ProgressNeedsSuccess == Spec => DoneOnlyAfterSuccess
<1> DEFINE Marks(i) == /\ node = "critic" /\ mode' = "plan_execute"
                       /\ plan[i] # "done" /\ plan'[i] = "done"
<1>1. ASSUME IInv, [Next]_vars, NEW i \in 1..Len(plan), Marks(i) PROVE roundOk
  <2>1. plan' # plan /\ node = "critic" /\ mode' = "plan_execute"
    BY <1>1
  <2>2. CASE CriticAccepts
    BY <1>1, <2>1, <2>2 DEF CriticAccepts, BatchFinished, IInv, Parts, RoundInv
  <2>3. CASE CriticFindsDefect
    BY <2>1, <2>3 DEF CriticFindsDefect, planVars
  <2>4. CASE Planner \/ ReactStepEnds \/ ReactStep \/ GatePassesThrough \/ GateInterrupts
             \/ ToolExecutor \/ CriticSkips \/ CriticRetriesOrFails \/ Compressor \/ Finisher
    BY <2>1, <2>4 DEF Planner, ReactStepEnds, ReactStep, GatePassesThrough, GateInterrupts,
       ToolExecutor, CriticSkips, CriticRetriesOrFails, Compressor, Finisher, Enter, planVars
  <2>5. CASE Request
    BY <2>1, <2>5 DEF Request, Approve, Reject, Cancel, Stop, Resume, NodeVars, planVars
  <2>6. CASE UNCHANGED vars
    BY <2>1, <2>6 DEF vars, planVars
  <2> QED
    BY <1>1, <2>2, <2>3, <2>4, <2>5, <2>6 DEF Next, Superstep
<1>2. IInv /\ [Next]_vars
        => [\A i \in 1..Len(plan) : Marks(i) => roundOk]_vars
  BY <1>1
<1> QED
  BY <1>2, InvariantHolds, PTL DEF Spec, DoneOnlyAfterSuccess

\* The nodes and edges of _build: a run takes five supersteps for every step it has
\* used and three around them, whatever it goes through.
THEOREM SuperstepsAreBounded ==
    Spec => [](run = "going" /\ node # "END" => supersteps <= 5 * steps + 2)
<1>1. IInv => (run = "going" /\ node # "END" => supersteps <= 5 * steps + 2)
  BY LimitsAreNat DEF IInv, Parts, SuperstepInv, TypeOK, Nodes
<1> QED
  BY <1>1, InvariantHolds, PTL

\* _config: with up to 21 steps the budget ends a task before the recursion limit
\* of four supersteps a step and 24 more does.  (The default is 24 steps.)
THEOREM BudgetEndsFirst ==
    ASSUME MaxSteps <= 21 PROVE Spec => []WithinRecursionLimit
<1>1. IInv => WithinRecursionLimit
  BY LimitsAreNat DEF IInv, Parts, SuperstepInv, TypeOK, Nodes, WithinRecursionLimit,
     RecursionLimit
<1> QED
  BY <1>1, InvariantHolds, PTL
=============================================================================
