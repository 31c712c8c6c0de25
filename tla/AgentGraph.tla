----------------------------- MODULE AgentGraph -----------------------------
(***************************************************************************)
(* The state machine of one task: the nodes and edges that                 *)
(* AgentEngine._build assembles (app/graph/engine.py), the node functions  *)
(* of app/graph/nodes.py and the budget of app/core/budget.py.             *)
(*                                                                         *)
(* One action is one superstep of the graph.  With durability "sync" every *)
(* superstep ends in a checkpoint, so a kill loses the superstep in flight *)
(* and nothing else; the cancel flag can be set between any two supersteps *)
(* (a flag set during one is first looked at in the next).                 *)
(*                                                                         *)
(* A plan is the sequence of its batches (_safe_layers of the steps): no   *)
(* step of a batch is done, some are ("mixed", after a replan) or all are. *)
(* tokens_used saturates at the budget, which is all that check_budget     *)
(* can see.                                                                *)
(* iterations always equals steps_used and is not kept twice.              *)
(***************************************************************************)
EXTENDS Naturals, Sequences, FiniteSets

CONSTANTS
    MaxSteps,        \* max_steps of the task
    MaxTokens,       \* max_tokens of the task
    Costs,           \* tokens a model call may report
    HasCheapModel,   \* settings.llm_model_cheap is set
    DowngradeAfter,  \* settings.adaptive_downgrade_after_replans
    MaxModeSwitches, \* settings.max_mode_switches
    MaxBatches,      \* bound: batches of a plan
    Modes,           \* the modes a task may be submitted with
    Approvals,       \* the values of require_approval a task may be submitted with
    MaxStops         \* bound: kills and raising nodes

ASSUME GraphAssumption ==
    /\ MaxSteps \in Nat \ {0}
    /\ MaxTokens \in Nat \ {0}
    /\ Costs \subseteq Nat
    /\ HasCheapModel \in BOOLEAN
    /\ DowngradeAfter \in Nat
    /\ MaxModeSwitches \in Nat
    /\ MaxBatches \in Nat \ {0}
    /\ Modes \subseteq {"react", "plan_execute"}
    /\ Approvals \subseteq BOOLEAN
    /\ MaxStops \in Nat

VARIABLES
    node,        \* the next node, "END" after the finisher
    run,         \* "going", "paused" on the gate, or "stopped" by a kill
    supersteps,  \* supersteps of the current ainvoke
    canceled,    \* AgentEngine._canceled has this task
    stops,       \* how often a run was stopped
    requireApproval,
    mode, plan, currentStep, streak, switches,
    steps, tokens, downgraded,
    status, errorKind,
    replan,      \* last_error is not empty
    pending,     \* pending_tool_calls is not empty
    obs,         \* last_observations: nothing, all ok, or the class of the failures
    needsFinal, draft,   \* needs_final; final_answer is not empty
    overruns,    \* history: decisions taken with the token budget used up
    roundOk,     \* history: the tools of the current round ran and succeeded
    approved     \* history: the round a human approved last

planVars == <<mode, plan, currentStep, streak, switches>>
budgetVars == <<steps, tokens, downgraded>>
finalVars == <<needsFinal, draft>>
history == <<overruns, roundOk, approved>>
control == <<node, run, supersteps, canceled, stops>>
vars == <<control, requireApproval, planVars, budgetVars, status, errorKind, replan, pending, obs,
          finalVars, history>>

Nodes == {"planner", "react_step", "approval_gate", "tool_executor", "critic",
          "compressor", "finisher", "END"}
Failures == {"plan_defect", "fatal", "retryable"}
Batches == {"pending", "mixed", "done"}

TypeOK ==
    /\ node \in Nodes
    /\ run \in {"going", "paused", "stopped"}
    /\ supersteps \in Nat
    /\ canceled \in BOOLEAN
    /\ stops \in Nat
    /\ requireApproval \in BOOLEAN
    /\ mode \in {"react", "plan_execute"}
    /\ plan \in Seq(Batches)
    /\ currentStep \in Nat
    /\ streak \in Nat
    /\ switches \in Nat
    /\ steps \in 0..MaxSteps
    /\ tokens \in 0..MaxTokens
    /\ downgraded \in BOOLEAN
    /\ status \in {"running", "done", "failed", "canceled", "budget_exceeded"}
    /\ errorKind \in Failures \cup {"none"}
    /\ replan \in BOOLEAN
    /\ pending \in BOOLEAN
    /\ obs \in Failures \cup {"none", "ok"}
    /\ needsFinal \in BOOLEAN
    /\ draft \in BOOLEAN
    /\ overruns \in Nat
    /\ roundOk \in BOOLEAN
    /\ approved \in Nat

\* init_state, and route_entry from START.
Init ==
    /\ requireApproval \in Approvals
    /\ mode \in Modes
    /\ node = IF mode = "plan_execute" THEN "planner" ELSE "react_step"
    /\ run = "going"
    /\ supersteps = 0
    /\ canceled = FALSE
    /\ stops = 0
    /\ plan = <<>>
    /\ currentStep = 0
    /\ streak = 0
    /\ switches = 0
    /\ steps = 0
    /\ tokens = 0
    /\ downgraded = FALSE
    /\ status = "running"
    /\ errorKind = "none"
    /\ replan = FALSE
    /\ pending = FALSE
    /\ obs = "none"
    /\ needsFinal = FALSE
    /\ draft = FALSE
    /\ overruns = 0
    /\ roundOk = FALSE
    /\ approved = 0

-----------------------------------------------------------------------------
(* The engine around the nodes.                                            *)

\* _config
RecursionLimit == MaxSteps * 4 + 24

\* langgraph runs a node only within the limit; otherwise it raises
\* GraphRecursionError.
Enter(n) ==
    /\ run = "going"
    /\ node = n
    /\ supersteps < RecursionLimit
    /\ supersteps' = supersteps + 1
    /\ UNCHANGED <<run, canceled, stops>>

\* Tokens of one model call, saturating.
Spend ==
    \E k \in Costs : tokens' = IF tokens + k > MaxTokens THEN MaxTokens ELSE tokens + k

\* Mutant: a task that is over its steps is not stopped on the token path.
CheckBudgetKeepsGoing ==
    IF steps >= MaxSteps THEN "exceeded"
    ELSE IF tokens >= MaxTokens /\ HasCheapModel THEN "downgrade" ELSE "ok"

CheckBudget ==
    IF steps >= MaxSteps THEN "exceeded"
    ELSE IF tokens < MaxTokens THEN "ok"
    ELSE IF HasCheapModel /\ ~downgraded THEN "downgrade" ELSE "exceeded"

-----------------------------------------------------------------------------
(* Nodes.                                                                  *)

\* Mutant: as many batches are skipped as are done.
FirstPendingCountsDone(p) == Cardinality({i \in 1..Len(p) : p[i] = "done"})

\* The first batch with a pending step (counted from 0), or the number of
\* batches when there is none.
FirstPending(p) ==
    LET open == {i \in 1..Len(p) : p[i] # "done"}
    IN  IF open = {} THEN Len(p) ELSE (CHOOSE i \in open : \A j \in open : i <= j) - 1

HasDoneSteps == \E i \in 1..Len(plan) : plan[i] \in {"mixed", "done"}

\* The batches of the done steps followed by at least one new step.  What a
\* done step depends on is done, so the batches with done steps come first;
\* new steps that name old ones as their dependencies join these batches.
ReplannedBatches ==
    {p \in UNION {[1..n -> Batches] : n \in 1..MaxBatches} :
        /\ \E i \in DOMAIN p : p[i] # "done"
        /\ p[1] = "pending" <=> ~HasDoneSteps
        /\ \A i, j \in DOMAIN p : i < j /\ p[i] = "pending" => p[j] = "pending"}

FreshBatches == UNION {[1..n -> {"pending"}] : n \in 1..MaxBatches}

\* Mutant: switching back to a plan is not limited.
UpgradesAlways == replan /\ mode = "react"

\* A replan in react mode goes back to plan_execute while switches are left.
Upgrades == replan /\ mode = "react" /\ switches < MaxModeSwitches

\* planner_node: no look at the budget or at the cancel flag.
Planner ==
    /\ Enter("planner")
    /\ Spend
    /\ plan' \in IF replan THEN ReplannedBatches ELSE FreshBatches
    /\ currentStep' = FirstPending(plan')
    /\ mode' = IF Upgrades THEN "plan_execute" ELSE mode
    /\ switches' = IF Upgrades THEN switches + 1 ELSE switches
    /\ replan' = FALSE
    /\ errorKind' = "none"
    /\ node' = "react_step"
    /\ UNCHANGED <<streak, steps, downgraded, status, pending, obs, finalVars, history>>

\* route_after_step
RouteAfterStep(st, final) ==
    IF st # "running" \/ final THEN "finisher" ELSE "approval_gate"

AllBatchesDone == mode = "plan_execute" /\ plan # <<>> /\ currentStep >= Len(plan)

\* react_step_node, the three ways it ends without asking the model, ...
ReactStepEnds ==
    /\ Enter("react_step")
    /\ \/ /\ canceled
          /\ status' = "canceled"
          /\ draft' = TRUE
          /\ UNCHANGED <<replan, errorKind>>
       \/ /\ ~canceled
          /\ CheckBudget = "exceeded"
          /\ status' = "budget_exceeded"
          /\ replan' = TRUE
          /\ errorKind' = "none"
          /\ UNCHANGED draft
       \/ /\ ~canceled
          /\ CheckBudget # "exceeded"
          /\ AllBatchesDone
          /\ UNCHANGED <<status, draft, replan, errorKind>>
    /\ needsFinal' = TRUE
    /\ node' = RouteAfterStep(status', TRUE)
    /\ UNCHANGED <<planVars, budgetVars, pending, obs, history>>

\* Mutant: a round with tools is not counted.
CountStepFinalOnly(calls) == IF calls THEN steps ELSE steps + 1

CountStep(calls) == steps + 1

\* ... and the decision of the model: tool calls, or a final text.
ReactStep ==
    /\ Enter("react_step")
    /\ ~canceled
    /\ CheckBudget # "exceeded"
    /\ ~AllBatchesDone
    /\ Spend
    /\ downgraded' = (downgraded \/ CheckBudget = "downgrade")
    /\ overruns' = IF tokens >= MaxTokens THEN overruns + 1 ELSE overruns
    /\ errorKind' = "none"
    /\ \E calls \in BOOLEAN :
         /\ steps' = CountStep(calls)
         /\ pending' = calls
         /\ needsFinal' = (needsFinal \/ ~calls)
         /\ draft' \in IF calls THEN {draft} ELSE BOOLEAN
    /\ node' = RouteAfterStep(status, needsFinal')
    /\ roundOk' = FALSE
    /\ UNCHANGED <<planVars, status, replan, obs, approved>>

\* approval_gate_node without require_approval, ...
GatePassesThrough ==
    /\ ~requireApproval
    /\ Enter("approval_gate")
    /\ node' = "tool_executor"
    /\ UNCHANGED <<planVars, budgetVars, status, errorKind, replan, pending, obs,
                   finalVars, history>>

\* Mutant: one approval opens the gate for good.
GateInterruptsOnce ==
    /\ requireApproval
    /\ run = "going" /\ node = "approval_gate"
    /\ supersteps < RecursionLimit
    /\ IF approved = 0 THEN run' = "paused" /\ UNCHANGED node
                       ELSE node' = "tool_executor" /\ UNCHANGED run
    /\ UNCHANGED <<supersteps, canceled, stops, planVars, budgetVars, status, errorKind,
                   replan, pending, obs, finalVars, history>>

\* ... with it: interrupt() leaves the graph on the gate.
GateInterrupts ==
    /\ requireApproval
    /\ run = "going"
    /\ node = "approval_gate"
    /\ supersteps < RecursionLimit
    /\ run' = "paused"
    /\ UNCHANGED <<node, supersteps, canceled, stops, planVars, budgetVars, status,
                   errorKind, replan, pending, obs, finalVars, history>>

\* /approve: Command(resume=True); the invocation is a new one and its
\* _execute has cleared the cancel flag.
Approve ==
    /\ run = "paused"
    /\ run' = "going"
    /\ node' = "tool_executor"
    /\ supersteps' = 1
    /\ canceled' = FALSE
    /\ approved' = steps
    /\ UNCHANGED <<stops, planVars, budgetVars, status, errorKind, replan, pending, obs,
                   finalVars, overruns, roundOk>>

\* /reject: Command(resume=False); route_after_gate goes to the finisher.
Reject ==
    /\ run = "paused"
    /\ run' = "going"
    /\ node' = "finisher"
    /\ supersteps' = 1
    /\ canceled' = FALSE
    /\ status' = "canceled"
    /\ replan' = TRUE
    /\ pending' = FALSE
    /\ draft' = TRUE
    /\ UNCHANGED <<stops, planVars, budgetVars, errorKind, obs, needsFinal, history>>

\* tool_executor_node: a cancelled task runs no tool; otherwise every pending
\* call is executed and observed.  A round may cost tokens (repaired arguments,
\* sub-agents).  What a mix of failures amounts to is decided by the critic's
\* _classify_failure; here it is already the class.
ToolExecutor ==
    /\ Enter("tool_executor")
    /\ pending' = FALSE
    /\ \/ /\ canceled
          /\ status' = "canceled"
          /\ needsFinal' = TRUE
          /\ draft' = TRUE
          /\ obs' = "none"
          /\ UNCHANGED <<tokens, roundOk>>
       \/ /\ ~canceled
          /\ obs' \in Failures \cup {"ok"}
          /\ roundOk' = (obs' = "ok")
          /\ tokens' = tokens \/ Spend
          /\ UNCHANGED <<status, finalVars>>
    /\ node' = "critic"
    /\ UNCHANGED <<planVars, steps, downgraded, errorKind, replan, overruns, approved>>

\* Mutant: only a failed task goes to the finisher.
RouteAfterCriticFailedOnly(st, kind) ==
    IF st = "failed" THEN "finisher"
    ELSE IF kind = "plan_defect" THEN "planner" ELSE "compressor"

RouteAfterCritic(st, kind) ==
    IF st # "running" THEN "finisher"
    ELSE IF kind = "plan_defect" THEN "planner" ELSE "compressor"

\* critic_node on a task that is already over.
CriticSkips ==
    /\ Enter("critic")
    /\ status # "running"
    /\ node' = RouteAfterCritic(status, errorKind)
    /\ UNCHANGED <<planVars, budgetVars, status, errorKind, replan, pending, obs,
                   finalVars, history>>

\* critic_node, no failure: the whole batch is done.
BatchFinished ==
    plan # <<>> /\ mode = "plan_execute" /\ obs = "ok" /\ currentStep < Len(plan)

\* Mutant: a task that is over, and a round without observations, are judged too.
CriticAcceptsAnything ==
    /\ Enter("critic")
    /\ obs \notin Failures
    /\ plan' = IF mode = "plan_execute" /\ currentStep < Len(plan)
               THEN [plan EXCEPT ![currentStep + 1] = "done"] ELSE plan
    /\ currentStep' = currentStep + 1
    /\ streak' = 0
    /\ errorKind' = "none"
    /\ replan' = FALSE
    /\ node' = RouteAfterCritic(status, "none")
    /\ UNCHANGED <<mode, switches, budgetVars, status, pending, obs, finalVars, history>>

CriticAccepts ==
    /\ Enter("critic")
    /\ status = "running"
    /\ obs \notin Failures
    /\ plan' = IF BatchFinished THEN [plan EXCEPT ![currentStep + 1] = "done"] ELSE plan
    /\ currentStep' = currentStep + 1
    /\ streak' = 0
    /\ errorKind' = "none"
    /\ replan' = FALSE
    /\ node' = RouteAfterCritic(status, "none")
    /\ UNCHANGED <<mode, switches, budgetVars, status, pending, obs, finalVars, history>>

\* critic_node, fatal and retryable failures.
CriticRetriesOrFails ==
    /\ Enter("critic")
    /\ status = "running"
    /\ obs \in {"fatal", "retryable"}
    /\ errorKind' = obs
    /\ replan' = TRUE
    /\ LET over == obs = "fatal" \/ steps >= MaxSteps
       IN  /\ status' = IF over THEN "failed" ELSE status
           /\ needsFinal' = (needsFinal \/ over)
    /\ node' = RouteAfterCritic(status', obs)
    /\ UNCHANGED <<planVars, budgetVars, pending, obs, draft, history>>

\* The switch that giving the plan up would be is still allowed.
MaySwitch == switches + 1 <= MaxModeSwitches

\* critic_node, plan defect: replan, or give the plan up, or give up.  Of the
\* plan that is given up the done steps stay; react mode looks at no batches.
CriticFindsDefect ==
    LET giveUpPlan == /\ mode = "plan_execute"
                      /\ 0 < DowngradeAfter
                      /\ DowngradeAfter <= streak + 1
    IN
    /\ Enter("critic")
    /\ status = "running"
    /\ obs = "plan_defect"
    /\ replan' = TRUE
    /\ \/ /\ ~giveUpPlan
          /\ streak' = streak + 1
          /\ errorKind' = "plan_defect"
          /\ UNCHANGED <<mode, plan, currentStep, switches, status, needsFinal>>
       \/ /\ giveUpPlan /\ MaySwitch
          /\ mode' = "react"
          /\ plan' = IF HasDoneSteps THEN <<"done">> ELSE <<>>
          /\ currentStep' = 0
          /\ streak' = 0
          /\ switches' = switches + 1
          /\ errorKind' = "retryable"
          /\ UNCHANGED <<status, needsFinal>>
       \/ /\ giveUpPlan /\ ~MaySwitch
          /\ status' = "failed"
          /\ needsFinal' = TRUE
          /\ errorKind' = "plan_defect"
          /\ UNCHANGED planVars
    /\ node' = RouteAfterCritic(status', errorKind')
    /\ UNCHANGED <<budgetVars, pending, obs, draft, history>>

\* compressor_node: the summary of the history costs tokens when it is due.
Compressor ==
    /\ Enter("compressor")
    /\ tokens' = tokens \/ Spend
    /\ node' = "react_step"
    /\ UNCHANGED <<planVars, steps, downgraded, status, errorKind, replan, pending, obs,
                   finalVars, history>>

\* finisher_node: a task that is over keeps its status; otherwise it is done,
\* with the draft or with one more model call.
Finisher ==
    /\ Enter("finisher")
    /\ \/ /\ status # "running"
          /\ draft' = TRUE
          /\ UNCHANGED <<status, tokens>>
       \/ /\ status = "running"
          /\ status' = "done"
          /\ \/ /\ needsFinal /\ draft /\ mode # "plan_execute"
                /\ UNCHANGED <<draft, tokens>>
             \/ /\ ~(needsFinal /\ draft /\ mode # "plan_execute")
                /\ draft' \in BOOLEAN
                /\ Spend
    /\ node' = "END"
    /\ UNCHANGED <<planVars, steps, downgraded, errorKind, replan, pending, obs,
                   needsFinal, history>>

-----------------------------------------------------------------------------
(* What comes from outside.                                                *)

NodeVars == <<planVars, budgetVars, status, errorKind, replan, pending, obs,
              finalVars, history>>

\* /cancel on a task in flight
Cancel ==
    /\ run = "going" /\ node # "END"
    /\ ~canceled
    /\ canceled' = TRUE
    /\ UNCHANGED <<node, run, supersteps, stops, NodeVars>>

\* The process is killed, a node raises or the recursion limit is reached:
\* the checkpoint before the node in flight is what is left.
Stop ==
    /\ run = "going" /\ node # "END"
    /\ stops < MaxStops
    /\ run' = "stopped"
    /\ stops' = stops + 1
    /\ UNCHANGED <<node, supersteps, canceled, NodeVars>>

\* /resume: ainvoke(None) from the pending node.
Resume ==
    /\ run = "stopped"
    /\ run' = "going"
    /\ supersteps' = 0
    /\ canceled' = FALSE
    /\ UNCHANGED <<node, stops, NodeVars>>

Superstep ==
    /\ \/ Planner \/ ReactStepEnds \/ ReactStep
       \/ GatePassesThrough \/ GateInterrupts
       \/ ToolExecutor
       \/ CriticSkips \/ CriticAccepts \/ CriticRetriesOrFails \/ CriticFindsDefect
       \/ Compressor \/ Finisher
    /\ UNCHANGED requireApproval

Request ==
    /\ Approve \/ Reject \/ Cancel \/ Stop \/ Resume
    /\ UNCHANGED requireApproval

Next == Superstep \/ Request

Spec == Init /\ [][Next]_vars

\* langgraph runs the next node of a graph that is going; nobody has to
\* approve, cancel, kill or resume.
FairSpec == Spec /\ WF_vars(Superstep)

-----------------------------------------------------------------------------
(* Properties that hold.                                                   *)

\* Plan and react cannot take turns for ever: together the upgrades of the
\* planner and the downgrades of the critic stay within max_mode_switches.
ModeSwitchesBounded == switches <= MaxModeSwitches

\* The token budget may be overrun by one decision, on the cheap model, and
\* by no further one, whatever stops and resumes happen in between.
OneDecisionOverBudget == overruns <= (IF HasCheapModel THEN 1 ELSE 0)

\* The critic marks a batch of the plan done only in a round whose tools ran
\* and succeeded: a cancelled or empty round, and the observations of an
\* earlier round, move nothing forward.
DoneOnlyAfterSuccess ==
    [][\A i \in 1..Len(plan) :
         /\ node = "critic" /\ mode' = "plan_execute"
         /\ plan[i] # "done" /\ plan'[i] = "done"
         => roundOk]_vars

\* In plan_execute mode no batch before current_step has a pending step when a
\* decision is taken, also after replans, downgrades and upgrades: the plan
\* counts as complete (current_step past its end) only when all of it is done.
NothingSkipped ==
    node = "react_step" /\ mode = "plan_execute" =>
        \A i \in 1..Len(plan) : i <= currentStep => plan[i] = "done"

\* With require_approval every round of tools has an approval of its own.
EveryRoundApproved ==
    requireApproval /\ node = "tool_executor" => approved = steps

\* A task that is over only finishes: no planning, no decision, no tool.
OverOnlyFinishes ==
    status # "running" => node \in {"critic", "finisher", "END"}

\* A task comes to rest, at its end, at the gate or stopped: no sequence of
\* approvals, failures, replans and resumes keeps it going for ever.
TaskComesToRest == <>[](run # "going" \/ node = "END")
=============================================================================
