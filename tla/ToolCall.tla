------------------------------ MODULE ToolCall ------------------------------
(***************************************************************************)
(* One tool call: _execute_call, _repair_args and _retry_transient of      *)
(* app/graph/nodes.py, the registry's execute (app/tools/registry.py), the *)
(* error codes (app/core/errors.py), what is worth a retry                 *)
(* (app/core/retry.py), and the class the critic gives the observation.    *)
(*                                                                         *)
(* A repair of the arguments costs a model call and may run the handler; a *)
(* transient error repeats the handler after a pause.  A cancel may arrive *)
(* at every await.  Delays are left out except for whether there is one.   *)
(***************************************************************************)
EXTENDS Naturals

CONSTANTS
    MaxSelfheal,  \* settings.max_selfheal_retries
    MaxRetries    \* settings.retry_max_attempts

ASSUME CallAssumption == MaxSelfheal \in Nat /\ MaxRetries \in Nat

VARIABLES
    call,        \* what was asked for: tool and arguments
    pc,
    phase,       \* which of the three execute() calls the handler runs for
    attempts,    \* repairs so far
    tries,       \* retries so far
    err,         \* the last ToolExecutionError
    canceled,
    obs,         \* the observation that is returned
    runs,        \* history: how often the handler was started
    late         \* history: how often after the cancel

vars == <<call, pc, phase, attempts, tries, err, canceled, obs, runs, late>>

Codes == {"timeout", "network", "rate_limited", "upstream_5xx", "upstream_4xx",
          "auth", "permission", "not_found", "invalid_args", "unknown"}
RetryableCodes == {"timeout", "network", "rate_limited", "upstream_5xx"}
PlanDefectCodes == {"invalid_args", "not_found"}
FatalCodes == {"permission", "auth"}

\* A ToolExecutionError: its code if it has one, whether it says retryable=False
\* (nothing ever says True), and what its text contains.
Texts == {"transient", "forbidden", "unknown_tool", "other"}
Errors == [code: Codes \cup {"none"}, vetoed: BOOLEAN,
           text: {"transient", "forbidden", "other"}]
NoError == [code |-> "none", vetoed |-> FALSE, text |-> "other"]
UnknownTool == [code |-> "not_found", vetoed |-> FALSE, text |-> "unknown_tool"]

CallKinds == [badJson: BOOLEAN, known: BOOLEAN, valid: BOOLEAN, retry: BOOLEAN]
Observation == [type: {"none", "ok", "runtime", "validation"},
                code: Codes \cup {"none"}, text: Texts]
NoObs == [type |-> "none", code |-> "none", text |-> "other"]

TypeOK ==
    /\ call \in CallKinds
    /\ pc \in {"first", "running", "healing", "retrying", "announced", "sleeping", "ended"}
    /\ phase \in {"first", "healed", "retry"}
    /\ attempts \in 0..MaxSelfheal
    /\ tries \in 0..MaxRetries
    /\ err \in Errors \cup {UnknownTool}
    /\ canceled \in BOOLEAN
    /\ obs \in Observation
    /\ runs \in Nat
    /\ late \in Nat

Init ==
    /\ call \in CallKinds
    /\ pc = "first"
    /\ phase = "first"
    /\ attempts = 0
    /\ tries = 0
    /\ err = NoError
    /\ canceled = FALSE
    /\ obs = NoObs
    /\ runs = 0
    /\ late = 0

-----------------------------------------------------------------------------

\* is_transient_error: an explicit retryable, then the code, then the text.
IsTransient(e) ==
    /\ ~e.vetoed
    /\ IF e.code \in Codes \ {"unknown"} THEN e.code \in RetryableCodes
                                         ELSE e.text = "transient"

\* _classify_failure for a round with this observation only.
Classify(o) ==
    CASE o.code \in PlanDefectCodes -> "plan_defect"
      [] o.code \in FatalCodes -> "fatal"
      [] o.code \in Codes \ (PlanDefectCodes \cup FatalCodes) -> "retryable"
      [] o.code = "none" ->
           IF o.text = "unknown_tool" \/ o.type = "validation" THEN "plan_defect"
           ELSE IF o.text = "forbidden" THEN "fatal" ELSE "retryable"

EndsWith(o) == pc' = "ended" /\ obs' = o

RuntimeError(e) == [type |-> "runtime", code |-> e.code, text |-> e.text]
InvalidArgs == [type |-> "validation", code |-> "invalid_args", text |-> "other"]

\* registry.execute got past the validation: the handler runs.
StartHandler(ph) ==
    /\ pc' = "running"
    /\ phase' = ph
    /\ runs' = runs + 1
    /\ late' = IF canceled THEN late + 1 ELSE late
    /\ UNCHANGED obs

\* Mutant: every tool is retried.
MayRetryAnyTool(e) == IsTransient(e)

\* The gates before the loop of _retry_transient.
MayRetry(e) == IsTransient(e) /\ call.known /\ call.retry

EnterRetry(e) ==
    /\ err' = e
    /\ \/ /\ MayRetry(e)
          /\ pc' = "retrying"
          /\ UNCHANGED obs
       \/ /\ ~MayRetry(e)
          /\ EndsWith(RuntimeError(e))

\* The first execute: unreadable arguments and arguments that fail the schema
\* go to the repair loop, an unknown tool is a runtime error.
FirstExecute ==
    /\ pc = "first"
    /\ \/ /\ call.badJson \/ (call.known /\ ~call.valid)
          /\ pc' = "healing"
          /\ UNCHANGED <<phase, err, obs, runs, late>>
       \/ /\ ~call.badJson /\ ~call.known
          /\ EnterRetry(UnknownTool)
          /\ UNCHANGED <<phase, runs, late>>
       \/ /\ ~call.badJson /\ call.known /\ call.valid
          /\ StartHandler("first")
          /\ UNCHANGED err
    /\ UNCHANGED <<call, attempts, tries, canceled>>

HandlerReturns ==
    /\ pc = "running"
    /\ EndsWith([type |-> "ok", code |-> "none", text |-> "other"])
    /\ UNCHANGED <<call, phase, attempts, tries, err, canceled, runs, late>>

\* Mutant: an error of the handler after a repair is one more reason to repair.
HandlerFailsHealsOn ==
    /\ pc = "running"
    /\ \E e \in Errors :
         \/ /\ phase = "first"
            /\ EnterRetry(e)
         \/ /\ phase = "healed"
            /\ err' = e
            /\ pc' = "healing"
            /\ UNCHANGED obs
         \/ /\ phase = "retry"
            /\ err' = e
            /\ pc' = "retrying"
            /\ UNCHANGED obs
    /\ UNCHANGED <<call, phase, attempts, tries, canceled, runs, late>>

\* The handler times out or raises; after a repair that ends the repairing.
HandlerFails ==
    /\ pc = "running"
    /\ \E e \in Errors :
         \/ /\ phase \in {"first", "healed"}
            /\ EnterRetry(e)
         \/ /\ phase = "retry"
            /\ err' = e
            /\ pc' = "retrying"
            /\ UNCHANGED obs
    /\ UNCHANGED <<call, phase, attempts, tries, canceled, runs, late>>

\* One turn of the repair loop in which the model's answer is no object or
\* fails the schema.
RepairFails ==
    /\ pc = "healing"
    /\ attempts < MaxSelfheal
    /\ call.known
    /\ attempts' = attempts + 1
    /\ UNCHANGED <<call, pc, phase, tries, err, canceled, obs, runs, late>>

\* ... in which it is a repair: it has passed the schema, so execute gets to
\* the handler.
RepairSucceeds ==
    /\ pc = "healing"
    /\ attempts < MaxSelfheal
    /\ call.known
    /\ attempts' = attempts + 1
    /\ StartHandler("healed")
    /\ UNCHANGED <<call, tries, err, canceled>>

\* ... in which _repair_args raises, because the tool is unknown or the model
\* endpoint fails; tool_executor_node makes an observation without code of it.
RepairRaises ==
    /\ pc = "healing"
    /\ attempts < MaxSelfheal
    /\ attempts' = attempts + 1
    /\ EndsWith([type |-> "runtime", code |-> "none",
                 text |-> IF call.known THEN "other" ELSE "unknown_tool"])
    /\ UNCHANGED <<call, phase, tries, err, canceled, runs, late>>

RepairExhausted ==
    /\ pc = "healing"
    /\ attempts = MaxSelfheal
    /\ EndsWith(InvalidArgs)
    /\ UNCHANGED <<call, phase, attempts, tries, err, canceled, runs, late>>

\* Mutant: the loop does not look at the flag.
RetryGoesOnRegardless == IsTransient(err) /\ tries < MaxRetries

RetryGoesOn == IsTransient(err) /\ ~canceled /\ tries < MaxRetries

\* The loop of _retry_transient: the error is no longer transient, the task is
\* cancelled, or the attempts are used up; otherwise the retry is announced.
RetryLoop ==
    /\ pc = "retrying"
    /\ \/ /\ ~RetryGoesOn
          /\ EndsWith(RuntimeError(err))
          /\ UNCHANGED tries
       \/ /\ RetryGoesOn
          /\ tries' = tries + 1
          /\ pc' = "announced"
          /\ UNCHANGED obs
    /\ UNCHANGED <<call, phase, attempts, err, canceled, runs, late>>

\* _cancellable_sleep looks at the flag before every slice; a Retry-After of 0
\* means no slice.
BeginSleep ==
    /\ pc = "announced"
    /\ \/ /\ StartHandler("retry")
       \/ /\ canceled
          /\ EndsWith(RuntimeError(err))
          /\ UNCHANGED <<phase, runs, late>>
       \/ /\ ~canceled
          /\ pc' = "sleeping"
          /\ UNCHANGED <<phase, obs, runs, late>>
    /\ UNCHANGED <<call, attempts, tries, err, canceled>>

\* Mutant: the pause a server asks for has no end, only the cancel ends it.
EndSleepUncapped ==
    /\ pc = "sleeping"
    /\ canceled
    /\ EndsWith(RuntimeError(err))
    /\ UNCHANGED <<call, phase, attempts, tries, err, canceled, runs, late>>

\* The next slice sees the flag, or this was the last slice.
EndSleep ==
    /\ pc = "sleeping"
    /\ \/ /\ canceled
          /\ EndsWith(RuntimeError(err))
          /\ UNCHANGED <<phase, runs, late>>
       \/ StartHandler("retry")
    /\ UNCHANGED <<call, attempts, tries, err, canceled>>

\* engine.cancel
Cancel ==
    /\ pc # "ended"
    /\ ~canceled
    /\ canceled' = TRUE
    /\ UNCHANGED <<call, pc, phase, attempts, tries, err, obs, runs, late>>

CallStep ==
    \/ FirstExecute \/ HandlerReturns \/ HandlerFails
    \/ RepairFails \/ RepairSucceeds \/ RepairRaises \/ RepairExhausted
    \/ RetryLoop \/ BeginSleep \/ EndSleep

Next == CallStep \/ Cancel

Spec == Init /\ [][Next]_vars

\* Handlers run under wait_for, model calls have timeouts, sleeps are capped.
FairSpec == Spec /\ WF_vars(CallStep)

-----------------------------------------------------------------------------

\* A tool that does not declare retry_transient is run at most once per call,
\* and any tool at most once more than retry_max_attempts, however repairs and
\* retries follow each other: a timeout is no proof that nothing happened.
HandlerRunsBounded ==
    runs <= (IF call.retry THEN 1 + MaxRetries ELSE 1)

\* A call whose last error is a permission or credentials error ends as fatal,
\* also when it came after a repair or after retries: no replanning for it.
FatalStaysFatal ==
    pc = "ended" /\ err.code \in FatalCodes => Classify(obs) = "fatal"

\* After the cancel the handler is started at most once more: by the call or the
\* repair that was under way, or by the retry whose pause had begun its last slice.
AtMostOneLateRun == late <= 1

\* Every call ends.
CallEnds == <>(pc = "ended")

-----------------------------------------------------------------------------
(* What the docstring of _cancellable_sleep says, and the code does not do.  *)

\* A cancel that arrives during the pause ends the call: the handler is not
\* started again.  (After the last slice, which for the default first backoff is
\* the only one, the flag is not looked at.)
CancelEndsThePause == [][pc = "sleeping" /\ canceled => runs' = runs]_vars
=============================================================================
