--------------------------- MODULE ToolCallProofs ---------------------------
(***************************************************************************)
(* Proofs about ToolCall, for any number of repairs and retries.           *)
(*                                                                         *)
(* runs and late are counted by the steps that start the handler; the      *)
(* invariants below tie them to where the call is:                         *)
(*  - RunsInv: up to the first start nothing has run and nothing was       *)
(*    retried; afterwards every further run was paid for by a retry, and   *)
(*    only a tool that declares retry_transient gets that far;             *)
(*  - LateInv: a handler that was started after the cancel is the last     *)
(*    one, because the loop looks at the flag before it goes on;           *)
(*  - ErrorInv: the handler only runs again after an error that is not     *)
(*    fatal, so a call that ends after a fatal one ends with it.           *)
(*                                                                         *)
(* The second part is about WebSearch, the handler whose calls share       *)
(* state, for any calls, modes, cooldowns and intervals.  SearchInv:       *)
(*  - Timers: a source that must be left alone is cooling down at least as *)
(*    long, and what is left of the interval is what _gate will wait;      *)
(*  - GoodCall: an automatic search has failed at a prefix of its sources  *)
(*    and has the rest of them before it;                                  *)
(*  - AtGate: who sleeps at a gate sleeps long enough, or was there when   *)
(*    the source failed or another call overtook it.                       *)
(***************************************************************************)
EXTENDS ToolCall, WebSearch, TLAPS

RunsInv ==
    /\ pc \in {"first", "healing"} => runs = 0 /\ tries = 0
    /\ pc = "running" /\ phase \in {"first", "healed"} => runs = 1 /\ tries = 0
    /\ pc = "running" /\ phase = "retry" => runs = 1 + tries /\ call.retry
    /\ pc = "retrying" => runs = 1 + tries /\ call.retry
    /\ pc \in {"announced", "sleeping"} => runs = tries /\ call.retry
    /\ pc = "ended" => HandlerRunsBounded

\* Where the call may still start the handler it has not done so after the cancel.
LateInv ==
    /\ ~canceled => late = 0
    /\ pc \in {"first", "healing", "announced", "sleeping"} => late = 0
    /\ late <= 1

\* Before its first error a call has none; what ends it with one is that error.
ErrorInv ==
    /\ pc \in {"first", "healing"} => err = NoError
    /\ pc = "running" /\ phase \in {"first", "healed"} => err = NoError
    /\ pc \in {"announced", "sleeping"} => err.code \notin FatalCodes
    /\ pc = "running" => err.code \notin FatalCodes
    /\ pc = "ended" /\ err.code \in FatalCodes => obs = RuntimeError(err)

IInv == TypeOK /\ RunsInv /\ LateInv /\ ErrorInv

-----------------------------------------------------------------------------
(* What the operators do.                                                  *)

\* The limits are numbers.
LEMMA LimitsAreNat == MaxSelfheal \in Nat /\ MaxRetries \in Nat
  BY CallAssumption DEF CallAssumption

\* is_transient_error: a permission or credentials error is never transient.
LEMMA FatalNotTransient ==
    ASSUME NEW e, IsTransient(e) PROVE e.code \notin FatalCodes
  BY DEF IsTransient, FatalCodes, Codes, RetryableCodes

\* _classify_failure: it is fatal in the observation of a runtime error.
LEMMA FatalIsClassified ==
    ASSUME NEW e, e.code \in FatalCodes PROVE Classify(RuntimeError(e)) = "fatal"
  BY DEF Classify, RuntimeError, FatalCodes, PlanDefectCodes, Codes

\* What execute makes of an error is an observation, and the errors have types.
LEMMA ErrorsAreTyped ==
    /\ NoError \in Errors
    /\ \A e \in Errors \cup {UnknownTool} : RuntimeError(e) \in Observation
    /\ InvalidArgs \in Observation
    /\ \A x \in {"none", "ok", "runtime"}, y \in {"other", "unknown_tool"} :
          [type |-> x, code |-> "none", text |-> y] \in Observation
  BY DEF NoError, Errors, UnknownTool, RuntimeError, InvalidArgs, Observation, Codes, Texts

-----------------------------------------------------------------------------
(* The invariant.                                                          *)

\* The initial states satisfy it.
LEMMA InvInit == Init => IInv
<1> SUFFICES ASSUME Init PROVE IInv
  OBVIOUS
<1>1. TypeOK
  <2>1. NoObs \in Observation /\ 0 \in 0..MaxSelfheal /\ 0 \in 0..MaxRetries
    BY LimitsAreNat DEF NoObs, Observation, Codes, Texts
  <2> QED
    BY <2>1, ErrorsAreTyped DEF Init, TypeOK
<1>2. RunsInv /\ LateInv /\ ErrorInv
  BY DEF Init, RunsInv, LateInv, ErrorInv
<1> QED
  BY <1>1, <1>2 DEF IInv

\* EnterRetry: after the first run of the handler, or for a tool nobody knows,
\* the call ends with the error or goes to the retry loop.
LEMMA EnterRetryEnds ==
    ASSUME NEW e \in Errors \cup {UnknownTool}, EnterRetry(e)
    PROVE  /\ err' = e
           /\ \/ pc' = "retrying" /\ call.retry /\ call.known /\ obs' = obs
              \/ pc' = "ended" /\ obs' = RuntimeError(e)
  BY DEF EnterRetry, MayRetry, EndsWith

\* Every step keeps the types.
LEMMA TypeStep == TypeOK /\ [Next]_vars => TypeOK'
<1> SUFFICES ASSUME TypeOK, [Next]_vars PROVE TypeOK'
  OBVIOUS
<1> USE LimitsAreNat, ErrorsAreTyped
<1>1. CASE FirstExecute
  BY <1>1, EnterRetryEnds DEF FirstExecute, StartHandler, TypeOK
<1>2. CASE HandlerReturns
  BY <1>2 DEF HandlerReturns, EndsWith, TypeOK
<1>3. CASE HandlerFails
  BY <1>3, EnterRetryEnds DEF HandlerFails, TypeOK
<1>4. CASE RepairFails
  BY <1>4 DEF RepairFails, TypeOK
<1>5. CASE RepairSucceeds
  BY <1>5 DEF RepairSucceeds, StartHandler, TypeOK
<1>6. CASE RepairRaises
  BY <1>6 DEF RepairRaises, EndsWith, TypeOK
<1>7. CASE RepairExhausted
  BY <1>7 DEF RepairExhausted, EndsWith, TypeOK
<1>8. CASE RetryLoop
  BY <1>8 DEF RetryLoop, RetryGoesOn, EndsWith, TypeOK
<1>9. CASE BeginSleep
  BY <1>9 DEF BeginSleep, StartHandler, EndsWith, TypeOK
<1>10. CASE EndSleep
  BY <1>10 DEF EndSleep, StartHandler, EndsWith, TypeOK
<1>11. CASE Cancel
  BY <1>11 DEF Cancel, TypeOK
<1>12. CASE UNCHANGED vars
  BY <1>12 DEF vars, TypeOK
<1> QED
  BY <1>1, <1>2, <1>3, <1>4, <1>5, <1>6, <1>7, <1>8, <1>9, <1>10, <1>11, <1>12
  DEF Next, CallStep

\* Every step keeps the count of the runs.
LEMMA RunsStep == TypeOK /\ RunsInv /\ [Next]_vars => RunsInv'
<1> SUFFICES ASSUME TypeOK, RunsInv, [Next]_vars PROVE RunsInv'
  OBVIOUS
<1> USE LimitsAreNat DEF RunsInv, HandlerRunsBounded
<1>1. CASE FirstExecute
  <2>1. UnknownTool \in Errors \cup {UnknownTool} /\ runs = 0 /\ tries = 0 /\ pc = "first"
    BY <1>1 DEF FirstExecute
  <2> QED
    BY <1>1, <2>1, EnterRetryEnds DEF FirstExecute, StartHandler, TypeOK
<1>2. CASE HandlerReturns
  BY <1>2 DEF HandlerReturns, EndsWith, TypeOK
<1>3. CASE HandlerFails
  BY <1>3, EnterRetryEnds DEF HandlerFails, TypeOK
<1>4. CASE RepairFails
  BY <1>4 DEF RepairFails
<1>5. CASE RepairSucceeds
  BY <1>5 DEF RepairSucceeds, StartHandler
<1>6. CASE RepairRaises
  BY <1>6 DEF RepairRaises, EndsWith
<1>7. CASE RepairExhausted
  BY <1>7 DEF RepairExhausted, EndsWith
<1>8. CASE RetryLoop
  BY <1>8 DEF RetryLoop, RetryGoesOn, EndsWith, TypeOK
<1>9. CASE BeginSleep
  BY <1>9 DEF BeginSleep, StartHandler, EndsWith, TypeOK
<1>10. CASE EndSleep
  BY <1>10 DEF EndSleep, StartHandler, EndsWith, TypeOK
<1>11. CASE Cancel
  BY <1>11 DEF Cancel
<1>12. CASE UNCHANGED vars
  BY <1>12 DEF vars
<1> QED
  BY <1>1, <1>2, <1>3, <1>4, <1>5, <1>6, <1>7, <1>8, <1>9, <1>10, <1>11, <1>12
  DEF Next, CallStep

\* Every step keeps the count of the late runs.
LEMMA LateStep == TypeOK /\ LateInv /\ [Next]_vars => LateInv'
<1> SUFFICES ASSUME TypeOK, LateInv, [Next]_vars PROVE LateInv'
  OBVIOUS
<1> USE DEF LateInv, TypeOK
<1>1. CASE FirstExecute
  <2>1. UnknownTool \in Errors \cup {UnknownTool} /\ late = 0 /\ pc = "first"
    BY <1>1 DEF FirstExecute
  <2> QED
    BY <1>1, <2>1, EnterRetryEnds DEF FirstExecute, StartHandler
<1>2. CASE HandlerReturns
  BY <1>2 DEF HandlerReturns, EndsWith
<1>3. CASE HandlerFails
  BY <1>3, EnterRetryEnds DEF HandlerFails
<1>4. CASE RepairFails
  BY <1>4 DEF RepairFails
<1>5. CASE RepairSucceeds
  BY <1>5 DEF RepairSucceeds, StartHandler
<1>6. CASE RepairRaises
  BY <1>6 DEF RepairRaises, EndsWith
<1>7. CASE RepairExhausted
  BY <1>7 DEF RepairExhausted, EndsWith
<1>8. CASE RetryLoop
  BY <1>8 DEF RetryLoop, RetryGoesOn, EndsWith
<1>9. CASE BeginSleep
  BY <1>9 DEF BeginSleep, StartHandler, EndsWith
<1>10. CASE EndSleep
  BY <1>10 DEF EndSleep, StartHandler, EndsWith
<1>11. CASE Cancel
  BY <1>11 DEF Cancel
<1>12. CASE UNCHANGED vars
  BY <1>12 DEF vars
<1> QED
  BY <1>1, <1>2, <1>3, <1>4, <1>5, <1>6, <1>7, <1>8, <1>9, <1>10, <1>11, <1>12
  DEF Next, CallStep

\* Every step keeps track of the last error.
LEMMA ErrorStep == TypeOK /\ ErrorInv /\ [Next]_vars => ErrorInv'
<1> SUFFICES ASSUME TypeOK, ErrorInv, [Next]_vars PROVE ErrorInv'
  OBVIOUS
<1>0. NoError.code \notin FatalCodes
  BY DEF NoError, FatalCodes
<1> USE <1>0 DEF ErrorInv
<1>1. CASE FirstExecute
  <2>1. UnknownTool \in Errors \cup {UnknownTool} /\ err = NoError /\ pc = "first"
    BY <1>1 DEF FirstExecute
  <2> QED
    BY <1>1, <2>1, EnterRetryEnds DEF FirstExecute, StartHandler
<1>2. CASE HandlerReturns
  BY <1>2 DEF HandlerReturns, EndsWith
<1>3. CASE HandlerFails
  BY <1>3, EnterRetryEnds DEF HandlerFails
<1>4. CASE RepairFails
  BY <1>4 DEF RepairFails
<1>5. CASE RepairSucceeds
  BY <1>5 DEF RepairSucceeds, StartHandler
<1>6. CASE RepairRaises
  BY <1>6 DEF RepairRaises, EndsWith
<1>7. CASE RepairExhausted
  BY <1>7 DEF RepairExhausted, EndsWith
<1>8. CASE RetryLoop
  BY <1>8, FatalNotTransient DEF RetryLoop, RetryGoesOn, EndsWith, TypeOK
<1>9. CASE BeginSleep
  BY <1>9 DEF BeginSleep, StartHandler, EndsWith
<1>10. CASE EndSleep
  BY <1>10 DEF EndSleep, StartHandler, EndsWith
<1>11. CASE Cancel
  BY <1>11 DEF Cancel
<1>12. CASE UNCHANGED vars
  BY <1>12 DEF vars
<1> QED
  BY <1>1, <1>2, <1>3, <1>4, <1>5, <1>6, <1>7, <1>8, <1>9, <1>10, <1>11, <1>12
  DEF Next, CallStep

\* The conjunction is an invariant.
LEMMA InvariantHolds == Spec => []IInv
<1>1. IInv /\ [Next]_vars => IInv'
  BY TypeStep, RunsStep, LateStep, ErrorStep DEF IInv
<1> QED
  BY InvInit, <1>1, PTL DEF Spec

-----------------------------------------------------------------------------
(* The theorems.                                                           *)

\* _execute_call and _retry_transient: a tool that does not declare
\* retry_transient runs at most once per call, any other at most once more than
\* retry_max_attempts, however repairs and retries follow each other.
THEOREM RunsAreBounded == Spec => []HandlerRunsBounded
<1>1. IInv => HandlerRunsBounded
  BY LimitsAreNat DEF IInv, TypeOK, RunsInv, HandlerRunsBounded
<1> QED
  BY <1>1, InvariantHolds, PTL

\* _execute_call: a call whose last error is a permission or credentials error is
\* classified as fatal, also after repairs and retries.
THEOREM FatalIsKept == Spec => []FatalStaysFatal
<1>1. IInv => FatalStaysFatal
  BY FatalIsClassified DEF IInv, ErrorInv, FatalStaysFatal
<1> QED
  BY <1>1, InvariantHolds, PTL

\* _cancellable_sleep and the loop around it: at most one run of the handler
\* starts after the cancel.
THEOREM CancelIsObeyed == Spec => []AtMostOneLateRun
<1>1. IInv => AtMostOneLateRun
  BY DEF IInv, LateInv, AtMostOneLateRun
<1> QED
  BY <1>1, InvariantHolds, PTL

-----------------------------------------------------------------------------
(* web_search: the handler whose calls share the gate of each source.      *)

Busy == {"try", "sleep", "flight"}
Named == Sources \cup {"mock"}
SearchCall ==
    [pc : Busy \cup {"idle", "backoff", "answered", "failed"}, mode : Named \cup {"auto"},
     todo : Seq(Named), tries : Nat, wait : Nat, failed : Seq(Named),
     caught : BOOLEAN, overtaken : BOOLEAN]

\* An automatic search has asked a prefix of its sources and has the others before it.
InTurn(r) ==
    /\ Len(r.failed) + Len(r.todo) = Len(AutoPlan)
    /\ \A i \in 1..Len(r.failed) : r.failed[i] = AutoPlan[i]
    /\ \A i \in 1..Len(r.todo) : r.todo[i] = AutoPlan[Len(r.failed) + i]

GoodCall(r) ==
    /\ r \in SearchCall
    /\ r.pc \in Busy \cup {"backoff"} => r.mode # "mock" /\ Plan(r.mode) # <<>>
    /\ r.pc \in Busy => /\ r.todo \in Seq(Sources) /\ r.todo # <<>>
                        /\ r.mode = "auto" => InTurn(r)
    /\ r.pc = "backoff" => r.failed = <<>>
    /\ r.pc = "failed" /\ r.mode = "auto" /\ r.failed # <<>> => r.failed = AutoPlan

\* Who sleeps at the gate of a source that must be left alone was caught there, and
\* who was not overtaken sleeps until the interval is over.
AtGate(c) ==
    search[c].pc = "sleep" =>
        /\ quiet[Head(search[c].todo)] > 0 => search[c].caught
        /\ ~search[c].overtaken => fresh[Head(search[c].todo)] <= search[c].wait

Timers ==
    /\ cool \in [Sources -> Nat] /\ rest \in [Sources -> Nat]
    /\ quiet \in [Sources -> Nat] /\ fresh \in [Sources -> Nat]
    /\ \A s \in Sources : quiet[s] <= cool[s]
    /\ fresh = rest

SearchInv ==
    /\ Timers
    /\ DOMAIN search = Calls
    /\ \A c \in Calls : GoodCall(search[c]) /\ AtGate(c)

\* The constants are numbers, and the long cooldown is the longer one.
LEMMA SearchConstants ==
    /\ Modes \subseteq Named \cup {"auto"} /\ BochaKey \in BOOLEAN
           /\ Cooldown \in Nat /\ NetCooldown \in Nat /\ MinInterval \in Nat
           /\ MaxSearchRetries \in Nat /\ NetCooldown <= Cooldown
  BY SearchAssumption DEF SearchAssumption, Named

\* What has a length has an element.
LEMMA LongIsNotEmpty ==
    ASSUME NEW X, NEW s \in Seq(X), Len(s) > 0
    PROVE  s # <<>>
  OBVIOUS

\* Head and tail of a sequence.
LEMMA TailOf ==
    ASSUME NEW X, NEW s \in Seq(X), s # <<>>
    PROVE  /\ Len(s) \in Nat /\ Len(s) >= 1
           /\ Head(s) \in X /\ Head(s) = s[1]
           /\ Tail(s) \in Seq(X) /\ Len(Tail(s)) = Len(s) - 1
           /\ \A i \in 1..Len(Tail(s)) : Tail(s)[i] = s[i + 1]
  OBVIOUS

\* _AUTO_ORDER with or without its first source.
LEMMA AutoPlanIsSeq ==
    /\ AutoPlan \in Seq(Sources) /\ AutoPlan # <<>>
    /\ AutoPlan \in Seq(Named)
<1>1. AutoOrder \in Seq(Sources) /\ Len(AutoOrder) = 4
  BY DEF AutoOrder, Sources
<1>3. Tail(AutoOrder) \in Seq(Sources) /\ Len(Tail(AutoOrder)) = 3
  BY <1>1, LongIsNotEmpty, TailOf
<1>4. AutoPlan \in Seq(Sources) /\ Len(AutoPlan) > 0
  <2>1. AutoPlan = AutoOrder \/ AutoPlan = Tail(AutoOrder)
    BY DEF AutoPlan
  <2>2. AutoPlan \in Seq(Sources) /\ Len(AutoPlan) \in {3, 4}
    <3> HIDE DEF AutoPlan
    <3> QED
      BY <1>1, <1>3, <2>1, Zenon
  <2> QED
    BY <2>2
<1>2. AutoPlan # <<>>
  BY <1>4, LongIsNotEmpty
<1>5. Seq(Sources) \subseteq Seq(Named)
  BY DEF Named
<1> QED
  BY <1>2, <1>4, <1>5

\* What the handler goes through.
LEMMA PlanIsSeq ==
    ASSUME NEW m \in Named \cup {"auto"}
    PROVE  Plan(m) \in Seq(Named)
<1>1. CASE m = "auto"
  BY <1>1, AutoPlanIsSeq DEF Plan
<1>2. CASE m # "auto" /\ Configured(m)
  BY <1>2 DEF Plan
<1>3. CASE m # "auto" /\ ~Configured(m)
  BY <1>3 DEF Plan
<1> QED
  BY <1>1, <1>2, <1>3

\* A search that begins, or begins again, has all its sources before it.
LEMMA PlanIsGood ==
    ASSUME NEW r \in SearchCall, r.failed = <<>>,
           r.todo = Plan(r.mode), r.pc = "try", r.todo # <<>>, r.mode # "mock"
    PROVE  GoodCall(r)
<1>1. CASE r.mode = "auto"
  <2>1. r.todo = AutoPlan
    BY <1>1 DEF Plan
  <2>2. Len(r.failed) = 0 /\ Len(r.todo) \in Nat
    BY <2>1, AutoPlanIsSeq
  <2>3. InTurn(r)
    BY <2>1, <2>2 DEF InTurn
  <2> QED
    BY <2>1, <2>3, AutoPlanIsSeq DEF GoodCall
<1>2. CASE r.mode # "auto"
  <2>1. r.mode \in Sources
    BY <1>2 DEF SearchCall, Named
  <2>2. r.todo \in Seq(Sources)
    BY <1>2, <2>1 DEF Plan
  <2> QED
    BY <1>2, <2>2 DEF GoodCall
<1> QED
  BY <1>1, <1>2

\* What the executor makes of an exception is again a good call, and not at the gate.
LEMMA AttemptedIsGood ==
    ASSUME NEW r \in SearchCall, NEW retryable \in BOOLEAN,
           r.mode # "mock", Plan(r.mode) # <<>>,
           r.mode = "auto" /\ r.failed # <<>> => ~retryable /\ r.failed = AutoPlan
    PROVE  /\ GoodCall(Attempted(r, retryable))
           /\ Attempted(r, retryable).pc \in {"backoff", "failed"}
<1> DEFINE again == [Idle EXCEPT !.pc = "backoff", !.mode = r.mode, !.tries = r.tries + 1]
           over == [r EXCEPT !.pc = "failed", !.wait = 0, !.todo = <<>>,
                             !.caught = FALSE, !.overtaken = FALSE]
<1>0. /\ r.mode \in Named \cup {"auto"} /\ r.tries \in Nat /\ r.failed \in Seq(Named)
      /\ <<>> \in Seq(Named)
  BY DEF SearchCall
<1>1. /\ again \in SearchCall /\ again.pc = "backoff" /\ again.mode = r.mode
      /\ again.failed = <<>>
  <2>1. Idle \in SearchCall /\ Idle.failed = <<>>
    BY <1>0 DEF Idle, SearchCall
  <2> DEFINE e == Idle
             k == r.tries + 1
             m == r.mode
  <2>2. k \in Nat /\ m \in Named \cup {"auto"} /\ e \in SearchCall /\ e.failed = <<>>
    BY <1>0, <2>1
  <2>3. again = [e EXCEPT !.pc = "backoff", !.mode = m, !.tries = k]
    OBVIOUS
  <2> HIDE DEF e, k, m, again
  <2>4. again \in SearchCall /\ again.pc = "backoff" /\ again.mode = m /\ again.failed = <<>>
    BY <2>2, <2>3 DEF SearchCall
  <2> QED
    BY <2>4 DEF m
<1>2. over \in SearchCall /\ over.pc = "failed" /\ over.mode = r.mode /\ over.failed = r.failed
  BY <1>0 DEF SearchCall
<1>3. Attempted(r, retryable) \in {again, over}
  BY DEF Attempted
<1> HIDE DEF again, over
<1> QED
  BY <1>1, <1>2, <1>3 DEF GoodCall, Busy

\* _search_auto goes on to the next source, or the exception goes to the executor.
LEMMA SourceFailedIsGood ==
    ASSUME NEW r, GoodCall(r), r.pc \in Busy,
           NEW retryable \in BOOLEAN
    PROVE  /\ GoodCall(SourceFailed(r, retryable))
           /\ SourceFailed(r, retryable).pc \in {"try", "backoff", "failed"}
<1> DEFINE tried == [r EXCEPT !.pc = "try", !.todo = Tail(@), !.wait = 0,
                              !.failed = Append(@, Head(r.todo)),
                              !.caught = FALSE, !.overtaken = FALSE]
<1>0. /\ r \in SearchCall /\ r.failed \in Seq(Named)
      /\ r.todo \in Seq(Sources) /\ r.todo # <<>>
      /\ r.mode # "mock" /\ Plan(r.mode) # <<>>
  BY DEF GoodCall, SearchCall
<1>1. /\ Len(r.todo) \in Nat /\ Len(r.todo) >= 1
      /\ Head(r.todo) \in Sources /\ Head(r.todo) = r.todo[1]
      /\ Tail(r.todo) \in Seq(Sources) /\ Len(Tail(r.todo)) = Len(r.todo) - 1
      /\ \A i \in 1..Len(Tail(r.todo)) : Tail(r.todo)[i] = r.todo[i + 1]
  BY <1>0, TailOf
<1> DEFINE asked == Append(r.failed, Head(r.todo))
           left == Tail(r.todo)
<1>2. /\ asked \in Seq(Named) /\ Len(asked) = Len(r.failed) + 1 /\ Len(r.failed) \in Nat
      /\ \A i \in 1..Len(r.failed) : asked[i] = r.failed[i]
      /\ asked[Len(r.failed) + 1] = Head(r.todo)
  BY <1>0, <1>1 DEF Named
<1>3. left \in Seq(Named)
  BY <1>1 DEF Named
<1>4. /\ tried \in SearchCall /\ tried.pc = "try" /\ tried.mode = r.mode
      /\ tried.todo = left /\ tried.failed = asked
  <2> HIDE DEF left, asked
  <2>1. tried = [r EXCEPT !.pc = "try", !.todo = left, !.wait = 0, !.failed = asked,
                          !.caught = FALSE, !.overtaken = FALSE]
    BY <1>0 DEF left, asked, SearchCall
  <2> HIDE DEF tried
  <2> QED
    BY <1>0, <1>2, <1>3, <2>1 DEF SearchCall, Busy
<1>5. ASSUME r.mode = "auto" PROVE InTurn(tried)
  <2>1. InTurn(r)
    BY <1>5 DEF GoodCall
  <2> HIDE DEF tried, asked, left
  <2>5. /\ Len(asked) = Len(r.failed) + 1 /\ Len(r.failed) \in Nat
        /\ Len(left) = Len(r.todo) - 1 /\ Len(r.todo) \in Nat
    BY <1>1, <1>2 DEF left
  <2>6. Len(r.failed) + Len(r.todo) = Len(AutoPlan)
    BY <2>1 DEF InTurn
  <2>2. Len(asked) + Len(left) = Len(AutoPlan)
    <3> DEFINE a == Len(asked)
               b == Len(left)
               f == Len(r.failed)
               t == Len(r.todo)
               n == Len(AutoPlan)
    <3>1. a = f + 1 /\ f \in Nat /\ b = t - 1 /\ t \in Nat /\ f + t = n
      BY <2>5, <2>6
    <3> HIDE DEF a, b, f, t, n
    <3>2. a + b = n
      BY <3>1
    <3> QED
      BY <3>2 DEF a, b, n
  <2>3. ASSUME NEW i \in 1..Len(asked) PROVE asked[i] = AutoPlan[i]
    <3>1. CASE i \in 1..Len(r.failed)
      BY <1>2, <2>1, <3>1 DEF InTurn
    <3>2. CASE i = Len(r.failed) + 1
      <4>1. asked[i] = r.todo[1] /\ 1 \in 1..Len(r.todo)
        BY <1>1, <1>2, <3>2
      <4>2. r.todo[1] = AutoPlan[Len(r.failed) + 1]
        BY <2>1, <4>1 DEF InTurn
      <4> QED
        BY <3>2, <4>1, <4>2
    <3> QED
      BY <2>5, <3>1, <3>2
  <2>4. ASSUME NEW i \in 1..Len(left) PROVE left[i] = AutoPlan[Len(asked) + i]
    <3>1. left[i] = r.todo[i + 1] /\ i + 1 \in 1..Len(r.todo)
      BY <1>1 DEF left
    <3>2. r.todo[i + 1] = AutoPlan[Len(r.failed) + (i + 1)]
      BY <2>1, <3>1 DEF InTurn
    <3>3. Len(asked) + i = Len(r.failed) + (i + 1)
      <4> DEFINE f == Len(r.failed)
      <4>1. Len(asked) = f + 1 /\ f \in Nat
        BY <2>5
      <4> HIDE DEF f
      <4>2. Len(asked) + i = f + (i + 1)
        BY <4>1
      <4> QED
        BY <4>2 DEF f
    <3> QED
      BY <3>1, <3>2, <3>3
  <2> QED
    BY <1>4, <2>2, <2>3, <2>4 DEF InTurn
<1>6. CASE r.mode # "auto"
  <2>1. SourceFailed(r, retryable) = Attempted(tried, retryable)
    BY <1>6 DEF SourceFailed
  <2> HIDE DEF tried
  <2> QED
    BY <1>0, <1>4, <1>6, <2>1, AttemptedIsGood
<1>7. CASE r.mode = "auto" /\ tried.todo = <<>>
  <2>1. SourceFailed(r, retryable) = Attempted(tried, FALSE)
    BY <1>7 DEF SourceFailed
  <2>2. tried.failed = AutoPlan
    <3> HIDE DEF tried, asked, left
    <3>1. InTurn(tried) /\ tried.failed \in Seq(Named) /\ AutoPlan \in Seq(Named)
      BY <1>2, <1>4, <1>5, <1>7, AutoPlanIsSeq
    <3>2. Len(tried.failed) = Len(AutoPlan)
      BY <1>7, <3>1 DEF InTurn
    <3> QED
      BY <3>1, <3>2 DEF InTurn
  <2> HIDE DEF tried
  <2> QED
    BY <1>0, <1>4, <1>7, <2>1, <2>2, AttemptedIsGood
<1>8. CASE r.mode = "auto" /\ tried.todo # <<>>
  <2>1. SourceFailed(r, retryable) = tried
    BY <1>8 DEF SourceFailed
  <2>2. GoodCall(tried)
    <3> HIDE DEF tried
    <3> QED
      BY <1>0, <1>1, <1>4, <1>5, <1>8 DEF GoodCall
  <2> HIDE DEF tried
  <2> QED
    BY <1>4, <2>1, <2>2
<1> QED
  BY <1>6, <1>7, <1>8

\* A slot that no search uses.
LEMMA IdleIsGood == GoodCall(Idle) /\ Idle.pc = "idle"
<1>1. <<>> \in Seq(Named)
  OBVIOUS
<1> QED
  BY <1>1 DEF Idle, GoodCall, SearchCall, Busy

\* No search has begun and no source has been asked.
LEMMA SearchInvInit == SearchInit => SearchInv
<1> SUFFICES ASSUME SearchInit PROVE SearchInv
  OBVIOUS
<1>1. Timers
  BY DEF SearchInit, Timers
<1>3. DOMAIN search = Calls /\ \A c \in Calls : search[c] = Idle
  BY DEF SearchInit
<1> QED
  BY <1>1, <1>3, IdleIsGood DEF SearchInv, AtGate

\* The step of one call that leaves the tables of the gate alone.
LEMMA OneCall ==
    ASSUME SearchInv, NEW c \in Calls, NEW r, GoodCall(r),
           search' = [search EXCEPT ![c] = r],
           UNCHANGED <<cool, rest, quiet, fresh>>,
           r.pc = "sleep" =>
               /\ quiet[Head(r.todo)] > 0 => r.caught
               /\ ~r.overtaken => fresh[Head(r.todo)] <= r.wait
    PROVE  SearchInv'
<1>1. Timers'
  BY DEF SearchInv, Timers
<1>2. DOMAIN search = Calls
  BY DEF SearchInv
<1>3. DOMAIN search' = Calls
  BY <1>2
<1>4. ASSUME NEW d \in Calls PROVE GoodCall(search[d])' /\ AtGate(d)'
  <2>1. CASE d = c
    <3>1. search'[d] = r
      BY <1>2, <2>1
    <3> QED
      BY <3>1 DEF AtGate
  <2>2. CASE d # c
    <3>1. search'[d] = search[d]
      BY <1>2, <2>2
    <3>2. GoodCall(search[d]) /\ AtGate(d)
      BY DEF SearchInv
    <3> QED
      BY <3>1, <3>2 DEF AtGate
  <2> QED
    BY <2>1, <2>2
<1> QED
  BY <1>1, <1>3, <1>4 DEF SearchInv

\* handle begins: no request is out yet.
LEMMA BeginKeeps ==
    ASSUME SearchInv, NEW c \in Calls, NEW m \in Modes,
           Begin(c, m)
    PROVE  SearchInv'
<1> DEFINE p == IF m = "mock" THEN "answered"
                ELSE IF Plan(m) = <<>> THEN "failed" ELSE "try"
           r == [Idle EXCEPT !.mode = m, !.todo = Plan(m), !.pc = p]
<1>1. search' = [search EXCEPT ![c] = r] /\ UNCHANGED <<cool, rest, quiet, fresh>>
  BY DEF Begin
<1>2. m \in Named \cup {"auto"}
  BY SearchConstants
<1>3. Plan(m) \in Seq(Named)
  BY <1>2, PlanIsSeq
<1>4. /\ r \in SearchCall /\ r.pc = p /\ r.mode = m /\ r.todo = Plan(m)
      /\ r.failed = <<>>
  <2>1. p \in {"answered", "failed", "try"} /\ <<>> \in Seq(Named)
    OBVIOUS
  <2> DEFINE t == Plan(m)
  <2> HIDE DEF p, t
  <2>2. t \in Seq(Named) /\ r = [Idle EXCEPT !.mode = m, !.todo = t, !.pc = p]
    BY <1>3 DEF t
  <2>3. r \in SearchCall /\ r.pc = p /\ r.mode = m /\ r.todo = t /\ r.failed = <<>>
    BY <1>2, <2>1, <2>2 DEF SearchCall, Busy, Idle
  <2> QED
    BY <2>3 DEF t
<1>5. GoodCall(r) /\ r.pc # "sleep"
  <2>1. CASE p = "try"
    <3>1. m # "mock" /\ Plan(m) # <<>>
      BY <2>1
    <3> HIDE DEF r, p
    <3> QED
      BY <1>4, <2>1, <3>1, PlanIsGood
  <2>2. CASE p # "try"
    <3>1. p \in {"answered", "failed"}
      BY <2>2
    <3> HIDE DEF r, p
    <3> QED
      BY <1>4, <3>1 DEF GoodCall, Busy
  <2> QED
    BY <2>1, <2>2
<1> HIDE DEF r
<1> QED
  BY <1>1, <1>5, OneCall

\* The handler starts again from the first source.
LEMMA RetryKeeps ==
    ASSUME SearchInv, NEW c \in Calls, Retry(c)
    PROVE  SearchInv'
<1> DEFINE r == [search[c] EXCEPT !.pc = "try", !.todo = Plan(search[c].mode)]
<1>1. search' = [search EXCEPT ![c] = r] /\ UNCHANGED <<cool, rest, quiet, fresh>>
  BY DEF Retry
<1>2. /\ search[c] \in SearchCall /\ search[c].mode # "mock" /\ search[c].failed = <<>>
      /\ Plan(search[c].mode) # <<>> /\ search[c].mode \in Named \cup {"auto"}
  BY DEF SearchInv, GoodCall, Retry, SearchCall
<1>3. Plan(search[c].mode) \in Seq(Named)
  BY <1>2, PlanIsSeq
<1>4. /\ r \in SearchCall /\ r.pc = "try" /\ r.mode = search[c].mode
      /\ r.todo = Plan(search[c].mode) /\ r.failed = <<>>
  <2> DEFINE e == search[c]
             t == Plan(search[c].mode)
  <2>1. /\ r = [e EXCEPT !.pc = "try", !.todo = t]
        /\ e \in SearchCall /\ t \in Seq(Named) /\ e.failed = <<>>
    BY <1>2, <1>3
  <2> HIDE DEF e, t, r
  <2>2. r \in SearchCall /\ r.pc = "try" /\ r.mode = e.mode /\ r.todo = t /\ r.failed = <<>>
    BY <2>1 DEF SearchCall, Busy
  <2> QED
    BY <2>2 DEF e, t
<1> HIDE DEF r
<1>5. GoodCall(r)
  BY <1>2, <1>4, PlanIsGood
<1> QED
  BY <1>1, <1>4, <1>5, OneCall

\* A call at the gate, asleep there or with its request out.
LEMMA BusyCall ==
    ASSUME SearchInv, NEW c \in Calls, search[c].pc \in Busy
    PROVE  /\ GoodCall(search[c]) /\ search[c] \in SearchCall
           /\ search[c].todo \in Seq(Sources) /\ search[c].todo # <<>>
           /\ Head(search[c].todo) \in Sources
           /\ search[c].mode # "mock" /\ Plan(search[c].mode) # <<>>
<1>1. /\ GoodCall(search[c]) /\ search[c] \in SearchCall
      /\ search[c].todo \in Seq(Sources) /\ search[c].todo # <<>>
      /\ search[c].mode # "mock" /\ Plan(search[c].mode) # <<>>
  BY DEF SearchInv, GoodCall
<1> QED
  BY <1>1, TailOf

\* _gate refuses: the next source, or the end.
LEMMA RefusedKeeps ==
    ASSUME SearchInv, NEW c \in Calls, RefusedByGate(c)
    PROVE  SearchInv'
<1> DEFINE r == SourceFailed(search[c], FALSE)
<1>1. search' = [search EXCEPT ![c] = r] /\ UNCHANGED <<cool, rest, quiet, fresh>>
  BY DEF RefusedByGate
<1>2. search[c].pc \in Busy
  BY DEF RefusedByGate, Busy
<1>3. GoodCall(r) /\ r.pc # "sleep"
  BY <1>2, BusyCall, SourceFailedIsGood
<1> HIDE DEF r
<1> QED
  BY <1>1, <1>3, OneCall

\* wait_for gives up on the handler.
LEMMA TimeOutKeeps ==
    ASSUME SearchInv, NEW c \in Calls, TimeOut(c)
    PROVE  SearchInv'
<1> DEFINE e == [search[c] EXCEPT !.failed = <<>>]
           r == Attempted(e, TRUE)
<1>1. search' = [search EXCEPT ![c] = r] /\ UNCHANGED <<cool, rest, quiet, fresh>>
  BY DEF TimeOut
<1>2. search[c].pc \in Busy
  BY DEF TimeOut, Busy
<1>3. e \in SearchCall /\ e.failed = <<>> /\ e.mode = search[c].mode
  <2>1. search[c] \in SearchCall /\ <<>> \in Seq(Named)
    BY <1>2, BusyCall
  <2> QED
    BY <2>1 DEF SearchCall
<1> HIDE DEF e
<1>4. GoodCall(r) /\ r.pc # "sleep"
  BY <1>2, <1>3, BusyCall, AttemptedIsGood
<1> HIDE DEF r
<1> QED
  BY <1>1, <1>4, OneCall

\* The task takes what the call came to.
LEMMA CollectKeeps ==
    ASSUME SearchInv, NEW c \in Calls, Collect(c)
    PROVE  SearchInv'
<1>1. /\ search' = [search EXCEPT ![c] = Idle]
      /\ UNCHANGED <<cool, rest, quiet, fresh>>
  BY DEF Collect
<1> QED
  BY <1>1, IdleIsGood, OneCall

\* What a step of the gate changes in a call leaves its turn as it was.
LEMMA SameTurn ==
    ASSUME NEW r, GoodCall(r), r.pc \in Busy, NEW e \in SearchCall, e.pc \in Busy,
           e.todo = r.todo, e.failed = r.failed, e.mode = r.mode
    PROVE  GoodCall(e)
  BY DEF GoodCall, InTurn, Busy

\* A call that sleeps at the gate.
LEMMA GateSleepKeeps ==
    ASSUME SearchInv, NEW c \in Calls, search[c].pc = "try",
           cool[Source(c)] = 0,
           search' = [search EXCEPT ![c].pc = "sleep", ![c].wait = rest[Source(c)]],
           UNCHANGED <<cool, rest, quiet, fresh>>
    PROVE  SearchInv'
<1> DEFINE s == Head(search[c].todo)
           w == rest[s]
           e == search[c]
           r == [e EXCEPT !.pc = "sleep", !.wait = w]
<1>1. search' = [search EXCEPT ![c] = r]
  BY DEF Source
<1>2. /\ GoodCall(e) /\ e \in SearchCall /\ e.pc = "try" /\ s \in Sources
      /\ s = Head(e.todo)
  BY BusyCall DEF Busy
<1>3. /\ w \in Nat /\ fresh[s] <= w /\ ~(quiet[s] > 0)
  <2>1. Timers /\ cool[s] = 0
    BY DEF SearchInv, Source
  <2> HIDE DEF s
  <2> QED
    BY <1>2, <2>1 DEF Timers
<1> HIDE DEF s, w, e
<1>4. /\ r \in SearchCall /\ r.pc = "sleep" /\ r.wait = w /\ r.todo = e.todo
      /\ r.failed = e.failed /\ r.mode = e.mode
  BY <1>2, <1>3 DEF SearchCall, Busy
<1> HIDE DEF r
<1>5. GoodCall(r)
  BY <1>2, <1>4, SameTurn DEF Busy
<1>6. Head(r.todo) = s
  BY <1>2, <1>4
<1> QED
  BY <1>1, <1>3, <1>4, <1>5, <1>6, OneCall

\* A request leaves: who sleeps at the same gate is overtaken.
LEMMA RequestKeeps ==
    ASSUME SearchInv, NEW c \in Calls,
           search[c].pc \in {"try", "sleep"}, Request(c)
    PROVE  SearchInv'
<1> DEFINE s == Source(c)
<1>1. s \in Sources
  BY BusyCall DEF Source, Busy
<1>2. /\ rest' = [rest EXCEPT ![s] = MinInterval] /\ fresh' = [fresh EXCEPT ![s] = MinInterval]
      /\ cool' = cool /\ quiet' = quiet /\ DOMAIN search' = Calls
      /\ search'[c] = [search[c] EXCEPT !.pc = "flight"]
      /\ \A d \in Calls \ {c} :
           search'[d] = IF search[d].pc = "sleep" /\ Source(d) = s
                        THEN [search[d] EXCEPT !.overtaken = TRUE] ELSE search[d]
  BY DEF Request, Record
<1>3. Timers'
  BY <1>1, <1>2, SearchConstants DEF SearchInv, Timers
<1>4. GoodCall(search[c])' /\ AtGate(c)'
  <2> DEFINE e == search[c]
             r == [e EXCEPT !.pc = "flight"]
  <2>1. GoodCall(e) /\ e \in SearchCall /\ e.pc \in Busy
    BY BusyCall DEF Busy
  <2>2. search'[c] = r
    BY <1>2
  <2> HIDE DEF e
  <2>3. /\ r \in SearchCall /\ r.pc = "flight" /\ r.todo = e.todo
        /\ r.failed = e.failed /\ r.mode = e.mode
    BY <2>1 DEF SearchCall, Busy
  <2> HIDE DEF r
  <2>4. GoodCall(r)
    BY <2>1, <2>3, SameTurn DEF Busy
  <2> QED
    BY <2>2, <2>3, <2>4 DEF AtGate
<1>5. ASSUME NEW d \in Calls \ {c} PROVE GoodCall(search[d])' /\ AtGate(d)'
  <2>1. GoodCall(search[d]) /\ AtGate(d)
    BY DEF SearchInv
  <2>2. CASE search[d].pc = "sleep" /\ Source(d) = s
    <3> DEFINE e == search[d]
               r == [e EXCEPT !.overtaken = TRUE]
    <3>1. search'[d] = r
      BY <1>2, <2>2
    <3>2. GoodCall(e) /\ e \in SearchCall /\ e.pc = "sleep"
      BY <2>1, <2>2 DEF GoodCall
    <3> HIDE DEF e
    <3>3. /\ r \in SearchCall /\ r.pc = "sleep" /\ r.todo = e.todo /\ r.overtaken
          /\ r.failed = e.failed /\ r.mode = e.mode /\ r.caught = e.caught
      BY <3>2 DEF SearchCall
    <3> HIDE DEF r
    <3>4. GoodCall(r)
      BY <3>2, <3>3, SameTurn DEF Busy
    <3>5. quiet[Head(e.todo)] > 0 => e.caught
      BY <2>1, <2>2 DEF AtGate, e
    <3> QED
      BY <1>2, <3>1, <3>3, <3>4, <3>5 DEF AtGate
  <2>3. CASE search[d].pc = "sleep" /\ Source(d) # s
    <3>1. search'[d] = search[d]
      BY <1>2, <2>3
    <3>2. Head(search[d].todo) # s /\ Head(search[d].todo) \in Sources
      BY <2>3, BusyCall DEF Source, Busy
    <3>3. fresh'[Head(search[d].todo)] = fresh[Head(search[d].todo)]
      <4>1. fresh \in [Sources -> Nat]
        BY DEF SearchInv, Timers
      <4> HIDE DEF s
      <4> QED
        BY <1>2, <3>2, <4>1
    <3> QED
      BY <1>2, <2>1, <3>1, <3>3 DEF AtGate
  <2>4. CASE search[d].pc # "sleep"
    <3>1. search'[d] = search[d]
      BY <1>2, <2>4
    <3> QED
      BY <2>1, <2>4, <3>1 DEF AtGate
  <2> QED
    BY <2>2, <2>3, <2>4
<1> QED
  BY <1>2, <1>3, <1>4, <1>5 DEF SearchInv

\* A call at the gate of a source that is not cooling.
LEMMA PassGateKeeps ==
    ASSUME SearchInv, NEW c \in Calls, PassGate(c)
    PROVE  SearchInv'
<1>1. CASE rest[Source(c)] > 0
  BY <1>1, GateSleepKeeps DEF PassGate
<1>2. CASE ~(rest[Source(c)] > 0)
  BY <1>2, RequestKeeps DEF PassGate
<1> QED
  BY <1>1, <1>2

\* The sleep is over.
LEMMA WakeKeeps ==
    ASSUME SearchInv, NEW c \in Calls, Wake(c)
    PROVE  SearchInv'
  BY RequestKeeps DEF Wake

\* What a request may fail with, whatever the source.
LEMMA FailureKinds ==
    ASSUME NEW s \in Sources, NEW f \in FailuresOf(s)
    PROVE  /\ f.retryable \in BOOLEAN /\ f.cooldown \in Nat
           /\ f.cooldown # 0 => NetCooldown <= f.cooldown
<1> DEFINE Kinds == [cooldown : {0, Cooldown, NetCooldown}, retryable : BOOLEAN]
<1>3. /\ Failure(0, TRUE) \in Kinds /\ Failure(0, FALSE) \in Kinds
      /\ Failure(Cooldown, TRUE) \in Kinds /\ Failure(Cooldown, FALSE) \in Kinds
      /\ Failure(NetCooldown, TRUE) \in Kinds
  BY DEF Failure
<1> HIDE DEF Kinds
<1>1. /\ BochaFailures \subseteq Kinds /\ SogouFailures \subseteq Kinds
      /\ BingFailures \subseteq Kinds /\ DdgsFailures \subseteq Kinds
  BY <1>3
  DEF BochaFailures, SogouFailures, BingFailures,
         DdgsFailures, PageErrors, Unreachable, Blocked,
         Irrelevant
<1>2. f \in Kinds
  BY <1>1 DEF FailuresOf, Sources
<1> QED
  BY <1>2, SearchConstants DEF Kinds

\* A request failed: who sleeps at the gate of the source is caught there.
LEMMA AnswerFailsKeeps ==
    ASSUME SearchInv, NEW c \in Calls,
           NEW f \in FailuresOf(Source(c)), AnswerFails(c, f)
    PROVE  SearchInv'
<1> DEFINE s == Source(c)
<1>0. search[c].pc \in Busy /\ s \in Sources
  BY BusyCall DEF AnswerFails, Source, Busy
<1>1. /\ f.retryable \in BOOLEAN /\ f.cooldown \in Nat
      /\ f.cooldown # 0 => NetCooldown <= f.cooldown
  BY <1>0, FailureKinds
<1>2. /\ cool' = IF f.cooldown = 0 THEN cool ELSE [cool EXCEPT ![s] = f.cooldown]
      /\ quiet' = IF f.cooldown = 0 THEN quiet ELSE [quiet EXCEPT ![s] = NetCooldown]
      /\ rest' = rest /\ fresh' = fresh /\ DOMAIN search' = Calls
      /\ search'[c] = SourceFailed(search[c], f.retryable)
      /\ \A d \in Calls \ {c} :
           search'[d] = IF f.cooldown # 0 /\ search[d].pc = "sleep" /\ Source(d) = s
                        THEN [search[d] EXCEPT !.caught = TRUE] ELSE search[d]
  BY DEF AnswerFails, MarkFailed
<1>3. Timers'
  <2>1. CASE f.cooldown = 0
    BY <1>2, <2>1 DEF SearchInv, Timers
  <2>2. CASE f.cooldown # 0
    <3> HIDE DEF s
    <3> QED
      BY <1>0, <1>1, <1>2, <2>2, SearchConstants DEF SearchInv, Timers
  <2> QED
    BY <2>1, <2>2
<1>4. GoodCall(search[c])' /\ AtGate(c)'
  <2>1. /\ GoodCall(SourceFailed(search[c], f.retryable))
        /\ SourceFailed(search[c], f.retryable).pc # "sleep"
    BY <1>0, <1>1, BusyCall, SourceFailedIsGood
  <2> QED
    BY <1>2, <2>1 DEF AtGate
<1>5. ASSUME NEW d \in Calls \ {c} PROVE GoodCall(search[d])' /\ AtGate(d)'
  <2>1. GoodCall(search[d]) /\ AtGate(d)
    BY DEF SearchInv
  <2>2. CASE f.cooldown # 0 /\ search[d].pc = "sleep" /\ Source(d) = s
    <3> DEFINE e == search[d]
               r == [e EXCEPT !.caught = TRUE]
    <3>1. search'[d] = r
      BY <1>2, <2>2
    <3>2. GoodCall(e) /\ e \in SearchCall /\ e.pc = "sleep"
      BY <2>1, <2>2 DEF GoodCall
    <3> HIDE DEF e
    <3>3. /\ r \in SearchCall /\ r.pc = "sleep" /\ r.todo = e.todo /\ r.caught
          /\ r.failed = e.failed /\ r.mode = e.mode /\ r.overtaken = e.overtaken
          /\ r.wait = e.wait
      BY <3>2 DEF SearchCall
    <3> HIDE DEF r
    <3>4. GoodCall(r)
      BY <3>2, <3>3, SameTurn DEF Busy
    <3>5. ~e.overtaken => fresh[Head(e.todo)] <= e.wait
      BY <2>1, <2>2 DEF AtGate, e
    <3> QED
      BY <1>2, <3>1, <3>3, <3>4, <3>5 DEF AtGate
  <2>3. CASE search[d].pc = "sleep" /\ ~(f.cooldown # 0 /\ Source(d) = s)
    <3>1. search'[d] = search[d]
      BY <1>2, <2>3
    <3>2. quiet'[Head(search[d].todo)] = quiet[Head(search[d].todo)]
      <4>1. quiet \in [Sources -> Nat] /\ Head(search[d].todo) \in Sources
        BY <2>3, BusyCall DEF SearchInv, Timers, Busy
      <4>2. f.cooldown = 0 \/ Head(search[d].todo) # s
        BY <2>3 DEF Source
      <4> HIDE DEF s
      <4> QED
        BY <1>2, <4>1, <4>2
    <3> QED
      BY <1>2, <2>1, <3>1, <3>2 DEF AtGate
  <2>4. CASE search[d].pc # "sleep"
    <3>1. search'[d] = search[d]
      BY <1>2, <2>4
    <3> QED
      BY <2>1, <2>4, <3>1 DEF AtGate
  <2> QED
    BY <2>2, <2>3, <2>4
<1> QED
  BY <1>2, <1>3, <1>4, <1>5 DEF SearchInv

\* _mark_ok: the source need not be left alone any more.
LEMMA AnswerGoodKeeps ==
    ASSUME SearchInv, NEW c \in Calls, AnswerGood(c)
    PROVE  SearchInv'
<1> DEFINE s == Source(c)
           r == [Idle EXCEPT !.pc = "answered"]
<1>0. s \in Sources
  BY BusyCall DEF AnswerGood, Source, Busy
<1>1. /\ cool' = [cool EXCEPT ![s] = 0] /\ quiet' = [quiet EXCEPT ![s] = 0]
      /\ rest' = rest /\ fresh' = fresh /\ search' = [search EXCEPT ![c] = r]
  BY DEF AnswerGood
<1>2. GoodCall(r) /\ r.pc = "answered"
  <2>1. <<>> \in Seq(Named)
    OBVIOUS
  <2> QED
    BY <2>1 DEF Idle, GoodCall, SearchCall, Busy
<1> HIDE DEF s, r
<1>3. Timers'
  BY <1>0, <1>1 DEF SearchInv, Timers
<1>4. DOMAIN search = Calls /\ DOMAIN search' = Calls
  BY <1>1 DEF SearchInv
<1>5. ASSUME NEW d \in Calls PROVE GoodCall(search[d])' /\ AtGate(d)'
  <2>1. CASE d = c
    BY <1>1, <1>2, <1>4, <2>1 DEF AtGate
  <2>2. CASE d # c
    <3>1. search'[d] = search[d]
      BY <1>1, <1>4, <2>2
    <3>2. GoodCall(search[d]) /\ AtGate(d)
      BY DEF SearchInv
    <3>3. ASSUME search[d].pc = "sleep"
          PROVE  quiet'[Head(search[d].todo)] > 0 => quiet[Head(search[d].todo)] > 0
      <4>1. quiet \in [Sources -> Nat] /\ Head(search[d].todo) \in Sources
        BY <3>3, BusyCall DEF SearchInv, Timers, Busy
      <4> QED
        BY <1>1, <4>1
    <3> QED
      BY <1>1, <3>1, <3>2, <3>3 DEF AtGate
  <2> QED
    BY <2>1, <2>2
<1> QED
  BY <1>3, <1>4, <1>5 DEF SearchInv

\* A second less on every clock.
LEMMA LessIsMonotone ==
    ASSUME NEW m \in Nat, NEW n \in Nat
    PROVE  /\ Less(m) \in Nat /\ Less(m) <= m
           /\ m <= n => Less(m) <= Less(n)
  BY DEF Less

\* Time passes.
LEMMA TickKeeps ==
    ASSUME SearchInv, Tick
    PROVE  SearchInv'
<1>1. /\ cool' = [s \in Sources |-> Less(cool[s])]
      /\ rest' = [s \in Sources |-> Less(rest[s])]
      /\ quiet' = [s \in Sources |-> Less(quiet[s])]
      /\ fresh' = [s \in Sources |-> Less(fresh[s])]
      /\ search' = [c \in Calls |-> [search[c] EXCEPT !.wait = Less(@)]]
  BY DEF Tick
<1>2. Timers
  BY DEF SearchInv
<1>3. Timers'
  BY <1>1, <1>2, LessIsMonotone DEF Timers
<1>4. ASSUME NEW d \in Calls PROVE GoodCall(search[d])' /\ AtGate(d)'
  <2> DEFINE e == search[d]
             w == Less(e.wait)
             r == [e EXCEPT !.wait = w]
  <2>1. search'[d] = r
    BY <1>1
  <2>2. GoodCall(e) /\ e \in SearchCall /\ e.wait \in Nat
    BY DEF SearchInv, GoodCall, SearchCall
  <2>3. w \in Nat
    BY <2>2, LessIsMonotone
  <2>4. ASSUME e.pc = "sleep"
        PROVE  /\ quiet'[Head(e.todo)] > 0 => e.caught
               /\ ~e.overtaken => fresh'[Head(e.todo)] <= w
    <3>1. Head(e.todo) \in Sources
      BY <2>4, BusyCall DEF Busy
    <3>2. AtGate(d)
      BY DEF SearchInv
    <3>3. /\ quiet[Head(e.todo)] \in Nat /\ fresh[Head(e.todo)] \in Nat
          /\ quiet'[Head(e.todo)] = Less(quiet[Head(e.todo)])
          /\ fresh'[Head(e.todo)] = Less(fresh[Head(e.todo)])
      BY <1>1, <1>2, <3>1 DEF Timers
    <3>4. /\ quiet[Head(e.todo)] > 0 => e.caught
          /\ ~e.overtaken => fresh[Head(e.todo)] <= e.wait
      BY <2>4, <3>2 DEF AtGate
    <3> DEFINE q == quiet[Head(e.todo)]
               g == fresh[Head(e.todo)]
               v == e.wait
    <3>5. /\ q \in Nat /\ g \in Nat /\ v \in Nat /\ (q > 0 => e.caught)
          /\ (~e.overtaken => g <= v)
      BY <2>2, <3>3, <3>4
    <3> HIDE DEF q, g, v
    <3>6. (Less(q) > 0 => e.caught) /\ (~e.overtaken => Less(g) <= Less(v))
      BY <3>5 DEF Less
    <3> QED
      BY <3>3, <3>6 DEF q, g, v
  <2> HIDE DEF e, w
  <2>5. /\ r \in SearchCall /\ r.pc = e.pc /\ r.todo = e.todo /\ r.wait = w
        /\ r.failed = e.failed /\ r.mode = e.mode /\ r.overtaken = e.overtaken
        /\ r.caught = e.caught
    BY <2>2, <2>3 DEF SearchCall
  <2> HIDE DEF r
  <2>6. GoodCall(r)
    BY <2>2, <2>5 DEF GoodCall, InTurn
  <2> QED
    BY <2>1, <2>4, <2>5, <2>6 DEF AtGate
<1>5. DOMAIN search' = Calls
  BY <1>1
<1> QED
  BY <1>3, <1>4, <1>5 DEF SearchInv

\* Every step keeps the invariant.
LEMMA SearchStep ==
    ASSUME SearchInv, [SearchNext]_searchVars
    PROVE  SearchInv'
<1>1. ASSUME NEW c \in Calls, Work(c) PROVE SearchInv'
  BY <1>1, RetryKeeps, RefusedKeeps, PassGateKeeps, WakeKeeps, AnswerGoodKeeps,
     TimeOutKeeps, AnswerFailsKeeps DEF Work
<1>2. ASSUME NEW c \in Calls, Collect(c) PROVE SearchInv'
  BY <1>2, CollectKeeps
<1>3. ASSUME NEW c \in Calls, NEW m \in Modes, Begin(c, m) PROVE SearchInv'
  BY <1>3, BeginKeeps
<1>4. CASE Tick
  BY <1>4, TickKeeps
<1>5. CASE UNCHANGED searchVars
  BY <1>5 DEF searchVars, SearchInv, Timers, AtGate
<1> QED
  BY <1>1, <1>2, <1>3, <1>4, <1>5 DEF SearchNext

\* The invariant of the gate and of the turns holds.
LEMMA SearchInvHolds == SearchSpec => []SearchInv
<1>1. SearchInv /\ [SearchNext]_searchVars => SearchInv'
  BY SearchStep
<1> QED
  BY SearchInvInit, <1>1, PTL DEF SearchSpec

\* A step of one call that has no request out afterwards sends none.
LEMMA NothingLeaves ==
    ASSUME SearchInv, NEW c \in Calls, NEW d \in Calls, NEW r, r.pc # "flight",
           search' = [search EXCEPT ![d] = r]
    PROVE  ~Leaves(c)
<1>1. DOMAIN search = Calls
  BY DEF SearchInv
<1>2. CASE c = d
  BY <1>1, <1>2 DEF Leaves
<1>3. CASE c # d
  BY <1>1, <1>3 DEF Leaves
<1> QED
  BY <1>2, <1>3

\* The request of a call is the only one that leaves.
LEMMA OneLeaves ==
    ASSUME SearchInv, NEW c \in Calls, NEW d \in Calls, Request(d), c # d
    PROVE  ~Leaves(c)
<1>1. search'[c] \in {search[c], [search[c] EXCEPT !.overtaken = TRUE]}
  BY DEF Request
<1>2. search[c] \in SearchCall
  BY DEF SearchInv, GoodCall
<1> QED
  BY <1>1, <1>2 DEF Leaves, SearchCall

\* A request leaves at the gate, when its source is not cooling and its interval is
\* over, or after a sleep that has come to its end; no other step sends one.
LEMMA WhoLeaves ==
    ASSUME SearchInv, [SearchNext]_searchVars,
           NEW c \in Calls, Leaves(c)
    PROVE  \/ /\ search[c].pc = "try" /\ cool[Source(c)] = 0
              /\ ~(rest[Source(c)] > 0)
           \/ search[c].pc = "sleep" /\ search[c].wait = 0
<1> DEFINE Goal == \/ /\ search[c].pc = "try" /\ cool[Source(c)] = 0
                      /\ ~(rest[Source(c)] > 0)
                   \/ search[c].pc = "sleep" /\ search[c].wait = 0
<1>1. ASSUME NEW d \in Calls, Retry(d) PROVE FALSE
  <2> DEFINE r == [search[d] EXCEPT !.pc = "try", !.todo = Plan(search[d].mode)]
  <2>1. search' = [search EXCEPT ![d] = r]
    BY <1>1 DEF Retry
  <2>2. r.pc = "try"
    BY DEF SearchInv, GoodCall, SearchCall
  <2> HIDE DEF r
  <2> QED
    BY <2>1, <2>2, NothingLeaves
<1>2. ASSUME NEW d \in Calls, RefusedByGate(d) PROVE FALSE
  <2>1. /\ search' = [search EXCEPT ![d] = SourceFailed(search[d], FALSE)]
        /\ search[d].pc \in Busy
    BY <1>2 DEF RefusedByGate, Busy
  <2>2. SourceFailed(search[d], FALSE).pc # "flight"
    BY <2>1, BusyCall, SourceFailedIsGood
  <2> QED
    BY <2>1, <2>2, NothingLeaves
<1>3. ASSUME NEW d \in Calls, PassGate(d) PROVE Goal
  <2>1. CASE rest[Source(d)] > 0
    <3> DEFINE r == [search[d] EXCEPT !.pc = "sleep", !.wait = rest[Source(d)]]
    <3>1. search' = [search EXCEPT ![d] = r]
      BY <1>3, <2>1 DEF PassGate
    <3>2. r.pc = "sleep"
      BY DEF SearchInv, GoodCall, SearchCall
    <3> HIDE DEF r
    <3> QED
      BY <3>1, <3>2, NothingLeaves
  <2>2. CASE ~(rest[Source(d)] > 0)
    <3>1. Request(d)
      BY <1>3, <2>2 DEF PassGate
    <3>2. c = d
      BY <3>1, OneLeaves
    <3> QED
      BY <1>3, <2>2, <3>2 DEF PassGate
  <2> QED
    BY <2>1, <2>2
<1>4. ASSUME NEW d \in Calls, Wake(d) PROVE Goal
  <2>1. c = d
    BY <1>4, OneLeaves DEF Wake
  <2> QED
    BY <1>4, <2>1 DEF Wake
<1>5. ASSUME NEW d \in Calls, AnswerGood(d) PROVE FALSE
  <2> DEFINE r == [Idle EXCEPT !.pc = "answered"]
  <2>1. search' = [search EXCEPT ![d] = r] /\ r.pc = "answered"
    BY <1>5 DEF AnswerGood, Idle
  <2> HIDE DEF r
  <2> QED
    BY <2>1, NothingLeaves
<1>6. ASSUME NEW d \in Calls, TimeOut(d) PROVE FALSE
  <2> DEFINE e == [search[d] EXCEPT !.failed = <<>>]
  <2>1. /\ search' = [search EXCEPT ![d] = Attempted(e, TRUE)]
        /\ search[d].pc \in Busy
    BY <1>6 DEF TimeOut, Busy
  <2>2. e \in SearchCall /\ e.failed = <<>> /\ e.mode = search[d].mode
    <3>1. search[d] \in SearchCall /\ <<>> \in Seq(Named)
      BY <2>1, BusyCall
    <3> QED
      BY <3>1 DEF SearchCall
  <2> HIDE DEF e
  <2>3. Attempted(e, TRUE).pc # "flight"
    BY <2>1, <2>2, BusyCall, AttemptedIsGood
  <2> QED
    BY <2>1, <2>3, NothingLeaves
<1>7. ASSUME NEW d \in Calls, NEW f \in FailuresOf(Source(d)),
             AnswerFails(d, f), search[d].pc = "flight"
      PROVE  FALSE
  <2>1. CASE c = d
    BY <1>7, <2>1 DEF Leaves
  <2>2. CASE c # d
    <3>1. search'[c] \in {search[c], [search[c] EXCEPT !.caught = TRUE]}
      BY <1>7, <2>2 DEF AnswerFails
    <3>2. search[c] \in SearchCall
      BY DEF SearchInv, GoodCall
    <3> QED
      BY <3>1, <3>2 DEF Leaves, SearchCall
  <2> QED
    BY <2>1, <2>2
<1>8. ASSUME NEW d \in Calls, Collect(d) PROVE FALSE
  <2>1. search' = [search EXCEPT ![d] = Idle]
    BY <1>8 DEF Collect
  <2> QED
    BY <2>1, IdleIsGood, NothingLeaves
<1>9. ASSUME NEW d \in Calls, NEW m \in Modes, Begin(d, m) PROVE FALSE
  <2> DEFINE p == IF m = "mock" THEN "answered"
                  ELSE IF Plan(m) = <<>> THEN "failed" ELSE "try"
             r == [Idle EXCEPT !.mode = m, !.todo = Plan(m), !.pc = p]
  <2>1. search' = [search EXCEPT ![d] = r]
    BY <1>9 DEF Begin
  <2>2. r.pc = p /\ p # "flight"
    BY DEF Idle
  <2> HIDE DEF r, p
  <2> QED
    BY <2>1, <2>2, NothingLeaves
<1>10. ASSUME Tick PROVE FALSE
  <2>1. search'[c] = [search[c] EXCEPT !.wait = Less(@)]
    BY <1>10 DEF Tick
  <2>2. search[c] \in SearchCall
    BY DEF SearchInv, GoodCall
  <2> QED
    BY <2>1, <2>2 DEF Leaves, SearchCall
<1>11. ASSUME UNCHANGED searchVars PROVE FALSE
  BY <1>11 DEF searchVars, Leaves
<1> HIDE DEF Goal
<1>12. Goal
  BY <1>1, <1>2, <1>3, <1>4, <1>5, <1>6, <1>7, <1>8, <1>9, <1>10, <1>11
  DEF SearchNext, Work, AnswerFails
<1> QED
  BY <1>12 DEF Goal

-----------------------------------------------------------------------------
(* The theorems on web_search.                                             *)

\* _search_auto: an automatic search that fails without a timeout has gone through
\* every configured source in order, whatever the sources failed with.
THEOREM EverySourceHasItsTurn ==
    SearchSpec => []FailedAutoAskedAll
<1>1. SearchInv => FailedAutoAskedAll
  BY DEF SearchInv, GoodCall, FailedAutoAskedAll
<1> QED
  BY <1>1, SearchInvHolds, PTL

\* _gate and _mark_failed: a source that failed gets no request before the short
\* cooldown is over, but from calls that slept at its gate when it failed.
THEOREM FailedSourceIsLeftAlone ==
    SearchSpec => FailedSourceLeftAlone
<1> DEFINE Alone == \A c \in Calls :
                      Leaves(c) /\ quiet[Source(c)] > 0 => search[c].caught
<1>1. ASSUME SearchInv, [SearchNext]_searchVars PROVE Alone
  <2> SUFFICES ASSUME NEW c \in Calls, Leaves(c), quiet[Source(c)] > 0
               PROVE  search[c].caught
    OBVIOUS
  <2>1. CASE search[c].pc = "try" /\ cool[Source(c)] = 0
    <3>1. Source(c) \in Sources
      BY <2>1, <1>1, BusyCall DEF Busy, Source
    <3> QED
      BY <1>1, <2>1, <3>1 DEF SearchInv, Timers
  <2>2. CASE search[c].pc = "sleep"
    BY <1>1, <2>2 DEF SearchInv, AtGate, Source
  <2> QED
    BY <1>1, <2>1, <2>2, WhoLeaves
<1>2. SearchInv /\ [SearchNext]_searchVars => [Alone]_searchVars
  BY <1>1
<1> QED
  BY <1>2, SearchInvHolds, PTL DEF SearchSpec, FailedSourceLeftAlone

\* _gate: two requests to one source are the minimal interval apart, unless the
\* later one already slept at the gate when the earlier one left.
THEOREM RequestsAreSpaced ==
    SearchSpec => RequestsSpaced
<1> DEFINE Spaced == \A c \in Calls :
                       Leaves(c) /\ fresh[Source(c)] > 0 => search[c].overtaken
<1>1. ASSUME SearchInv, [SearchNext]_searchVars PROVE Spaced
  <2> SUFFICES ASSUME NEW c \in Calls, Leaves(c), fresh[Source(c)] > 0
               PROVE  search[c].overtaken
    OBVIOUS
  <2>1. CASE search[c].pc = "try" /\ ~(rest[Source(c)] > 0)
    BY <1>1, <2>1 DEF SearchInv, Timers
  <2>2. CASE search[c].pc = "sleep" /\ search[c].wait = 0
    <3>1. /\ ~search[c].overtaken => fresh[Source(c)] <= 0
          /\ Source(c) \in Sources
      BY <1>1, <2>2, BusyCall DEF SearchInv, AtGate, Source, Busy
    <3>2. fresh[Source(c)] \in Nat
      BY <1>1, <3>1 DEF SearchInv, Timers
    <3> QED
      BY <3>1, <3>2
  <2> QED
    BY <1>1, <2>1, <2>2, WhoLeaves
<1>2. SearchInv /\ [SearchNext]_searchVars => [Spaced]_searchVars
  BY <1>1
<1> QED
  BY <1>2, SearchInvHolds, PTL DEF SearchSpec, RequestsSpaced
=============================================================================
