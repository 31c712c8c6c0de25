----------------------------- MODULE Admission -----------------------------
(***************************************************************************)
(* Admission of new tasks (POST /api/tasks) to the daily limits: the order *)
(* insert - count - roll back of create_task and _enforce_daily_quotas     *)
(* (app/api/routes_tasks.py), and the aggregates they decide by            *)
(* (app/storage/repository.py).                                            *)
(*                                                                         *)
(* Every database access is a step, so the handlers may run in one process *)
(* or in several.  A request is also the task it creates.  What the worker *)
(* does to a task is reduced to what the aggregates see: it ends with some *)
(* tokens used, maybe more than its own limit, and it may be resumed.  (A limit of 0 switches its  *)
(* layer off; here all layers are on.  The limits per minute come before   *)
(* all this and are left out.)                                             *)
(***************************************************************************)
EXTENDS Naturals, FiniteSets, Functions

CONSTANTS
    Reqs, Tenants,
    TenantOf,      \* the tenant of each request
    TenantLimit,   \* settings.tenant_daily_task_limit (L2b)
    GlobalLimit,   \* settings.global_daily_task_limit (L3)
    Quota,         \* daily_token_quota of a tenant (L4)
    MaxTokens,     \* max_tokens of a task
    MaxUsed,       \* bound: the tokens a task really uses
    LastDay        \* bound: the days

ASSUME AdmissionAssumption ==
    /\ IsFiniteSet(Reqs)
    /\ TenantOf \in [Reqs -> Tenants]
    /\ TenantLimit \in Nat \ {0}
    /\ GlobalLimit \in Nat \ {0}
    /\ Quota \in Nat \ {0}
    /\ MaxTokens \in Nat
    /\ MaxUsed \in Nat
    /\ LastDay \in Nat

VARIABLES
    today,
    pc,       \* where the handler of each request is
    since,    \* day_start of its checks
    sum,      \* usage["used"] as it was read
    row,      \* tasks: "absent", "active" (its tokens are reserved) or "over"
    created,  \* the day of created_at
    used,     \* tokens_used
    gaps      \* history: how the token quota was bypassed so far

handlers == <<pc, since, sum>>
rows == <<row, created, used>>
vars == <<today, handlers, rows, gaps>>

Days == 0..LastDay
PCs == {"inserting", "inserted", "countTenant", "countGlobal", "sumUsed",
        "sumReserved", "passed", "admitted", "rollback", "refused", "dead"}

TypeOK ==
    /\ today \in Days
    /\ pc \in [Reqs -> PCs]
    /\ since \in [Reqs -> Days]
    /\ sum \in [Reqs -> Nat]
    /\ row \in [Reqs -> {"absent", "active", "over"}]
    /\ created \in [Reqs -> Days]
    /\ used \in [Reqs -> Nat]
    /\ gaps \subseteq {"tornRead", "resumed"}

Init ==
    /\ today = 0
    /\ pc = [r \in Reqs |-> "inserting"]
    /\ since = [r \in Reqs |-> 0]
    /\ sum = [r \in Reqs |-> 0]
    /\ row = [r \in Reqs |-> "absent"]
    /\ created = [r \in Reqs |-> 0]
    /\ used = [r \in Reqs |-> 0]
    /\ gaps = {}

Midnight ==
    /\ today < LastDay
    /\ today' = today + 1
    /\ UNCHANGED <<handlers, rows, gaps>>

-----------------------------------------------------------------------------
(* create_task: the row first, then the checks.                            *)

Goto(r, where) == pc' = [pc EXCEPT ![r] = where]

InsertRow(r) ==
    /\ pc[r] = "inserting"
    /\ row' = [row EXCEPT ![r] = "active"]
    /\ created' = [created EXCEPT ![r] = today]
    /\ Goto(r, "inserted")
    /\ UNCHANGED <<today, since, sum, used, gaps>>

\* day_start_epoch(), once for all checks of this request
BeginChecks(r) ==
    /\ pc[r] = "inserted"
    /\ since' = [since EXCEPT ![r] = today]
    /\ Goto(r, "countTenant")
    /\ UNCHANGED <<today, sum, rows, gaps>>

\* created_at >= day_start: no upper end
Counted(r) == {q \in Reqs : row[q] # "absent" /\ created[q] >= since[r]}
CountedOfTenant(r) == {q \in Counted(r) : TenantOf[q] = TenantOf[r]}

Check(r, ok, where) == Goto(r, IF ok THEN where ELSE "rollback")

CountTenant(r) ==
    /\ pc[r] = "countTenant"
    /\ Check(r, Cardinality(CountedOfTenant(r)) <= TenantLimit, "countGlobal")
    /\ UNCHANGED <<today, since, sum, rows, gaps>>

\* Mutant: the row of the request itself is left out of the count.
CountGlobalOthers(r) ==
    /\ pc[r] = "countGlobal"
    /\ Check(r, Cardinality(Counted(r) \ {r}) <= GlobalLimit, "sumUsed")
    /\ UNCHANGED <<today, since, sum, rows, gaps>>

CountGlobal(r) ==
    /\ pc[r] = "countGlobal"
    /\ Check(r, Cardinality(Counted(r)) <= GlobalLimit, "sumUsed")
    /\ UNCHANGED <<today, since, sum, rows, gaps>>

\* tenant_token_usage: two statements, each sees its own state of the table.
SumUsed(r) ==
    /\ pc[r] = "sumUsed"
    /\ sum' = [sum EXCEPT ![r] = SumFunctionOnSet(used, CountedOfTenant(r))]
    /\ Goto(r, "sumReserved")
    /\ UNCHANGED <<today, since, rows, gaps>>

\* Mutant: the reservation of the request itself is left out.
SumReservedOthers(r) ==
    LET reserving == {q \in CountedOfTenant(r) : row[q] = "active" /\ q # r} IN
    /\ pc[r] = "sumReserved"
    /\ Check(r, sum[r] + MaxTokens * Cardinality(reserving) <= Quota, "passed")
    /\ sum' = [sum EXCEPT ![r] = 0]
    /\ UNCHANGED <<today, since, rows, gaps>>

SumReserved(r) ==
    LET reserving == {q \in CountedOfTenant(r) : row[q] = "active"} IN
    /\ pc[r] = "sumReserved"
    /\ Check(r, sum[r] + MaxTokens * Cardinality(reserving) <= Quota, "passed")
    /\ sum' = [sum EXCEPT ![r] = 0]
    /\ UNCHANGED <<today, since, rows, gaps>>

DeleteRow(r) ==
    /\ row' = [row EXCEPT ![r] = "absent"]
    /\ created' = [created EXCEPT ![r] = 0]
    /\ used' = [used EXCEPT ![r] = 0]

\* 429: delete_task takes the row back.
RollBack(r) ==
    /\ pc[r] = "rollback"
    /\ DeleteRow(r)
    /\ Goto(r, "refused")
    /\ UNCHANGED <<today, since, sum, gaps>>

\* queue.submit or run_task.delay
Submit(r) ==
    /\ pc[r] = "passed"
    /\ Goto(r, "admitted")
    /\ UNCHANGED <<today, since, sum, rows, gaps>>

\* A statement raises or the process dies: only HTTPException is rolled back.
HandlerDies(r) ==
    /\ pc[r] \in {"inserted", "countTenant", "countGlobal", "sumUsed", "sumReserved",
                  "rollback", "passed"}
    /\ sum' = [sum EXCEPT ![r] = 0]
    /\ Goto(r, "dead")
    /\ UNCHANGED <<today, since, rows, gaps>>

-----------------------------------------------------------------------------
(* What happens to the row of an admitted or abandoned task.               *)

Settled(r) == pc[r] \in {"admitted", "dead"}

\* The worker writes the final status and tokens_used; the sweep at the next
\* start does it for a row nobody submitted.  max_tokens is looked at before a
\* decision, and repairs, the compressor, the finisher and subagents add theirs
\* unasked, so a task may use more.  A check that has its first sum and not yet
\* its second sees this task in neither.
TaskEnds(r) ==
    /\ Settled(r)
    /\ row[r] = "active"
    /\ row' = [row EXCEPT ![r] = "over"]
    /\ \E n \in 0..MaxUsed : used' = [used EXCEPT ![r] = n]
    /\ gaps' = IF \E q \in Reqs : pc[q] = "sumReserved" /\ r \in CountedOfTenant(q)
               THEN gaps \cup {"tornRead"} ELSE gaps
    /\ UNCHANGED <<today, handlers, created>>

\* resume and approve: no check
TaskResumes(r) ==
    /\ Settled(r)
    /\ row[r] = "over"
    /\ row' = [row EXCEPT ![r] = "active"]
    /\ gaps' = gaps \cup {"resumed"}
    /\ UNCHANGED <<today, handlers, created, used>>

\* DELETE /api/tasks/{id}
TaskDeleted(r) ==
    /\ Settled(r)
    /\ row[r] = "over"
    /\ DeleteRow(r)
    /\ UNCHANGED <<today, handlers, gaps>>

-----------------------------------------------------------------------------

Handler(r) ==
    \/ InsertRow(r) \/ BeginChecks(r) \/ CountTenant(r) \/ CountGlobal(r)
    \/ SumUsed(r) \/ SumReserved(r) \/ RollBack(r) \/ Submit(r) \/ HandlerDies(r)

Next ==
    \/ Midnight
    \/ \E r \in Reqs : Handler(r) \/ TaskEnds(r) \/ TaskResumes(r) \/ TaskDeleted(r)

Spec == Init /\ [][Next]_vars

-----------------------------------------------------------------------------
(* Properties that hold.                                                   *)

\* The row is there, and it is of the day whose rows the checks count: a row
\* inserted before midnight and checked after it is counted for neither day.
CheckedFor(r, d) == row[r] # "absent" /\ created[r] = d /\ since[r] = d

Held ==
    {x \in Reqs \X Days : /\ pc[x[1]] \in {"sumUsed", "sumReserved", "passed", "admitted"}
                          /\ CheckedFor(x[1], x[2])}

Places == INSTANCE DailyQuota WITH Tasks <- Reqs, held <- Held

\* Whatever handlers interleave insert, count and roll back, the places of a
\* day are given out one at a time and never beyond the two daily limits.
ImplementsDailyQuota == Places!Spec

\* What a task is good for: its reservation, and once it is over what it used
\* of it.
Charge ==
    [r \in Reqs |-> IF row[r] = "active" \/ used[r] > MaxTokens THEN MaxTokens ELSE used[r]]

Charged(k, d) ==
    {r \in Reqs : /\ TenantOf[r] = k
                  /\ CheckedFor(r, d)
                  /\ pc[r] \in {"passed", "admitted"}}

\* The tokens that admitted tasks of a day have used or may still use exceed the
\* quota of the tenant by no more than what single tasks used beyond their own
\* max_tokens, unless a task ended between the two sums of a check (it is then in
\* neither) or was resumed (which is not checked at all).
TokensWithinQuota ==
    gaps = {} =>
        \A k \in Tenants, d \in Days : SumFunctionOnSet(Charge, Charged(k, d)) <= Quota
=============================================================================
