----------------------------- MODULE DailyQuota -----------------------------
(***************************************************************************)
(* What the daily limits of the API promise, and nothing of how: a tenant  *)
(* never holds more than TenantLimit places of a day, all tenants together *)
(* never more than GlobalLimit.  A request may always be turned away, and  *)
(* a place is given back when the task is deleted.                         *)
(***************************************************************************)
EXTENDS Naturals, FiniteSets

CONSTANTS
    Tasks,
    TenantOf,     \* the tenant of each task
    Days,
    TenantLimit,  \* settings.tenant_daily_task_limit
    GlobalLimit   \* settings.global_daily_task_limit

VARIABLE held     \* the pairs <<task, day>> that hold a place

OfDay(d) == {t \in Tasks : <<t, d>> \in held}
OfTenant(t, d) == {u \in OfDay(d) : TenantOf[u] = TenantOf[t]}

Init == held = {}

Admit(t, d) ==
    /\ <<t, d>> \notin held
    /\ Cardinality(OfTenant(t, d)) < TenantLimit
    /\ Cardinality(OfDay(d)) < GlobalLimit
    /\ held' = held \cup {<<t, d>>}

Release(t, d) ==
    /\ <<t, d>> \in held
    /\ held' = held \ {<<t, d>>}

Next == \E t \in Tasks, d \in Days : Admit(t, d) \/ Release(t, d)

Spec == Init /\ [][Next]_held
=============================================================================
