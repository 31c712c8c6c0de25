\* Three submissions of two tenants at the daily limits and the token quota,
\* over one midnight.
SPECIFICATION Spec
CONSTANTS
    a = a
    b = b
    r3 = r3
    Reqs = {r1, r2, r3}
    Tenants = {a, b}
    TenantOf <- LastIsB
    TenantLimit = 2
    GlobalLimit = 2
    Quota = 3
    MaxTokens = 2
    MaxUsed = 3
    LastDay = 1
SYMMETRY Symmetry
INVARIANT TokensWithinQuota
PROPERTY ImplementsDailyQuota
CHECK_DEADLOCK FALSE
