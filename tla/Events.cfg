\* Two runs that may overlap, the first with parallel emitters, two streams of
\* two tenants that share one slot, kills, failed seeds and resumes.
SPECIFICATION FairSpec
CONSTANTS
    s1 = s1
    a = a
    b = b
    x1 = x1
    x2 = x2
    q1 = q1
    Runs = {x1, x2}
    Emitters = {p1, p2, q1}
    RunOf <- LastAlone
    Streams = {s1, s2}
    Tenants = {a, b}
    TenantOf <- OneEach
    PerTenant = 1
    Total = 1
    FreshEngine = TRUE
    MaxPolls = 2
    MaxSeq = 2
    MaxRuns = 2
INVARIANTS NumbersNeverCollide NewEventsAreVisible OnlyLateEventsMissed SlotsMatchStreams
PROPERTY StreamsEnd
CHECK_DEADLOCK FALSE
