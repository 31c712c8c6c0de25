\* One gated task, every request the API has, two of them in flight, failing
\* calls to the database, a restart.
SPECIFICATION FairSpec
CONSTANTS
    Tasks = {t1}
    Gated = {t1}
    ClientOps = {"resume", "approve", "reject", "cancel", "delete"}
    Ends = {"done", "failed", "canceled", "budget_exceeded"}
    Coros = {c1, c2}
    Reqs = {r1, r2}
    MaxConcurrent = 1
    MaxStarts = 1
    None = None
INVARIANTS OneExecutorPerTask HandleCoversLive ActiveRowHasDriver RowAgreesWithCheckpoint
PROPERTIES DeletedStaysDeleted ActiveTasksSettle
CHECK_DEADLOCK FALSE
