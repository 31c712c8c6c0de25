\* A kill between the gate's checkpoint and the row.
SPECIFICATION Spec
CONSTANTS
    Tasks = {t1}
    Gated = {t1}
    ClientOps = {"resume", "approve", "reject", "cancel", "delete"}
    Ends = {"done", "failed", "canceled", "budget_exceeded"}
    Coros = {c1, c2}
    Reqs = {r1, r2}
    MaxConcurrent = 1
    MaxStarts = 1
    None = None
CHECK_DEADLOCK FALSE
INVARIANT PausedTaskIsApprovable
