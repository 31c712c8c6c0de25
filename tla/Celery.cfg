\* Two workers, one task with up to two messages, every failure at any time.
SPECIFICATION FairSpec
CONSTANTS
    Tasks = {t1}
    Workers = {w1, w2}
    None = None
    Ends = {"done", "waiting_approval"}
    SoftLimit = 1
    TimeLimit = 2
    Margin = 1
    MaxMessages = 2
INVARIANT SweepSparesExecuting
PROPERTY OrphansAreSwept
CHECK_DEADLOCK FALSE
