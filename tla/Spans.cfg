\* A task whose engine has a sink and a subagent's child without one, two runs
\* each, a buffer of three and a limit of two.
SPECIFICATION SpansSpec
CONSTANTS
    Tasks = {t1, kid}
    Sinkless = {kid}
    MaxPending = 3
    Limit = 2
    MaxSpanRuns = 2
    MaxSpans = 2
INVARIANTS SpansAccountedFor SpanLimit TreeShowsAll
CHECK_DEADLOCK FALSE
