\* Every kind of call, with the default limits.
SPECIFICATION FairSpec
CONSTANTS
    MaxSelfheal = 3
    MaxRetries = 2
INVARIANTS HandlerRunsBounded FatalStaysFatal AtMostOneLateRun
PROPERTY CallEnds
CHECK_DEADLOCK FALSE
