\* A cancel during the pause before a retry.
SPECIFICATION FairSpec
CONSTANTS
    MaxSelfheal = 0
    MaxRetries = 1
PROPERTY CancelEndsThePause
CHECK_DEADLOCK FALSE
