\* Two calls that run at once, again and again, over all sources that
\* need no key; one that does is asked for by name.
SPECIFICATION SearchSpec
CONSTANTS
    Calls = {c1, c2}
    Modes = {"auto", "bing", "bocha", "mock"}
    BochaKey = FALSE
    Cooldown = 2
    NetCooldown = 1
    MinInterval = 1
    MaxSearchRetries = 1
INVARIANTS FailedAutoAskedAll
PROPERTIES FailedSourceLeftAlone RequestsSpaced
CHECK_DEADLOCK FALSE
