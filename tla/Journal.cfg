\* Two workers run a round of one call, with two kills and a deletion.
SPECIFICATION FairSpec
CONSTANTS
    k1 = k1
    Workers = {w1, w2}
    Calls = {c1}
    Keys = {k1}
    KeyOf <- SameKey
    MaxTools = 1
    MaxCrashes = 2
    MaxPurges = 1
INVARIANTS StartsAccountedFor ReplayIsGenuine ObserversAgree
PROPERTY RoundsEnd
CHECK_DEADLOCK FALSE
