\* A task submitted in either mode, with and without approval, with a kill.
SPECIFICATION FairSpec
CONSTANTS
    MaxSteps = 5
    MaxTokens = 2
    Costs <- FreeOrOne
    HasCheapModel = TRUE
    DowngradeAfter = 2
    MaxModeSwitches = 2
    MaxBatches = 3
    Modes <- BothModes
    Approvals = {TRUE, FALSE}
    MaxStops = 1
INVARIANTS ModeSwitchesBounded OneDecisionOverBudget NothingSkipped OverOnlyFinishes EveryRoundApproved
PROPERTIES DoneOnlyAfterSuccess TaskComesToRest
CHECK_DEADLOCK FALSE
