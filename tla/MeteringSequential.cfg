SPECIFICATION FairSpec
CONSTANTS
    Requests = {r1}
    Kinds = {"chat", "report"}
    TierLimit = 2
    AnonymousFree = FALSE
    AnonymousCapped = FALSE
    CaptionsCleanup = FALSE
    Anchored = TRUE
    BootPricing = {TRUE}
    Tolerance = 1
    Estimates = {1, 3}
    Slack = 0
    MaxCost = 3
    MaxSubcalls = 0
    Period = 2
    MaxTime = 5
    MaxRenewals = 1
    Sweeper = Sweeper
    None = None
INVARIANT WithinOverageBand
PROPERTY AllowanceRenewed
