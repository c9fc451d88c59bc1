SPECIFICATION Spec
CONSTANTS
    Requests = {r1, r2}
    Kinds = {"chat", "report", "translation"}
    TierLimit = 2
    AnonymousFree = FALSE
    AnonymousCapped = FALSE
    CaptionsCleanup = FALSE
    Anchored = TRUE
    BootPricing = {FALSE}
    Tolerance = 1
    Estimates = {1}
    Slack = 1
    MaxCost = 2
    MaxSubcalls = 1
    Period = 2
    MaxTime = 3
    MaxRenewals = 1
    Sweeper = Sweeper
    None = None
SYMMETRY Symmetry
INVARIANT TypeOK
INVARIANT OverspendBounded
PROPERTY ResetOncePerPeriod
