SPECIFICATION Spec
CONSTANTS
    Apps = {ss, n400}
    Strict = {n400}
    AppleIds = {x}
    Installs = {i}
    MaxIds = 2
    MaxSessions = 3
    MaxCalls = 2
    Workers = {w1, w2}
    None = None
    People = {"ann", "bob"}
    Devices = {"d1", "d2"}
    AdDevices = {"d1"}
    Codes = {"c1", "c2"}
    Resolvers = {"q1", "q2"}
    Campaigns <- MCCampaigns
    Features = {"chat", "search"}
    Mails <- MCMails
    MaxAttempts = 2
    MaxTokens = 1
    MaxShown = 2
    MaxRestarts = 1
    Horizon = 5
    Ttl = 3
    StalePending = 1
    Null = Null
SYMMETRY MCSymmetry
CHECK_DEADLOCK FALSE
INVARIANT SignInHolds
INVARIANT MoneyMoves
INVARIANT OutreachKept
PROPERTY OutreachSteps
