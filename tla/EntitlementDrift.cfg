CONSTANTS
    Users = {anon, apple}
    Anonymous = anon
    AppleUser = apple
    o1 = o1
    o2 = o2
    Otids = {o1, o2}
    Plan <- PlusAndPro
    Token <- BoughtByAnonymous
    Receipts <- SignedAndTrials
    NoticeTypes <- OnePerBranch
    Routes = {"verify", "sync", "assn", "sweep", "merge", "admin"}
    Faults = TRUE
    Workers = {w1}
    MaxCalls = 3
    MaxClock = 2
    None = None
SPECIFICATION FairSpec
CHECK_DEADLOCK FALSE
PROPERTY DriftFixed
