CONSTANTS
    Users = {anon, apple}
    Anonymous = anon
    AppleUser = apple
    o1 = o1
    o2 = o2
    Otids = {o1, o2}
    Plan <- PlusAndPro
    Token <- BoughtByAnonymous
    Receipts <- SignedAndRejected
    NoticeTypes <- MainTypes
    Routes = {"verify", "assn", "sweep", "merge"}
    Faults = FALSE
    Workers = {w1}
    MaxCalls = 4
    MaxClock = 3
    None = None
SPECIFICATION Spec
CHECK_DEADLOCK FALSE
INVARIANT PaidOnce
PROPERTY UsageTravels
PROPERTY PlansKept
