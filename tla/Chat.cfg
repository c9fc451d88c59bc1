SPECIFICATION Spec
CONSTANTS
    Topics = {"offers", "gates", "interview", "route", "judge"}
    Requests = {r1, r2}
    Asks <- MCAsks
    Replies <- MCReplies
    SearchCap = 1
    GenCap = 1
    MaxUses = 1
    MaxOffers = 2
    MaxSends = 3
    Kinds = {"free", "automation", "tr", "flat", "anonymous"}
    Calls = {"q1", "q2"}
    ChatSessions = {"s1", "s2", Absent}
    Cases = {"c1", "c2"}
    Rpm = 2
    HourlyCap = 1
    TasteCap = 1
    TrCap <- MCTrCap
    Tolerance = 1
    SearchFee = 1
    FlatCap = 2
    PerApplication = 2
    PerInstall = 4
    PerIp = 3
    Daily = 3
    Carried = 1
    MaxEstimate = 2
    MaxOthers = 1
    MaxRequests = 3
    Days = 2
    Nil = Nil
    Absent = Absent
    Agendas <- MCAgendas
    FirstWrong = 2
    RetryWrong = 1
    MaxCalls = 3
    MaxChunks = 2
    MaxAlerts = 1
    Turns = {t1, t2, t3}
    Threshold = 2
    Cooldown = 2
    MaxTicks = 5
    NoField = NoField
    Nothing = Nothing
SYMMETRY MCSymmetry
CHECK_DEADLOCK FALSE
INVARIANT OffersHonoured
INVARIANT CountersBounded
INVARIANT GatesHold
INVARIANT InterviewHonest
INVARIANT SpokenStands
INVARIANT RoadKept
INVARIANT OutageBounded
