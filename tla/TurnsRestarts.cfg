SPECIFICATION FairSpec
CONSTANTS
    Requests = {r1, r2}
    Kinds <- AllKinds
    MaxRestarts = 2
    None = None
CHECK_DEADLOCK FALSE
INVARIANT RunningIsHonest
PROPERTY IdHeals
