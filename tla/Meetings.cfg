SPECIFICATION MCSpec
CONSTANTS
    Topics = {"shares", "meetings", "translations", "memory", "digest"}
    ShareIds = {i1, i2}
    Handlers = {h1, h2}
    DayCap = 1
    ExpiryDays = 1
    MaxShareDays = 1
    MaxCrashes = 1
    NoShare = NoShare
    Posts = {p1, p2}
    Job = job
    MeterLimit = 1
    MaxCaptures = 2
    MaxBuilds = 2
    MaxBroken = 1
    NoBuild = NoBuild
    Translators = {x1, x2}
    TranslationGroups = {"g1", "g2"}
    TranslationLimits <- MCLimits
    MaxTranslations = 3
    NoTranslation = NoTranslation
    Callers = {c1, c2}
    Plans <- MCPlans
    FreeQuota = 1
    MaxCalls = 3
    MaxPeriods = 2
    NoCall = NoCall
    Readers = {r1, r2}
    DigestApps = {"ss", "tr"}
    DigestKeys = {"home", "project", "meeting"}
    ProjectKeys = {"project"}
    MaxStaleDays = 1
    MaxEntries = 2
    MaxDigestDays = 3
    MaxReads = 4
    NoEntry = NoEntry
SYMMETRY MCSymmetry
 
INVARIANT MeetingsHonest
INVARIANT TranslationsPaid
INVARIANT MemoryKept
INVARIANT DigestKept
PROPERTY ReportPromise
CHECK_DEADLOCK FALSE
