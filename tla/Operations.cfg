SPECIFICATION OpsSpec
CONSTANTS
    Topics = {"calendar", "alerts", "config", "pins", "boot", "telemetry"}
    Length <- CommonThenLeap
    Starts <- MonthEnds
    Horizon = 14
    Reporters = {"health", "request"}
    Providers = {"openrouter"}
    ProbeAnswers = {"429", "low balance"}
    Recipients = {"ops"}
    QuietTicks = 1
    MaxClock = 2
    MaxIncidents = 2
    Void = Void
    FieldValues = {1, 2}
    TopVersion = 3
    MaxEdits = 2
    MaxHours = 1
    MaxMoves = 4
    MinOccurrences = 2
    MinSpan = 1
    NoDoc = NoDoc
    Hosts = {"cz", "api"}
    Pins = {"ye1", "ye2"}
    RepublishAt = 1
    WarnAt = 2
    Validity = 3
    OperatorDays = {3}
    MaxDays = 1
    MaxVersions = 2
    MaxRotations = 1
    NoCheck = NoCheck
    Apps = {"shouldersurf"}
    Owner = "shouldersurf"
    MeetingIds = {"m1"}
    Cuts = {4, 7}
    MaxBoots = 2
    MaxUploads = 3
    MaxUpsets = 2
    NoRecord = NoRecord
    Recordings = {"m1", "m2"}
    Copies = {"h1", "h2"}
    RawDays = 1
    Lookback = 3
    LastDay = 3
    MaxRestarts = 2
    MaxLosses = 1
    NoMeeting = NoMeeting
CHECK_DEADLOCK FALSE
INVARIANT CalendarHolds
INVARIANT MailedOncePerTrouble
INVARIANT ServedFaithfully
INVARIANT PinsHonest
INVARIANT StoreKept
PROPERTY ResetDateKept
