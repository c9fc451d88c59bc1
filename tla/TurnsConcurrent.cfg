SPECIFICATION Spec
CONSTANTS
    Requests = {r1, r2, r3}
    Kinds <- EachEnding
    MaxRestarts = 0
    None = None
SYMMETRY Interchangeable
CHECK_DEADLOCK FALSE
INVARIANT TurnOnce
INVARIANT IdReleased
PROPERTY AnswerKept
