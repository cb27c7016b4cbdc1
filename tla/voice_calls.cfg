\* One booking and its retries, two requests at a time, which may overlap as they re-arm a
\* row; Redis may refuse a booking, a lock may
\* expire or the worker die once.
CONSTANTS
    Workers = {w1}
    Tasks = {t1, t2}
    None = None
    MaxAttempts = 2
    Attempts = 2
    MaxStalled = 1
    MaxCalls = 3
    MaxStarts = 1
    MaxDefers = 1
    MaxChecks = 2
    MaxRings = 2
    MaxStops = 1
    Faults = {"book", "overlap", "stall", "crash"}
SYMMETRY Requests
SPECIFICATION Spec
INVARIANTS
    TypeOK
    NoStrandedBooking
    OneNextAttempt
    RetryAfterNoAnswer
PROPERTIES
    KeepsBook
    ChecksGoOn
\* The system stops when every call has ended.
CHECK_DEADLOCK FALSE
