\* The failure webhook never comes, or comes after the watchdog.
CONSTANTS
    Workers = {w1}
    Tasks = {t1}
    None = None
    MaxAttempts = 2
    Attempts = 2
    MaxStalled = 1
    MaxCalls = 3
    MaxStarts = 1
    MaxDefers = 1
    MaxChecks = 2
    MaxRings = 2
    MaxStops = 0
    Faults = {}
SPECIFICATION Spec
INVARIANT
    LostFailureIsRederived
CHECK_DEADLOCK FALSE
