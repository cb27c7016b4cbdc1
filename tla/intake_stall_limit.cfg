\* The worker dies once more than maxStalledCount allows.
CONSTANTS
    m1 = m1
    m2 = m2
    m3 = m3
    Messages = {m1}
    Workers = {w1}
    Requests = {q1}
    Admins = {}
    Contact <- Anonymous
    NoContact = NoContact
    Spam = {}
    Unparseable = {}
    Explicit = {}
    None = None
    Attempts = 2
    MaxStalled = 2
    MaxReplays = 0
    MaxDeliveries = 1
    MaxStops = 3
    MaxInserts = 2
    Faults = {"crash"}
SPECIFICATION Spec
INVARIANT
    NoStrandedRow
CHECK_DEADLOCK FALSE
