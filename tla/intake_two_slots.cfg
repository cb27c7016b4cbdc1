\* Two worker slots and a lock that expires under a running one.
CONSTANTS
    m1 = m1
    m2 = m2
    m3 = m3
    Messages = {m1}
    Workers = {w1, w2}
    Requests = {q1}
    Admins = {}
    Contact <- Anonymous
    NoContact = NoContact
    Spam = {}
    Unparseable = {}
    Explicit = {}
    None = None
    Attempts = 2
    MaxStalled = 2
    MaxReplays = 0
    MaxDeliveries = 1
    MaxStops = 1
    MaxInserts = 2
    Faults = {"stall"}
SPECIFICATION Spec
PROPERTY
    FinishedStaysFinished
CHECK_DEADLOCK FALSE
