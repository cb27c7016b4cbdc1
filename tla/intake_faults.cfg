\* One worker slot and everything that can go wrong at once: lost writes, lost locks,
\* crashes of both processes, lost replies, concurrent redeliveries.
CONSTANTS
    m1 = m1
    m2 = m2
    m3 = m3
    Messages = {m1}
    Workers = {w1}
    Requests = {q1, q2}
    Admins = {a1}
    Contact <- Anonymous
    NoContact = NoContact
    Spam = {}
    Unparseable = {m1}
    Explicit = {m1}
    None = None
    Attempts = 1
    MaxStalled = 0
    MaxReplays = 1
    MaxDeliveries = 2
    MaxStops = 1
    MaxInserts = 2
    Faults = {"write", "read", "queue", "flap", "redeliver", "stall", "crash", "api"}
SYMMETRY Calls
SPECIFICATION Spec
INVARIANTS
    OneCandidatePerMessage
PROPERTIES
    KeepsLedger
    FinishedStaysFinished
