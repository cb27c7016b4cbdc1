\* One worker slot and an operator: crashes and expired locks within maxStalledCount,
\* lost queue replies, redeliveries, pauses and replays.
CONSTANTS
    m1 = m1
    m2 = m2
    m3 = m3
    Messages = {m1}
    Workers = {w1}
    Requests = {q1}
    Admins = {a1}
    Contact <- Anonymous
    NoContact = NoContact
    Spam = {}
    Unparseable = {}
    Explicit = {}
    None = None
    Attempts = 2
    MaxStalled = 2
    MaxReplays = 1
    MaxDeliveries = 1
    MaxStops = 2
    MaxInserts = 2
    Faults = {"queue", "flap", "stall", "crash"}
SPECIFICATION FairSpec
INVARIANTS
    NoStrandedRow
PROPERTIES
    Settles
