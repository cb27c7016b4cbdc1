\* Two worker slots on two messages of one person and one piece of spam; phases and the
\* acknowledgement of the write that settles a row may be lost; the vacancy closes and reopens.
CONSTANTS
    m1 = m1
    m2 = m2
    m3 = m3
    Messages = {m1, m2, m3}
    Workers = {w1, w2}
    Requests = {q1}
    Admins = {}
    Contact <- OnePerson
    NoContact = NoContact
    Spam = {m3}
    Unparseable = {}
    Explicit = {}
    None = None
    Attempts = 2
    MaxStalled = 2
    MaxReplays = 0
    MaxDeliveries = 1
    MaxStops = 0
    MaxInserts = 2
    Faults = {"reply", "close"}
SYMMETRY SlotsAndMails
SPECIFICATION Spec
INVARIANTS
    TypeOK
    TurnedAwayHasNoCandidate
    UnscoredIsUnfinished
\* The system stops when all mail is settled.
CHECK_DEADLOCK FALSE
