\* One request at a time, every one of which succeeds or is refused.
CONSTANTS
    Candidates = {c1}
    Jobs = {j1, j2}
    Tasks = {t1}
    None = None
    Absent = Absent
    NStages = 2
    MaxEdits = 1
    MaxCalls = 4
    MayCrash = FALSE
SYMMETRY Alike
SPECIFICATION Spec
INVARIANT
    BoardAgrees
\* The bound on requests is used up.
CHECK_DEADLOCK FALSE
