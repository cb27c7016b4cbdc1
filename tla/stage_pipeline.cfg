\* One candidate, two jobs, any four requests, of which two may overlap or die half-way.
CONSTANTS
    Candidates = {c1}
    Jobs = {j1, j2}
    Tasks = {t1, t2}
    None = None
    Absent = Absent
    NStages = 2
    MaxEdits = 1
    MaxCalls = 4
    MayCrash = TRUE
SYMMETRY Alike
SPECIFICATION Spec
INVARIANTS
    TypeOK
    AssignedHasApplication
    OverrideStands
    OneAdvancePerStage
PROPERTIES
    SplitsAreKnown
    ForeignStagesAreCopied
    KeepsBoard
\* The bound on requests is used up.
CHECK_DEADLOCK FALSE
