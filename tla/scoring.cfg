SPECIFICATION Spec
CONSTANTS
    Normal <- MCNormal
    One = 1200
    Grain = 2
    Jobs <- MCJobs
    Samples = {1, 2, 3}
    Answers <- MCAnswers
INVARIANTS
    TypeOK
    BetterNeverScoresLower
    SilenceNeverHelps
    LeftOutIsCapped
    MedianOfReal
