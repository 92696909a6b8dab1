CONSTANTS
    NULL = NULL
    Documents <- SlowDocuments
    OtherFiles <- NoFiles
    Behind <- MCBehind
    MallocFails = FALSE
    LengthMax = 2
    Rows = 2
    Columns = 5
    Answers <- MCAnswers
    RandomColours <- MCColours
    VisitBound = 2
SPECIFICATION FairSpec
INVARIANT SleepsBetweenSequences
