CONSTANTS
    NULL = NULL
    Documents <- MCDocuments
    OtherFiles <- MCOtherFiles
    Behind <- MCBehind
    MallocFails = TRUE
    LengthMax = 2
    Rows = 2
    Columns = 5
    Answers <- MCAnswers
    RandomColours <- MCColours
    VisitBound = 2
SPECIFICATION FairSpec
INVARIANTS TypeOK CountersAgree NothingLost DocumentsUnderstood ReadsInsideDocuments PlaysLiveList OneLedWalks FillsTheGrid SleepsBetweenSequences
PROPERTY MenuComesBack
