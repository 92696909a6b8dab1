CONSTANTS
    NULL = NULL
    Documents <- MCDocuments
    OtherFiles <- MCOtherFiles
    Behind <- MCBehind
    MallocFails = TRUE
    LengthMax = 2
    Rows = 2
    Columns = 5
    Answers <- MCAnswers
    RandomColours <- MCColours
    VisitBound = 2
SPECIFICATION FairSpec
INVARIANT ArrayForCaller
