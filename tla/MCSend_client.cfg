SPECIFICATION Spec
CONSTANTS
    Nil = Nil
    Absent = Absent
    Torn = Torn
    Unfetched = Unfetched
    NoRange = NoRange
    OpenEnd = OpenEnd
    Width = 5
    ChunkSize = 2
    Offers <- MCOffers
    Versions <- MCVersions
    PutNames <- MCPutNames
    Headers <- MCHeaders
    Plans <- MCPlans
    Procs = {p1, p2}
    p1 = p1
    p2 = p2
    Shared = Shared
    HistoryLimit = 2
    IndexLimit = 1
    MaxMade = 3
    Elsewhere <- MCElsewhere
CHECK_DEADLOCK FALSE
INVARIANTS SavedIsRequested UploadDecrypts AnswersFit 
PROPERTIES DeletesOnlyAsked
