\* A trend over two quarters whose summaries found something.
CONSTANTS
    i1 = i1
    i2 = i2
    report = report
    broken = broken
    q1 = q1
    q2 = q2
    other = other
    a1 = a1
    a2 = a2
    b1 = b1
    gone = gone
    Instances <- MCInstances
    Documents = {report, broken}
    PageChunks <- MCPageChunks
    Unreadable = {broken}
    NoDocument = NoDocument
    MaxRuns = 1
    MaxCrashes = 0
    MaxDbErrors = 0
    Blank = Blank
    Null = Null
    NoneText = NoneText
    NoSource = NoSource
    DiffDocuments = {q1, q2, other}
    Stock <- MCStock
    Chunks <- MCChunks
    DocumentOf <- MCDocumentOf
    Page <- MCPage
    Sections <- MCSections
    Labelings <- MCLabelings
    Answers <- MCAnswers
    MaxDiffs = 0
    MaxChanges = 0
    MaxErrors = 0
    None = None
    ClaimDocuments = {q1, q2}
    Batches <- PairsOfClaims
    MaxReports = 0
    NoDelta = NoDelta
    TrendDocuments = {q1, q2}
    Unknown = {gone}
    Period <- MCPeriod
    Responses <- MCResponses
    Requests <- MCRequests
    KpiLists = {{}, {"revenue", "debt"}}
    MaxSummaries = 2
    MaxTrends = 1
SPECIFICATION ServiceSpec
CHECK_DEADLOCK FALSE
INVARIANT
    TrendServed
