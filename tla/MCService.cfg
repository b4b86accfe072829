\* One of four services: two instances that ingest, overlap, are killed and
\* fail; a comparison while documents change; reports and their audits; the
\* trends over them.  No symmetry: liveness properties are checked.
CONSTANTS
    i1 = i1
    i2 = i2
    report = report
    broken = broken
    q1 = q1
    q2 = q2
    other = other
    a1 = a1
    a2 = a2
    b1 = b1
    gone = gone
    Instances <- MCInstances
    Documents = {report, broken}
    PageChunks <- MCPageChunks
    Unreadable = {broken}
    NoDocument = NoDocument
    MaxRuns = 3
    MaxCrashes = 1
    MaxDbErrors = 1
    Blank = Blank
    Null = Null
    NoneText = NoneText
    NoSource = NoSource
    DiffDocuments = {q1, q2, other}
    Stock <- MCStock
    Chunks <- MCChunks
    DocumentOf <- MCDocumentOf
    Page <- MCPage
    Sections <- MCSections
    Labelings <- MCLabelings
    Answers <- MCAnswers
    MaxDiffs = 1
    MaxChanges = 1
    MaxErrors = 1
    None = None
    ClaimDocuments = {q1, q2}
    Batches <- PairsOfClaims
    MaxReports = 2
    NoDelta = NoDelta
    TrendDocuments = {q1, q2}
    Unknown = {gone}
    Period <- MCPeriod
    Responses <- MCResponses
    Requests <- MCRequests
    KpiLists = {{}, {"revenue", "debt"}}
    MaxSummaries = 2
    MaxTrends = 1
SPECIFICATION ServiceFairSpec
CHECK_DEADLOCK FALSE
INVARIANTS
    IngestionTypeOK
    CompletedIsIndexed
    ChunksTraceable
    RecordsTruthful
    ComparesIndexed
    DiffsSound
    GovernanceTypeOK
    ClaimsDisciplined
    CompleteMeansEvidenced
    PassedMeansEvidenced
    WarnsOfTrendsOnly
    DashboardsSound
    TrendsInOrder
PROPERTIES
    ImplementsLifecycle
    IngestionDecides
    DiffAnswered
