\* Is a confirmed correction in the store when it is confirmed?
CONSTANTS
    None = None
    Unparsable = Unparsable
    Unreadable = Unreadable
    Dash = Dash
    c1 = c1
    c2 = c2
    tied = tied
    plain = plain
    r1 = r1
    r2 = r2
    h1 = h1
    h2 = h2
    Instances = {c1, c2}
    Chunks = {tied, plain}
    Page <- MCPage
    Sections <- MCSections
    Hits <- MCHits
    MaxPatches = 2
    Extractors = {r1, r2}
    TablesOn <- MCTablesOn
    Kpis = {"revenue"}
    Cells <- MCCells
    MaxRuns = 0
    MaxRaises = 0
    Batches <- MCBatches
    Analysts = {r1, r2}
    MaxSummarised = 0
    MaxPatternRuns = 2
    Fetchers = {r1, r2}
    Replies <- MCReplies
    Metrics = {"revenue", "eps"}
    Figures = {4900, 2000}
    Limit = 2
    MaxFetches = 0
    MaxBreaks = 1
    ChunksOf <- MCChunksOf
    SectionOf <- MCSectionOf
    SectionQuota <- MCSectionQuota
    ChunkWindow = 4
    Registry <- MCRegistry
    Answers <- MCDisclosures
    Steps = 2
    MaxIngestions = 0
    MaxSummaries = 0
    Quota <- MCQuota
    Budget = 7
    Supplies <- MCSupplies
    Matches <- MCMatches
    Categories <- MCCategories
    Reports <- MCReports
    Settings <- MCSettings
    Reviews <- MCReviews
    MaxAge = 2
    MaxReports = 0
    MaxSessions = 0
    MaxReviews = 0
    Hooks = {h1, h2}
    Inputs <- MCNoInputs
    Signalling = {"pytest"}
    LogLimit = 2
    Window = 1
    ThresholdPercent = 50
    MaxClosings = 0
    MaxFaults = 1
SYMMETRY Symmetry
SPECIFICATION SupportSpec
CHECK_DEADLOCK FALSE
PROPERTY
    CorrectionTakesEffect
