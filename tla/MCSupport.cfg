\* Chunks classified and corrected by two instances; five readers of what is
\* stored; test evidence and its gate; the hooks of two agents that close
\* sessions.
CONSTANTS
    None = None
    Unparsable = Unparsable
    Unreadable = Unreadable
    Dash = Dash
    c1 = c1
    c2 = c2
    tied = tied
    plain = plain
    r1 = r1
    r2 = r2
    h1 = h1
    h2 = h2
    Instances = {c1, c2}
    Chunks = {tied, plain}
    Page <- MCPage
    Sections <- MCSections
    Hits <- MCHits
    MaxPatches = 2
    Extractors = {r1, r2}
    TablesOn <- MCTablesOn
    Kpis = {"revenue"}
    Cells <- MCCells
    MaxRuns = 2
    MaxRaises = 2
    Batches <- MCBatches
    Analysts = {r1, r2}
    MaxSummarised = 2
    MaxPatternRuns = 2
    Fetchers = {r1, r2}
    Replies <- MCReplies
    Metrics = {"revenue", "eps"}
    Figures = {4900, 2000}
    Limit = 2
    MaxFetches = 3
    MaxBreaks = 1
    ChunksOf <- MCChunksOf
    SectionOf <- MCSectionOf
    SectionQuota <- MCSectionQuota
    ChunkWindow = 4
    Registry <- MCRegistry
    Answers <- MCDisclosures
    Steps = 2
    MaxIngestions = 3
    MaxSummaries = 2
    Quota <- MCQuota
    Budget = 7
    Supplies <- MCSupplies
    Matches <- MCMatches
    Categories <- MCCategories
    Reports <- MCReports
    Settings <- MCSettings
    Reviews <- MCReviews
    MaxAge = 2
    MaxReports = 2
    MaxSessions = 2
    MaxReviews = 2
    Hooks = {h1, h2}
    Inputs <- MCInputs
    Signalling = {"pytest"}
    LogLimit = 2
    Window = 1
    ThresholdPercent = 50
    MaxClosings = 3
    MaxFaults = 1
SYMMETRY Symmetry
SPECIFICATION SupportSpec
CHECK_DEADLOCK FALSE
INVARIANTS
    SectionsSound
    ReportMatchesStore
    TablesSound
    PatternsSound
    ExternalSound
    PagesSound
    Apportioned
    GateSound
    TraceKept
    SessionSound
    AuditKept
PROPERTIES
    FiguresAreKept
    ComparesNewest
