CONSTANTS
    None = None
    Torn = Torn
    Processes = {p1, p2}
    Unparsable = Unparsable
    Unavailable = Unavailable
    NotObject = NotObject
    fix = fix
    tests = tests
    secret = secret
    docs = docs
    Escalations = {"e1", "e2"}
    Copies = {"copy"}
    Payloads <- MCPayloads
    Evidence <- MCEvidence
    Closeouts <- MCCloseouts
    MaxWrites = 2
    MaxEdits = 1
    HandEntries <- MCEntries
    LongTerms <- MCLongTerms
    RuntimeCloseouts <- MCRuntimeCloseouts
    Summaries <- MCSummaries
    Cutoff = 2
    MaxDay = 2
    MaxRecords = 2
    MaxMemoryEdits = 2
    Reports <- MCReports
    MaxTriages = 3
    MaxReviews = 2
    Tests = {"trust1", "handoff1", "core1"}
    Hides <- MCHides
    Registers <- MCRegisters
    LastDay = 3
    MaxRegisterEdits = 2
    Document = "report"
    Sets <- MCSets
    MaxHarnessRuns = 2
    MaxClaimEdits = 1
SYMMETRY Symmetry
SPECIFICATION RecordsSpec
CHECK_DEADLOCK FALSE
INVARIANTS
    EscalationSound
    MeasurementSound
    StoresSound
    MemorySound
    TriageSound
    ExclusionsSound
