\* Artifacts of one escalation, and the gate that reads them.
CONSTANTS
    None = None
    Torn = Torn
    Processes = {p1, p2}
    Unparsable = Unparsable
    Unavailable = Unavailable
    NotObject = NotObject
    fix = fix
    tests = tests
    secret = secret
    docs = docs
    Escalations = {"e1", "e2"}
    Copies = {"copy"}
    Payloads <- MCPayloads
    Evidence <- MCEvidence
    Closeouts <- MCCloseouts
    MaxWrites = 1
    MaxEdits = 0
    HandEntries <- MCEntries
    LongTerms <- MCLongTerms
    RuntimeCloseouts <- MCRuntimeCloseouts
    Summaries <- MCSummaries
    Cutoff = 2
    MaxDay = 2
    MaxRecords = 0
    MaxMemoryEdits = 0
    Reports <- MCReports
    MaxTriages = 0
    MaxReviews = 0
    Tests = {"trust1", "handoff1", "core1"}
    Hides <- MCHides
    Registers <- MCRegisters
    LastDay = 3
    MaxRegisterEdits = 0
    Document = "report"
    Sets <- MCSets
    MaxHarnessRuns = 0
    MaxClaimEdits = 0
SPECIFICATION RecordsSpec
CHECK_DEADLOCK FALSE
INVARIANT
    OnlyConfirmedUnblocks
