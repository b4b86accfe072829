CONSTANTS
    None = None
    Torn = Torn
    Missing = Missing
    Empty = Empty
    p1 = p1
    p2 = p2
    Processes = {p1, p2}
    MaxHookCommands = 2
    MaxHookEdits = 2
    Contracts <- MCContracts
    Plans <- MCPlans
    Mandates <- MCMandates
    Terms <- MCTerms
    AgingDays = {15, 105}
    MaxAdoptionCommands = 2
    MaxFileEdits = 2
    SessionInputs <- MCInputs
    GovernanceDocs <- MCFiles
    CheckResults <- MCResults
    Calendar = {3, 8}
    MaxSignalRuns = 5
    ContractPlaces <- MCPlaces
    Requests <- MCRequests
    Answers <- MCAnswers
    MaxChanges = 1
    Versions = {"v1", "v2"}
    ReleaseDocuments = {"changelog"}
    SnapshotRequests <- MCPublications
    MaxSnapshots = 3
    LastSecond = 2
    MaxRewrites = 1
SPECIFICATION Spec
CHECK_DEADLOCK FALSE
INVARIANTS
    AdaptersSound
    AdoptionSound
    SignalSound
    TaskSound
    PublicationsSound
