SPECIFICATION FairSpec
CONSTANTS
    j1 = j1
    j2 = j2
    api = api
    cli = cli
    Jobs = {j1, j2}
    Procs = {api, cli}
    Api = api
    WorkerOn = {cli}
    EagerJobs = {j1}
    Unhandled = {}
    MaxAttempts = 2
    BackoffCap = 2
    StaleAfter = 1
    BatchSize = 2
    MaxFaults = 1
    MaxReopens = 1
    Punctual = FALSE
INVARIANTS
    DoneMeansApplied
    AttemptsAreEarned
PROPERTIES
    EventuallySettled
CHECK_DEADLOCK FALSE
