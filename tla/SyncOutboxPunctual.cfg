SPECIFICATION Spec
CONSTANTS
    j1 = j1
    j2 = j2
    api = api
    cli = cli
    Jobs = {j1, j2}
    Procs = {api, cli}
    Api = api
    WorkerOn = {api, cli}
    EagerJobs = {j1}
    Unhandled = {j2}
    MaxAttempts = 3
    BackoffCap = 2
    StaleAfter = 3
    BatchSize = 2
    MaxFaults = 1
    MaxReopens = 1
    Punctual = TRUE
INVARIANTS
    AtMostOneHolder
    HolderIsCurrent
    RetriesAreSpaced
PROPERTIES
    ImplementsSyncIntent
CHECK_DEADLOCK FALSE
