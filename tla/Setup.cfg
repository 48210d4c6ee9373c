SPECIFICATION SomeSpec
CONSTANTS
    Commands = {1, 2, 3}
    Pids = {p, q, r}
    Others = {mine, theirs}
    NoPid = NoPid
    None = None
INVARIANTS
    ServersAreFound
    PasswordsAgree
PROPERTIES
    OnlyServersAreSignalled
    
    OthersAreKept
SYMMETRY Symmetry
CHECK_DEADLOCK FALSE
