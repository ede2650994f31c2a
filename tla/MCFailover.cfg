\* A message, a tracked command and its removal across broken connections.
CONSTANTS
    Kind <- ReplayCommands
    Target <- ReplayTargets
    Uris = {a, b}
    InitUris = {a, b}
    PriorityUri = a
    None = none
    Runner = runner
    StartupMaxReconnectAttempts = 2
    MaxReconnectAttempts = 1
    MaxConnections = 2
    MaxRequests = 0
    MaxCooldowns = 0
SPECIFICATION Spec
INVARIANTS
    TypeOK
    RequestHeld
    HeldIsWritten
    SentOnce
    StateFirst
    NoNullFailure
\* Commands run out, and a closed or failed transport does nothing more.
CHECK_DEADLOCK FALSE
