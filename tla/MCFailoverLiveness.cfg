\* Connections break, a URI comes or goes and forces a reconnect, a broker recovers
\* from exhaustion, while a request is sent and the transport closed.
CONSTANTS
    Kind <- OneRequest
    Target <- NoTargets
    Uris = {a, b}
    InitUris = {a}
    PriorityUri = b
    None = none
    Runner = runner
    StartupMaxReconnectAttempts = 2
    MaxReconnectAttempts = 1
    MaxConnections = 2
    MaxRequests = 1
    MaxCooldowns = 1
SPECIFICATION FairSpec
INVARIANTS
    HeldIsWritten
    ListenerKnows
PROPERTIES
    SendersReturn
    AnswerComes
    CloseReturns
\* Commands run out, and a closed or failed transport does nothing more.
CHECK_DEADLOCK FALSE
