\* A listener that is set late: redispatch() keeps the order, the
\* queue is emptied and every call returns.
CONSTANTS
    k1 = k1
    k2 = k2
    Consumers = {k1}
    Dest <- DestOne
    LateListeners = {k1}
    Controllers = {app}
    IO = io
    None = none
    AsyncModes = {TRUE}
    CheckForDuplicates = FALSE
    MaxMessages = 3
    MaxRunners = 3
    MaxCalls = 4
SPECIFICATION FairSpec
INVARIANTS
    InOrderButForStop
PROPERTIES
    QueueDrains
    CallsReturn
\* The application may stop calling and the broker stop sending.
CHECK_DEADLOCK FALSE
