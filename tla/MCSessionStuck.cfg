\* A message put aside by stop() while it was being dispatched.
CONSTANTS
    k1 = k1
    k2 = k2
    Consumers = {k1}
    Dest <- DestOne
    LateListeners = {}
    Controllers = {app}
    IO = io
    None = none
    AsyncModes = {TRUE}
    CheckForDuplicates = TRUE
    MaxMessages = 1
    MaxRunners = 3
    MaxCalls = 3
SPECIFICATION FairSpec
PROPERTIES
    NothingStuck
\* The application may stop calling and the broker stop sending.
CHECK_DEADLOCK FALSE
