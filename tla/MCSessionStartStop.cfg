\* Two consumers with listeners, one application thread that starts, stops and
\* starts the connection while messages arrive.
CONSTANTS
    k1 = k1
    k2 = k2
    Consumers = {k1, k2}
    Dest <- DestTwo
    LateListeners = {}
    Controllers = {app}
    IO = io
    None = none
    AsyncModes = {TRUE, FALSE}
    CheckForDuplicates = TRUE
    MaxMessages = 4
    MaxRunners = 3
    MaxCalls = 5
SPECIFICATION Spec
INVARIANTS
    TypeOK
    InOnePlace
    InOrderButForStop
    NothingSuppressed
    SerialDispatch
    StopQuiesces
\* The application may stop calling and the broker stop sending.
CHECK_DEADLOCK FALSE
