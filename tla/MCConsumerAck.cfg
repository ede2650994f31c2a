\* Every acknowledge mode; the connection is lost once, at any moment, and the
\* application rolls back or recovers once.
CONSTANTS
    Modes = {"auto", "client", "individual", "transacted"}
    Prefetch = 2
    RedeliveryLimits = {0, 1}
    MaxMessages = 2
    MaxFailures = 1
    MaxRollbacks = 1
SPECIFICATION FairSpec
INVARIANTS
    TypeOK
    ConsumedIsSettled
    NotGivenAgain
    CommitConsumesUnlessCaught
PROPERTIES
    PoisonIsJustified
    EventuallySettled
\* The queue runs empty.
CHECK_DEADLOCK FALSE
