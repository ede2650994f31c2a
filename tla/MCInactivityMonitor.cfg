\* One connection, with every thread of the monitor.
SPECIFICATION FairSpec
INVARIANTS
    TypeOK
    BusyReaderSpared
PROPERTIES
    LossReported
    CloseReturns
\* A closed connection does nothing more.
CHECK_DEADLOCK FALSE
