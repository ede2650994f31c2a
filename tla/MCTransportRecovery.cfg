\* Two consumers; the connection is lost twice, at any moment.  A lost connection's
\* reader has left onCommand() before the next one delivers.
CONSTANTS
    NumConsumers = 2
    MaxInterruptions = 2
    MaxReaders = 1
SPECIFICATION FairSpec
INVARIANTS
    TypeOK
    OneConnection
PROPERTIES
    ResumesUnlessRaced
\* A connection whose consumers stay without prefetch has nothing to do.
CHECK_DEADLOCK FALSE
