\* One consumer, whose dispatching thread has a message in hand when the
\* connection is lost.
CONSTANTS
    NumConsumers = 1
    MaxInterruptions = 1
    MaxReaders = 2
SPECIFICATION FairSpec
PROPERTIES
    Resumes
\* A connection whose consumers stay without prefetch has nothing to do.
CHECK_DEADLOCK FALSE
