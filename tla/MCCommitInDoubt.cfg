\* One message, received in a transaction; the connection is lost once, at any
\* moment of commit(), and the application may call commit() again.
CONSTANTS
    Modes = {"transacted"}
    Prefetch = 2
    RedeliveryLimits = {1}
    MaxMessages = 1
    MaxFailures = 1
    MaxRollbacks = 1
SPECIFICATION Spec
PROPERTIES
    RolledBackIsNotConsumed
\* The queue runs empty.
CHECK_DEADLOCK FALSE
