\* Two requesting threads, two closers, two commands, both kinds of request,
\* duplicated and lost answers, broker errors.  A request() is a timedRequest
\* whose timeout never comes.
CONSTANTS
    t1 = t1
    t2 = t2
    c1 = c1
    c2 = c2
    Threads <- MCThreads
    Closers <- MCClosers
    Reader = reader
    MaxCommandId = 2
    MaxReplies = 2
    Kinds = {"timedRequest", "asyncRequest"}
    Replies = {"ok", "error"}
SPECIFICATION FairSpec
INVARIANTS
    TypeOK
    CompletedAtMostOnce
    NoLeakedRequest
    WaiterIsReachable
PROPERTIES
    NoRequestAfterError
    DisposeReleasesWaiters
    ImplementsService
\* A closed correlator takes no further step.
CHECK_DEADLOCK FALSE
