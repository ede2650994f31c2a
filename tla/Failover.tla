------------------------------- MODULE Failover -------------------------------
(***************************************************************************)
(* FailoverTransport: commands keep going to the broker across broken      *)
(* connections.  oneway() waits for a connection, writes the command and   *)
(* keeps what has to be replayed in requestMap or in the state tracker;    *)
(* iterate(), on the task runner's thread, connects to one of the brokers, *)
(* restores the tracked state and replays requestMap.                      *)
(*                                                                         *)
(* Threads: one sender per command, the task runner, one reader per        *)
(* connection, and the application that stops and closes the transport.    *)
(* reconnectMutex is a variable: iterate() holds it across a connection    *)
(* attempt and oneway() across its retries; every other critical section   *)
(* is one step.  A connection is a number; a write to a broken one is      *)
(* either lost or throws.  The backup pool, updateURIs() and MessagePull   *)
(* with its cache are left out.                                            *)
(***************************************************************************)
EXTENDS Integers, Sequences, FiniteSets, SequencesExt

CONSTANTS
    Kind,            \* Kind[c]: what the command with id c is, see Kinds
    Target,          \* Target[c]: the tracked command that a RemoveInfo undoes
    Uris,            \* broker URIs
    InitUris,        \* the ones configured, the others may be added
    PriorityUri,     \* the pool's first URI
    None,            \* no URI, nobody
    Runner,          \* the task runner's thread
    StartupMaxReconnectAttempts,
    MaxReconnectAttempts,   \* -1: no limit
    MaxConnections,  \* bound: connections that succeed
    MaxRequests,     \* bound: calls of add(), removeURI(), reconnect()
    MaxCooldowns     \* bound: recoveries of exhausted brokers

Commands    == 1..Len(Kind)
Connections == 1..MaxConnections

\* info: tracked, answered (ConnectionInfo, SessionInfo, ConsumerInfo...);
\* request: answered, neither tracked nor a message; message: a message sent
\* synchronously; remove: RemoveInfo; ack: MessageAck, no answer; shutdown:
\* ShutdownInfo.  No command is part of a transaction and trackMessages is off.
Kinds == {"info", "request", "message", "remove", "ack", "shutdown"}

ASSUME FailoverAssumption ==
    /\ Kind \in Seq(Kinds)
    /\ \A c \in Commands : Kind[c] = "remove" => Target[c] \in Commands
    /\ InitUris \subseteq Uris /\ PriorityUri \in Uris
    /\ None \notin Uris \cup Commands /\ Runner \notin Commands \cup {None}
    /\ StartupMaxReconnectAttempts \in Nat \cup {-1}
    /\ MaxReconnectAttempts \in Nat \cup {-1}
    /\ MaxConnections \in Nat /\ MaxRequests \in Nat /\ MaxCooldowns \in Nat

Answered(c)  == Kind[c] \in {"info", "request", "message", "remove"}
IsTracked(c) == Kind[c] \in {"info", "remove"}

\* The counters stop here: nothing tells larger values apart.
CountCap ==
    1 + IF StartupMaxReconnectAttempts > MaxReconnectAttempts
          THEN StartupMaxReconnectAttempts ELSE MaxReconnectAttempts
Count(n) == IF n < CountCap THEN n + 1 ELSE n

VARIABLES
    \* FailoverTransportImpl
    started, closed, shutdown, connected,
    firstConnection, connectionFailure, doRebalance, connectFailures,
    failureCount,        \* BrokerState::failureCount of each URI
    uris,                \* the pool; a URI in use is not in it
    connectedTransport,  \* a connection, 0: null
    connectedURI,
    requestMap,
    mutex,               \* owner of reconnectMutex, None: free
    \* the state tracker
    tracked,
    \* the task runner
    rpc, pending, closing,
    tried,               \* iterate()'s failures
    failure,             \* is iterate()'s failure set
    transport, uri,      \* iterate()'s transport and uri
    todo,                \* what restoreTransport() has still to write
    \* the connections
    created, alive,
    dead,                \* connections on which a write has thrown
    disposed,            \* is its listener the disposedListener
    exception,           \* "none", "raised" by the reader, "handled"
    written,             \* history: commands written to it, in order
    \* senders, closer
    pc, closer,
    request,             \* reconnect() to come from add() or removeURI()
    requests, cooldowns,
    answered,            \* history: commands whose answer reached the listener
    told,                \* history: the last event the listener was told
    restored,            \* history: the state each connection starts with
    nullFailure          \* history: was a null connectionFailure dereferenced

ivars == <<started, closed, shutdown, connected, firstConnection, connectionFailure,
           doRebalance, connectFailures, failureCount>>
tvars == <<connectedTransport, connectedURI>>
rvars == <<rpc, tried, failure, transport, uri, todo>>
nvars == <<created, alive, dead, disposed, exception, written>>
cvars == <<closer, request, requests, cooldowns>>
svars == <<pc, cvars>>
hvars == <<answered, told, restored, nullFailure>>
vars  == <<ivars, uris, tvars, requestMap, mutex, tracked, rvars, pending, closing, nvars,
           svars, hvars>>

-----------------------------------------------------------------------------
\* start() has been called: the runner was woken by reconnect(false).
Init ==
    /\ started = TRUE /\ closed = FALSE /\ shutdown = FALSE /\ connected = FALSE
    /\ firstConnection = TRUE /\ connectionFailure = FALSE
    /\ doRebalance = FALSE /\ connectFailures = 0
    /\ failureCount = [u \in Uris |-> 0]
    /\ uris = InitUris
    /\ connectedTransport = 0 /\ connectedURI = None
    /\ requestMap = {} /\ mutex = None /\ tracked = {}
    /\ rpc = "wait" /\ pending = TRUE /\ closing = {}
    /\ tried = {} /\ failure = FALSE /\ transport = 0 /\ uri = None /\ todo = {}
    /\ created = 0
    /\ alive = [n \in Connections |-> FALSE] /\ dead = {}
    /\ disposed = [n \in Connections |-> FALSE]
    /\ exception = [n \in Connections |-> "none"]
    /\ written = [n \in Connections |-> <<>>]
    /\ pc = [c \in Commands |-> "idle"]
    /\ closer = "open" /\ request = "none" /\ requests = 0 /\ cooldowns = 0
    /\ answered = {} /\ told = "down" /\ nullFailure = FALSE
    /\ restored = [n \in Connections |-> {}]

-----------------------------------------------------------------------------
(* Predicates of FailoverTransportImpl *)

ReconnectAttemptLimit ==
    IF firstConnection /\ StartupMaxReconnectAttempts # -1
      THEN StartupMaxReconnectAttempts ELSE MaxReconnectAttempts

CanReconnect  == started /\ ReconnectAttemptLimit # 0
WillReconnect == firstConnection \/ ReconnectAttemptLimit # 0
IsClosedOrFailed == closed \/ connectionFailure
IsConnectionStateValid == connectedTransport # 0 /\ ~doRebalance

IsUriExhausted(u) ==
    ReconnectAttemptLimit >= 0 /\ failureCount[u] >= ReconnectAttemptLimit

AllUrisExhausted(us) == ReconnectAttemptLimit >= 0 /\ \A u \in us : IsUriExhausted(u)

IsPending ==
    /\ ~IsConnectionStateValid /\ started /\ ~IsClosedOrFailed
    /\ \/ firstConnection /\ connectFailures = 0
       \/ ReconnectAttemptLimit = -1
       \/ connectFailures <= ReconnectAttemptLimit

Least(S) == CHOOSE c \in S : \A d \in S : c <= d

-----------------------------------------------------------------------------
(* handleTransportFailure, for a sender whose write failed and for a reader *)

\* Mutant of Abandon: the URI is put back after it was reset.
AbandonResetFirst ==
    /\ connectedTransport' = 0 /\ connectedURI' = None
    /\ disposed' = [disposed EXCEPT ![connectedTransport] = TRUE]
    /\ closing' = closing \cup {connectedTransport}
    /\ uris' = uris \cup {None}

\* Take the connected transport out of use: silence it and hand it to the
\* close task; its URI goes back to the pool.
Abandon ==
    /\ connectedTransport' = 0 /\ connectedURI' = None
    /\ disposed' = [disposed EXCEPT ![connectedTransport] = TRUE]
    /\ closing' = closing \cup {connectedTransport}
    /\ uris' = uris \cup {connectedURI}

\* Mutant of HandleTransportFailure: the listener is not told.
HandleTransportFailureSilent ==
    IF shutdown \/ connectedTransport = 0
      THEN UNCHANGED <<tvars, disposed, closing, uris, connected, pending, told,
                       connectionFailure>>
      ELSE /\ Abandon
           /\ connected' = FALSE
           /\ pending' = TRUE
           /\ connectionFailure' = (connectionFailure \/ ~CanReconnect)
           /\ UNCHANGED told

\* Mutant of HandleTransportFailure: the broken transport stays in place.
HandleTransportFailureKeeps ==
    /\ connected' = FALSE
    /\ pending' = TRUE
    /\ UNCHANGED <<tvars, disposed, closing, uris, told, connectionFailure>>

\* Mutant of HandleTransportFailure: the task runner is not woken up.
HandleTransportFailureNoWakeup ==
    IF shutdown \/ connectedTransport = 0
      THEN UNCHANGED <<tvars, disposed, closing, uris, connected, pending, told,
                       connectionFailure>>
      ELSE /\ Abandon
           /\ connected' = FALSE
           /\ connectionFailure' = (connectionFailure \/ ~CanReconnect)
           /\ told' = IF CanReconnect THEN "down" ELSE "failed"
           /\ UNCHANGED pending

\* It takes down whatever is connected now, and does nothing once ShutdownInfo
\* was sent.  The listener hears transportInterrupted(), or onException() if
\* there will be no reconnect.
HandleTransportFailure ==
    IF shutdown \/ connectedTransport = 0
      THEN UNCHANGED <<tvars, disposed, closing, uris, connected, pending, told,
                       connectionFailure>>
      ELSE /\ Abandon
           /\ connected' = FALSE
           /\ pending' = TRUE
           /\ connectionFailure' = (connectionFailure \/ ~CanReconnect)
           /\ told' = IF CanReconnect THEN "down" ELSE "failed"

\* The reader of a broken connection calls its listener ...
RaiseException(n) ==
    /\ n <= created /\ ~alive[n] /\ exception[n] = "none"
    /\ exception' = [exception EXCEPT ![n] = IF disposed[n] THEN "handled" ELSE "raised"]
    /\ UNCHANGED <<ivars, uris, tvars, requestMap, mutex, tracked, rvars, pending, closing,
                   created, alive, dead, disposed, written, svars, hvars>>

\* ... which gets reconnectMutex later.
OnException(n) ==
    /\ exception[n] = "raised" /\ mutex = None
    /\ exception' = [exception EXCEPT ![n] = "handled"]
    /\ HandleTransportFailure
    /\ UNCHANGED <<started, closed, shutdown, firstConnection, doRebalance, connectFailures,
                   failureCount, requestMap, mutex, tracked, rvars, created, alive, dead, written,
                   svars, answered, restored, nullFailure>>

\* The network or the broker breaks a connection.
Break(n) ==
    /\ n <= created /\ alive[n]
    /\ alive' = [alive EXCEPT ![n] = FALSE]
    /\ UNCHANGED <<ivars, uris, tvars, requestMap, mutex, tracked, rvars, pending, closing,
                   created, dead, disposed, exception, written, svars, hvars>>

\* The broker answers a command; onCommand() runs processResponse() and passes
\* the answer on.  requestMap has its own lock.
OnResponse(n, c) ==
    /\ alive[n] /\ ~disposed[n]
    /\ c \in ToSet(written[n]) /\ Answered(c)
    /\ c \notin answered \/ c \in requestMap
    /\ requestMap' = requestMap \ {c}
    /\ answered' = answered \cup {c}
    /\ UNCHANGED <<ivars, uris, tvars, mutex, tracked, rvars, pending, closing, nvars, svars,
                   told, restored, nullFailure>>

-----------------------------------------------------------------------------
(* oneway *)

Track(c) ==
    tracked' = CASE Kind[c] = "info"   -> tracked \cup {c}
                 [] Kind[c] = "remove" -> tracked \ {Target[c]}
                 [] OTHER              -> tracked

\* Mutant of Hold: only messages are held for a replay.
HoldMessagesOnly(c) ==
    requestMap' = IF Kind[c] = "message" THEN requestMap \cup {c} ELSE requestMap

\* Mutant of Hold: a message is not held, it is not one of the requests.
HoldRequestsOnly(c) ==
    requestMap' = IF Kind[c] = "request" THEN requestMap \cup {c} ELSE requestMap

\* "If it was a request and it was not being tracked by the state tracker,
\* then hold it in the requestMap so that we can replay it later."
Hold(c) ==
    requestMap' = IF Answered(c) /\ ~IsTracked(c) THEN requestMap \cup {c} ELSE requestMap

Return(c, how) ==
    /\ pc' = [pc EXCEPT ![c] = how]
    /\ mutex' = None

\* Not connected: ShutdownInfo, RemoveInfo and MessageAck are dropped, and
\* RemoveInfo is answered here.
SkipStale(c) ==
    /\ pc[c] = "idle" /\ mutex = None
    /\ connectedTransport = 0
    /\ Kind[c] \in {"shutdown", "remove", "ack"}
    /\ Track(c)
    /\ answered' = IF Answered(c) THEN answered \cup {c} ELSE answered
    /\ Return(c, "returned")
    /\ UNCHANGED <<ivars, uris, tvars, requestMap, rvars, pending, closing, nvars,
                   cvars, told, restored, nullFailure>>

\* The sender has reconnectMutex and is at the top of the loop.
InLoop(c) ==
    \/ /\ pc[c] = "idle" /\ mutex = None
       /\ connectedTransport # 0 \/ Kind[c] \notin {"shutdown", "remove", "ack"}
    \/ pc[c] = "wait" /\ mutex = None
    \/ pc[c] = "retry" /\ mutex = c

\* Nothing is sent by a closed transport, and no exception is thrown.
OnewayClosed(c) ==
    /\ InLoop(c) /\ closed
    /\ Return(c, "returned")
    /\ UNCHANGED <<ivars, uris, tvars, requestMap, tracked, rvars, pending, closing, nvars,
                   cvars, hvars>>

\* There will be no connection.
OnewayFails(c) ==
    /\ InLoop(c) /\ ~closed /\ connectedTransport = 0
    /\ connectionFailure \/ ~WillReconnect
    /\ Return(c, "threw")
    /\ UNCHANGED <<ivars, uris, tvars, requestMap, tracked, rvars, pending, closing, nvars,
                   cvars, hvars>>

\* reconnectMutex.wait(100).
OnewayWait(c) ==
    /\ InLoop(c) /\ pc[c] # "wait" /\ ~closed /\ connectedTransport = 0
    /\ ~connectionFailure /\ WillReconnect
    /\ Return(c, "wait")
    /\ UNCHANGED <<ivars, uris, tvars, requestMap, tracked, rvars, pending, closing, nvars,
                   cvars, hvars>>

\* A message waits no longer than the failover timeout.
OnewayTimeout(c) ==
    /\ pc[c] = "wait" /\ mutex = None
    /\ Kind[c] = "message"
    /\ ~IsClosedOrFailed /\ connectedTransport = 0
    /\ Return(c, "threw")
    /\ UNCHANGED <<ivars, uris, tvars, requestMap, tracked, rvars, pending, closing, nvars,
                   cvars, hvars>>

\* The command is written.  Whether it arrives is another matter.
OnewayWrite(c) ==
    /\ InLoop(c) /\ ~closed /\ connectedTransport # 0
    /\ connectedTransport \notin dead
    /\ Track(c) /\ Hold(c)
    /\ written' = [written EXCEPT ![connectedTransport] = Append(@, c)]
    /\ shutdown' = (shutdown \/ Kind[c] = "shutdown")
    /\ Return(c, "returned")
    /\ UNCHANGED <<started, closed, connected, firstConnection, connectionFailure,
                   doRebalance, connectFailures, failureCount, uris, tvars, rvars, pending,
                   closing, created, alive, dead, disposed, exception, cvars,
                   hvars>>

\* Mutant of Unhold: a command that is retried stays in the request map.
UnholdForgotten(c) == Hold(c)

\* "since we will retry in this method.. take it out of the request map so
\* that it is not sent 2 times on recovery"
Unhold(c) == requestMap' = requestMap \ {c}

\* The write throws.  An untracked command is retried, the lock still held.
OnewayThrows(c) ==
    /\ InLoop(c) /\ ~closed /\ connectedTransport # 0
    /\ ~alive[connectedTransport]
    /\ dead' = dead \cup {connectedTransport}
    /\ Track(c)
    /\ IF ~IsTracked(c) /\ CanReconnect
         THEN /\ Unhold(c)
              /\ pc' = [pc EXCEPT ![c] = "retry"]
              /\ mutex' = c
         ELSE Hold(c) /\ Return(c, "returned")
    /\ HandleTransportFailure
    /\ UNCHANGED <<started, closed, shutdown, firstConnection, doRebalance, connectFailures,
                   failureCount, rvars, created, alive, exception, written,
                   cvars, answered, restored, nullFailure>>

Oneway(c) ==
    \/ SkipStale(c) \/ OnewayClosed(c) \/ OnewayFails(c) \/ OnewayWait(c)
    \/ OnewayWrite(c) \/ OnewayThrows(c)

-----------------------------------------------------------------------------
(* The task runner: CompositeTaskRunner::run and the tasks' iterate() *)

RunnerWakeup ==
    /\ rpc = "wait" /\ pending
    /\ rpc' = "check"
    /\ UNCHANGED <<ivars, uris, tvars, requestMap, mutex, tracked, tried, failure, transport,
                   uri, todo, pending, closing, nvars, svars, hvars>>

\* CompositeTaskRunner::iterate(): run a pending task, or wait.
RunnerCheck ==
    /\ rpc = "check"
    /\ \/ mutex = None /\ IsPending /\ rpc' = "iterate" /\ UNCHANGED <<closing, alive>>
       \/ /\ closing # {}
          /\ closing' = {}
          /\ alive' = [n \in Connections |-> alive[n] /\ n \notin closing]
          /\ UNCHANGED rpc
       \/ /\ mutex = None /\ ~IsPending /\ closing = {}
          /\ rpc' = "wait"
          /\ UNCHANGED <<closing, alive>>
    /\ pending' = FALSE
    /\ UNCHANGED <<ivars, uris, tvars, requestMap, mutex, tracked, tried, failure, transport,
                   uri, todo, created, dead, disposed, exception, written,
                   svars, hvars>>

\* recoverExhaustedBrokers(): five minutes have passed.
RecoverExhausted(u) ==
    /\ rpc = "iterate" /\ mutex = None
    /\ ~IsConnectionStateValid /\ ~IsClosedOrFailed
    /\ cooldowns < MaxCooldowns
    /\ failureCount[u] > 0 /\ IsUriExhausted(u)
    /\ failureCount' = [failureCount EXCEPT ![u] = 0]
    /\ cooldowns' = cooldowns + 1
    /\ UNCHANGED <<started, closed, shutdown, connected, firstConnection, connectionFailure,
                   doRebalance, connectFailures, uris, tvars, requestMap, mutex, tracked,
                   rvars, pending, closing, nvars, pc, closer, request, requests, hvars>>

\* iterate(), first section under the lock.
Iterate ==
    /\ rpc = "iterate" /\ mutex = None
    /\ \/ /\ IsConnectionStateValid \/ IsClosedOrFailed
          /\ rpc' = "check"
          /\ UNCHANGED <<doRebalance, uris, tvars, mutex, closing, disposed, told, tried,
                         failure>>
       \/ /\ ~IsConnectionStateValid /\ ~IsClosedOrFailed /\ uris = {}
          /\ rpc' = "tail" /\ mutex' = Runner
          /\ tried' = {} /\ failure' = TRUE
          /\ UNCHANGED <<doRebalance, uris, tvars, closing, disposed, told>>
       \/ /\ ~IsConnectionStateValid /\ ~IsClosedOrFailed /\ uris # {}
          /\ doRebalance' = FALSE
          /\ IF connectedURI = None
               THEN rpc' = "sleep" /\ UNCHANGED <<tvars, disposed, closing, uris, told>>
               ELSE IF connectedURI = PriorityUri
               THEN rpc' = "check" /\ UNCHANGED <<tvars, disposed, closing, uris, told>>
               ELSE rpc' = "sleep" /\ Abandon /\ told' = "down"
          /\ UNCHANGED <<mutex, tried, failure>>
    /\ UNCHANGED <<started, closed, shutdown, connected, firstConnection, connectionFailure,
                   connectFailures, failureCount, requestMap, tracked, transport, uri, todo, pending, created, alive, dead, exception, written, svars,
                   answered, restored, nullFailure>>

\* The lock is taken again after the reconnect delay and kept.
IterateResume ==
    /\ rpc = "sleep" /\ mutex = None
    /\ IF IsClosedOrFailed \/ IsConnectionStateValid
         THEN rpc' = "check" /\ UNCHANGED <<mutex, tried, failure>>
         ELSE /\ rpc' = "connect" /\ mutex' = Runner
              /\ tried' = {} /\ failure' = FALSE
    /\ UNCHANGED <<ivars, uris, tvars, requestMap, tracked, transport, uri, todo, pending, closing, nvars, svars, hvars>>

\* Take a URI from the pool; on a reconnect an exhausted one is skipped.
PickUri(u) ==
    /\ rpc = "connect" /\ u \in uris
    /\ uris' = uris \ {u}
    /\ IF ~firstConnection /\ IsUriExhausted(u)
         THEN tried' = tried \cup {u} /\ UNCHANGED <<rpc, uri>>
         ELSE /\ uri' = u
              /\ rpc' = "starting"
              /\ UNCHANGED tried
    /\ UNCHANGED <<ivars, tvars, requestMap, mutex, tracked, failure, transport, todo,
                   pending, closing, nvars, svars, hvars>>

\* The catch block of the connect loop.
AttemptFailed ==
    /\ tried' = tried \cup {uri}
    /\ failureCount' = [failureCount EXCEPT ![uri] = Count(@)]
    /\ failure' = TRUE
    /\ connected' = FALSE
    /\ transport' = 0 /\ todo' = {}
    /\ rpc' = "connect"
    /\ UNCHANGED <<started, closed, shutdown, firstConnection, connectionFailure,
                   doRebalance, connectFailures, uri>>

\* start() throws; the transport, which never was a connection, is closed later.
StartFails ==
    /\ rpc = "starting"
    /\ AttemptFailed
    /\ pending' = TRUE
    /\ UNCHANGED <<uris, tvars, requestMap, mutex, tracked, closing, nvars, svars, hvars>>

\* Mutant of StateToRestore: state and requests are sent in the order of their ids.
StateAndRequests == tracked \cup requestMap

\* What stateTracker.restore() writes.
StateToRestore == tracked

StartSucceeds ==
    /\ rpc = "starting" /\ created < MaxConnections
    /\ created' = created + 1
    /\ transport' = created'
    /\ alive' = [alive EXCEPT ![created'] = TRUE]
    /\ IF started /\ ~firstConnection
         THEN /\ rpc' = "restore" /\ todo' = StateToRestore
              /\ restored' = [restored EXCEPT ![created'] = tracked]
         ELSE rpc' = "publish" /\ UNCHANGED <<todo, restored>>
    /\ UNCHANGED <<ivars, uris, tvars, requestMap, mutex, tracked, tried, failure, uri,
                   pending, closing, dead, disposed, exception, written, svars, answered, told,
                   nullFailure>>

\* restoreTransport(): the tracked state first ...
RestoreWrite ==
    /\ rpc \in {"restore", "replay"} /\ todo # {}
    /\ written' = [written EXCEPT ![transport] = Append(@, Least(todo))]
    /\ todo' = todo \ {Least(todo)}
    /\ UNCHANGED <<ivars, uris, tvars, requestMap, mutex, tracked, rpc, tried, failure,
                   transport, uri, pending, closing, created, alive, dead,
                   disposed, exception, svars, hvars>>

\* Mutant of ToReplay: the request map is forgotten.
ToReplayNothing == {}

\* ... then a copy of the request map, in the order of the command ids.
ToReplay == requestMap

RestoreCopy ==
    /\ rpc = "restore" /\ todo = {}
    /\ todo' = ToReplay
    /\ rpc' = "replay"
    /\ UNCHANGED <<ivars, uris, tvars, requestMap, mutex, tracked, tried, failure, transport,
                   uri, pending, closing, nvars, svars, hvars>>

RestoreThrows ==
    /\ rpc \in {"restore", "replay"} /\ ~alive[transport]
    /\ dead' = dead \cup {transport}
    /\ disposed' = [disposed EXCEPT ![transport] = TRUE]
    /\ closing' = closing \cup {transport}
    /\ pending' = TRUE
    /\ AttemptFailed
    /\ UNCHANGED <<uris, tvars, requestMap, mutex, tracked, created, alive, exception,
                   written, svars, hvars>>

\* Connected: publish the transport, wake the senders, tell the listener.
Publish ==
    /\ rpc = "publish" \/ (rpc = "replay" /\ todo = {})
    /\ connectedTransport' = transport /\ connectedURI' = uri
    /\ transport' = 0
    /\ connected' = TRUE /\ firstConnection' = FALSE
    /\ connectFailures' = 0 /\ failureCount' = [u \in Uris |-> 0]
    /\ uris' = uris \cup tried
    /\ told' = "up"
    /\ mutex' = None /\ rpc' = "check"
    /\ UNCHANGED <<started, closed, shutdown, connectionFailure, doRebalance, requestMap,
                   tracked, tried, failure, uri, todo, pending, closing,
                   nvars, svars, answered, restored, nullFailure>>

\* The startup limit is used up and another one applies from now on.
Transitioning ==
    /\ firstConnection
    /\ StartupMaxReconnectAttempts > 0 /\ MaxReconnectAttempts # 0
    /\ StartupMaxReconnectAttempts # MaxReconnectAttempts

\* Mutant of Exhaust: the attempts made at startup are not forgotten.
ExhaustKeepsCounts ==
    /\ AllUrisExhausted(uris \cup tried)
    /\ connectionFailure' = ~Transitioning
    /\ nullFailure' = (nullFailure \/ ~failure)
    /\ told' = "failed"
    /\ firstConnection' = FALSE
    /\ connectFailures' = IF firstConnection THEN 0 ELSE Count(connectFailures)
    /\ rpc' = "check"
    /\ UNCHANGED failureCount

\* No URI is left to try.  If all are exhausted the transport has failed: the
\* listener gets onException() with iterate()'s failure, which must not be null.
Exhaust ==
    /\ AllUrisExhausted(uris \cup tried)
    /\ connectionFailure' = ~Transitioning
    /\ nullFailure' = (nullFailure \/ ~failure)
    /\ told' = "failed"
    /\ firstConnection' = FALSE
    /\ connectFailures' = IF firstConnection THEN 0 ELSE Count(connectFailures)
    /\ failureCount' = IF firstConnection THEN [u \in Uris |-> 0] ELSE failureCount
    /\ rpc' = "check"

Backoff ==
    /\ ~AllUrisExhausted(uris \cup tried)
    /\ connectFailures' = Count(connectFailures)
    /\ rpc' = "delay"
    /\ UNCHANGED <<connectionFailure, nullFailure, told, firstConnection, failureCount>>

IterateTail ==
    /\ rpc = "tail" \/ (rpc = "connect" /\ uris = {})
    /\ Exhaust \/ Backoff
    /\ uris' = uris \cup tried
    /\ mutex' = None
    /\ UNCHANGED <<started, closed, shutdown, connected, doRebalance, tvars, requestMap,
                   tracked, tried, failure, transport, uri, todo,
                   pending, closing, nvars, svars, answered, restored>>

\* doDelay(), without the lock.
DelayEnds ==
    /\ rpc = "delay"
    /\ rpc' = "check"
    /\ UNCHANGED <<ivars, uris, tvars, requestMap, mutex, tracked, tried, failure, transport,
                   uri, todo, pending, closing, nvars, svars, hvars>>

RunnerStep ==
    \/ RunnerWakeup \/ RunnerCheck \/ Iterate \/ IterateResume
    \/ \E u \in Uris : PickUri(u)
    \/ StartFails \/ StartSucceeds \/ RestoreWrite \/ RestoreCopy \/ RestoreThrows
    \/ Publish \/ IterateTail \/ DelayEnds

-----------------------------------------------------------------------------
(* add(), removeURI() and reconnect(); stop() and close() *)

\* add() and reconnect(uri): the pool has its own lock ...
AddURI(u, rebalance) ==
    /\ request = "none" /\ requests < MaxRequests
    /\ u \notin uris
    /\ uris' = uris \cup {u}
    /\ request' = IF rebalance THEN "rebalance" ELSE "plain"
    /\ requests' = requests + 1
    /\ UNCHANGED <<ivars, tvars, requestMap, mutex, tracked, rvars, pending, closing, nvars,
                   pc, closer, cooldowns, hvars>>

RemoveURI(u, rebalance) ==
    /\ request = "none" /\ requests < MaxRequests /\ mutex = None
    /\ u \in uris
    /\ uris' = uris \ {u}
    /\ request' = IF rebalance THEN "rebalance" ELSE "plain"
    /\ requests' = requests + 1
    /\ UNCHANGED <<ivars, tvars, requestMap, mutex, tracked, rvars, pending, closing, nvars,
                   pc, closer, cooldowns, hvars>>

\* ... then reconnect(rebalance).
Reconnect ==
    /\ request # "none" /\ mutex = None
    /\ doRebalance' = (doRebalance \/ (started /\ request = "rebalance"))
    /\ pending' = (pending \/ started)
    /\ request' = "none"
    /\ UNCHANGED <<started, closed, shutdown, connected, firstConnection, connectionFailure,
                   connectFailures, failureCount, uris, tvars, requestMap, mutex, tracked,
                   rvars, closing, nvars, pc, closer, requests, cooldowns, hvars>>

\* TransportFilter::close() of the layer above: stop(), then close().
CallClose ==
    /\ closer = "open"
    /\ closer' = "stopping"
    /\ UNCHANGED <<ivars, uris, tvars, requestMap, mutex, tracked, rvars, pending, closing,
                   nvars, pc, request, requests, cooldowns, hvars>>

Stop ==
    /\ closer = "stopping" /\ mutex = None
    /\ closer' = "closing"
    /\ started' = FALSE
    /\ UNCHANGED <<closed, shutdown, connected, firstConnection, connectionFailure,
                   doRebalance, connectFailures, failureCount, uris, tvars, requestMap, mutex,
                   tracked, rvars, pending, closing, nvars, pc, request, requests, cooldowns,
                   hvars>>

Close ==
    /\ closer = "closing" /\ mutex = None
    /\ closer' = "closed"
    /\ started' = FALSE /\ closed' = TRUE /\ connected' = FALSE
    /\ requestMap' = {}
    /\ connectedTransport' = 0
    /\ alive' = [n \in Connections |-> alive[n] /\ n # connectedTransport]
    /\ UNCHANGED <<shutdown, firstConnection, connectionFailure, doRebalance,
                   connectFailures, failureCount, uris, connectedURI, mutex, tracked, rvars,
                   pending, closing, created, dead, disposed, exception, written, pc, request,
                   requests, cooldowns, hvars>>

Next ==
    \/ \E c \in Commands : Oneway(c) \/ OnewayTimeout(c)
    \/ \E n \in Connections : RaiseException(n) \/ OnException(n) \/ Break(n)
    \/ \E n \in Connections : \E c \in Commands : OnResponse(n, c)
    \/ RunnerStep
    \/ \E u \in Uris : RecoverExhausted(u)
    \/ \E u \in Uris : \E rebalance \in BOOLEAN : AddURI(u, rebalance) \/ RemoveURI(u, rebalance)
    \/ Reconnect \/ CallClose \/ Stop \/ Close

Spec == Init /\ [][Next]_vars

\* The runner, a sender that has called oneway(), a reader and a closer take
\* their steps; a broker answers what it receives as long as the connection
\* stands.  Nothing forces a connection to break or the application to call.
Fairness ==
    /\ WF_vars(RunnerStep)
    /\ \A c \in Commands : WF_vars(pc[c] # "idle" /\ Oneway(c))
    /\ \A n \in Connections : WF_vars(RaiseException(n)) /\ WF_vars(OnException(n))
    /\ \A n \in Connections : \A c \in Commands : WF_vars(OnResponse(n, c))
    /\ WF_vars(Reconnect) /\ WF_vars(Stop) /\ WF_vars(Close)

FairSpec == Spec /\ Fairness

-----------------------------------------------------------------------------
(* Properties *)

\* Every variable holds what its field or local can hold; the lock is owned by
\* the runner exactly between IterateResume and the end of iterate().
TypeOK ==
    /\ started \in BOOLEAN /\ closed \in BOOLEAN /\ shutdown \in BOOLEAN
    /\ connected \in BOOLEAN /\ firstConnection \in BOOLEAN
    /\ connectionFailure \in BOOLEAN /\ doRebalance \in BOOLEAN
    /\ pending \in BOOLEAN /\ failure \in BOOLEAN /\ nullFailure \in BOOLEAN
    /\ connectFailures \in 0..CountCap /\ failureCount \in [Uris -> 0..CountCap]
    /\ uris \subseteq Uris /\ tried \subseteq Uris
    /\ connectedTransport \in 0..created /\ created \in 0..MaxConnections
    /\ transport \in 0..created
    /\ connectedURI \in Uris \cup {None} /\ uri \in Uris \cup {None}
    /\ requestMap \subseteq Commands /\ tracked \subseteq Commands
    /\ todo \subseteq Commands /\ answered \subseteq Commands
    /\ mutex \in Commands \cup {None, Runner}
    /\ mutex = Runner <=>
         rpc \in {"connect", "starting", "restore", "replay", "publish", "tail"}
    /\ closing \subseteq 1..created /\ dead \subseteq 1..created
    /\ alive \in [Connections -> BOOLEAN] /\ disposed \in [Connections -> BOOLEAN]
    /\ exception \in [Connections -> {"none", "raised", "handled"}]
    /\ written \in [Connections -> Seq(Commands)]
    /\ pc \in [Commands -> {"idle", "wait", "retry", "returned", "threw"}]
    /\ closer \in {"open", "stopping", "closing", "closed"}
    /\ request \in {"none", "plain", "rebalance"}
    /\ told \in {"up", "down", "failed"}

\* Commands that are held for a replay.
Held == requestMap \cup tracked

\* An unanswered request whose oneway() has returned normally is never
\* forgotten: it is in requestMap, or in the state tracker until a RemoveInfo
\* takes it out.
RequestHeld ==
    ~IsClosedOrFailed =>
        \A c \in Commands :
            pc[c] = "returned" /\ c \notin answered /\ Kind[c] \in {"request", "message", "info"}
                => \/ c \in Held
                   \/ \E d \in Commands : Kind[d] = "remove" /\ Target[d] = c /\ pc[d] # "idle"

\* Whatever is held has been written to the connected transport: a connection
\* is published only after the replay, and nothing slips in between.
HeldIsWritten ==
    connectedTransport # 0 /\ started /\ ~shutdown => Held \subseteq ToSet(written[connectedTransport])

\* No command is written twice to one connection.
SentOnce == \A n \in Connections : IsInjective(written[n])

\* A reconnected broker gets the tracked state before anything else.
StateFirst ==
    \A n \in Connections :
        LET k == Cardinality(restored[n]) IN
        \A i \in 1..Len(written[n]) : i <= k => written[n][i] \in restored[n]

\* "The transport has resumed after an interruption": the listener believes the
\* transport up exactly when it is connected.
ListenerKnows ==
    mutex = None /\ ~IsClosedOrFailed => (told = "up" <=> connectedTransport # 0)

\* iterate() never reports a failure it does not have.
NoNullFailure == ~nullFailure

\* isPending() compares the failures of all brokers with the limit of one, so the
\* runner stops although some URI has attempts left: one that was added late, or that
\* recovered from exhaustion.
GivenUp ==
    /\ started /\ ~IsClosedOrFailed /\ connectedTransport = 0 /\ ~IsPending
    /\ \E u \in uris : ~IsUriExhausted(u)

\* A sender that waits for a connection gets one, or an exception, unless the runner
\* has given up for good on a URI it could still try.
SendersReturn ==
    \A c \in Commands :
        pc[c] \in {"wait", "retry"} ~> pc[c] \in {"returned", "threw"} \/ []GivenUp

\* A request that was accepted is answered, unless the transport fails or is
\* closed.
AnswerComes ==
    \A c \in Commands :
        pc[c] = "returned" /\ Kind[c] \in {"request", "message"} ~> c \in answered \/ IsClosedOrFailed

\* stop() and close() get the lock.
CloseReturns == closer # "open" ~> closer = "closed"
=============================================================================
