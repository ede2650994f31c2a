-------------------------- MODULE ResponseCorrelator --------------------------
(***************************************************************************)
(* The request/response layer of the transport chain:                      *)
(* activemq/transport/correlator/ResponseCorrelator.cpp, the               *)
(* FutureResponse objects it hands out and the close() it inherits from    *)
(* TransportFilter.                                                        *)
(*                                                                         *)
(* Any number of application threads send requests.  A request takes a     *)
(* command id, registers a future in requestMap under mapMutex, hands the  *)
(* command to the next transport and blocks on the future's latch.  The    *)
(* transport's threads call onCommand with the broker's answers and        *)
(* onException when the connection is lost; any thread may call close().   *)
(* Every action below is one critical section (or one atomic operation) of *)
(* the code, so the interleavings are those of the C++ threads.            *)
(***************************************************************************)
EXTENDS Integers, FiniteSets

CONSTANTS
    Threads,       \* application threads that call request / asyncRequest
    Closers,       \* threads that call close()
    Reader,        \* the thread on which the next transport reports failures
    MaxCommandId,  \* bound: commands sent in one behaviour
    MaxReplies,    \* bound: answers the broker side may give one command
    Kinds,         \* which entry points are used, a subset of AllKinds
    Replies        \* what the broker may answer, a subset of {"ok", "error"}

AllKinds == {"request", "timedRequest", "asyncRequest"}

ASSUME CorrelatorAssumption ==
    /\ MaxCommandId \in Nat /\ MaxReplies \in Nat
    /\ Kinds \subseteq AllKinds
    /\ Replies \subseteq {"ok", "error"}
    /\ Reader \notin Closers

Ids == 1..MaxCommandId

\* The threads that may run dispose().
Disposers == Closers \cup {Reader}

VARIABLES
    nextCommandId,  \* CorrelatorData::nextCommandId
    requestMap,     \* the keys of CorrelatorData::requestMap
    priorError,     \* CorrelatorData::priorError: "none", or what it was made from
    response,       \* FutureResponse::response; the latch is open iff not "none"
    completions,    \* history: calls of FutureResponse::setResponse per command
    kind,           \* entry point that took the command id ("none": unused)
    pc,             \* where each application thread is
    cmd,            \* the command id each application thread works on
    wire,           \* answers the broker side still owes per command
    dpc,            \* where each disposing thread is
    requestsCopy,   \* dispose()'s local copy of the map, what is left of it
    closed,         \* TransportFilterImpl::closed
    broken          \* the next transport has reported its failure

cvars == <<nextCommandId, kind, pc, cmd>>
fvars == <<response, completions>>
dvars == <<dpc, requestsCopy>>
lvars == <<closed, broken>>
vars  == <<cvars, fvars, dvars, lvars, requestMap, priorError, wire>>

-----------------------------------------------------------------------------
Init ==
    /\ nextCommandId = 1
    /\ requestMap = {}
    /\ priorError = "none"
    /\ response = [i \in Ids |-> "none"]
    /\ completions = [i \in Ids |-> 0]
    /\ kind = [i \in Ids |-> "none"]
    /\ pc = [t \in Threads |-> "idle"]
    /\ cmd = [t \in Threads |-> 0]
    /\ wire = [i \in Ids |-> 0]
    /\ dpc = [d \in Disposers |-> "idle"]
    /\ requestsCopy = [d \in Disposers |-> {}]
    /\ closed = FALSE /\ broken = FALSE

Goto(t, l) == pc' = [pc EXCEPT ![t] = l]

\* Mutant of SetResponse: the cast to Response failed, a null pointer is stored.
SetResponseNull(i, r) ==
    /\ response' = [response EXCEPT ![i] = "null"]
    /\ completions' = [completions EXCEPT ![i] = @ + 1]

\* FutureResponse::setResponse: store the response and open the latch; for an
\* asyncRequest this is also where the callback's onComplete runs.
SetResponse(i, r) ==
    /\ response' = [response EXCEPT ![i] = r]
    /\ completions' = [completions EXCEPT ![i] = @ + 1]

-----------------------------------------------------------------------------
(* Application threads *)

\* oneway(): takes a command id, registers nothing.
Oneway ==
    /\ ~closed
    /\ nextCommandId \in Ids
    /\ nextCommandId' = nextCommandId + 1
    /\ UNCHANGED <<kind, pc, cmd, fvars, dvars, lvars, requestMap, priorError, wire>>

\* request(), request(timeout) and asyncRequest() up to the command id.
Request(t, k) ==
    /\ pc[t] = "idle"
    /\ ~closed
    /\ nextCommandId \in Ids
    /\ nextCommandId' = nextCommandId + 1
    /\ kind' = [kind EXCEPT ![nextCommandId] = k]
    /\ cmd' = [cmd EXCEPT ![t] = nextCommandId]
    /\ Goto(t, "register")
    /\ UNCHANGED <<fvars, dvars, lvars, requestMap, priorError, wire>>

\* Mutant of Register: priorError is not looked at under the mutex.
RegisterUnchecked(t) ==
    /\ pc[t] = "register"
    /\ requestMap' = requestMap \cup {cmd[t]}
    /\ Goto(t, "send")
    /\ UNCHANGED <<nextCommandId, kind, cmd, fvars, dvars, lvars, priorError, wire>>

\* The mapMutex section: register the future, or fail on a prior error.  An
\* asyncRequest that is refused still completes its future before it throws.
Register(t) ==
    /\ pc[t] = "register"
    /\ IF priorError = "none"
         THEN /\ requestMap' = requestMap \cup {cmd[t]}
              /\ Goto(t, "send")
              /\ UNCHANGED fvars
         ELSE /\ Goto(t, "idle")
              /\ IF kind[cmd[t]] = "asyncRequest"
                   THEN SetResponse(cmd[t], "error")
                   ELSE UNCHANGED fvars
              /\ UNCHANGED requestMap
    /\ UNCHANGED <<nextCommandId, kind, cmd, dvars, lvars, priorError, wire>>

\* next->oneway(command) returns.  The broker side will answer n times: none
\* when command or answer is lost, more than once when a transport below
\* replays the command after a reconnect.
Send(t) ==
    /\ pc[t] = "send"
    /\ \E n \in 0..MaxReplies : wire' = [wire EXCEPT ![cmd[t]] = n]
    /\ Goto(t, IF kind[cmd[t]] = "asyncRequest" THEN "idle" ELSE "await")
    /\ UNCHANGED <<nextCommandId, kind, cmd, fvars, dvars, lvars, requestMap, priorError>>

\* next->oneway(command) throws.  The bytes may have left all the same.
SendThrows(t) ==
    /\ pc[t] = "send"
    /\ \E n \in 0..MaxReplies : wire' = [wire EXCEPT ![cmd[t]] = n]
    /\ Goto(t, "finalize")
    /\ UNCHANGED <<nextCommandId, kind, cmd, fvars, dvars, lvars, requestMap, priorError>>

\* getResponse() returns because the latch is open ...
Await(t) ==
    /\ pc[t] = "await"
    /\ response[cmd[t]] # "none"
    /\ Goto(t, "finalize")
    /\ UNCHANGED <<nextCommandId, kind, cmd, fvars, dvars, lvars, requestMap, priorError, wire>>

\* ... or getResponse(timeout) because the time is up.
Timeout(t) ==
    /\ pc[t] = "await"
    /\ kind[cmd[t]] = "timedRequest"
    /\ Goto(t, "finalize")
    /\ UNCHANGED <<nextCommandId, kind, cmd, fvars, dvars, lvars, requestMap, priorError, wire>>

\* Mutant of Finalize: no finalizer on the stack, the entry stays.
FinalizeLeaks(t) ==
    /\ pc[t] = "finalize"
    /\ Goto(t, "idle")
    /\ UNCHANGED <<nextCommandId, kind, cmd, fvars, dvars, lvars, requestMap, priorError, wire>>

\* ~ResponseFinalizer, and the catch block of asyncRequest: the entry goes
\* from the map if it is still there.
Finalize(t) ==
    /\ pc[t] = "finalize"
    /\ requestMap' = requestMap \ {cmd[t]}
    /\ Goto(t, "idle")
    /\ UNCHANGED <<nextCommandId, kind, cmd, fvars, dvars, lvars, priorError, wire>>

-----------------------------------------------------------------------------
(* Threads of the next transport *)

\* onCommand() with a Response, under mapMutex.  A response nobody waits for is
\* dropped, except that an ExceptionResponse becomes the prior error.
OnCommand(i, r) ==
    /\ ~broken
    /\ wire[i] > 0
    /\ wire' = [wire EXCEPT ![i] = @ - 1]
    /\ IF i \in requestMap
         THEN /\ requestMap' = requestMap \ {i}
              /\ SetResponse(i, r)
              /\ UNCHANGED priorError
         ELSE /\ priorError' = IF r = "error" /\ priorError = "none"
                                 THEN "broker" ELSE priorError
              /\ UNCHANGED <<requestMap, fvars>>
    /\ UNCHANGED <<cvars, dvars, lvars>>

\* Mutant of TakeRequests: the map is copied but not cleared.
TakeRequestsKeepsMap(d) ==
    /\ IF priorError = "none"
         THEN /\ priorError' = "io"
              /\ requestsCopy' = [requestsCopy EXCEPT ![d] = requestMap]
              /\ UNCHANGED requestMap
         ELSE UNCHANGED <<priorError, requestsCopy, requestMap>>
    /\ dpc' = [dpc EXCEPT ![d] = "complete"]

\* Mutant of TakeRequests: the map is cleared before it is copied.
TakeRequestsClearsFirst(d) ==
    /\ IF priorError = "none"
         THEN /\ priorError' = "io"
              /\ requestMap' = {}
              /\ UNCHANGED requestsCopy
         ELSE UNCHANGED <<priorError, requestsCopy, requestMap>>
    /\ dpc' = [dpc EXCEPT ![d] = "complete"]

\* dispose(error), the mapMutex section: the first error takes the map away.
TakeRequests(d) ==
    /\ IF priorError = "none"
         THEN /\ priorError' = "io"
              /\ requestsCopy' = [requestsCopy EXCEPT ![d] = requestMap]
              /\ requestMap' = {}
         ELSE UNCHANGED <<priorError, requestsCopy, requestMap>>
    /\ dpc' = [dpc EXCEPT ![d] = "complete"]

\* onException(ex) enters dispose().
OnException ==
    /\ dpc[Reader] = "idle"
    /\ ~broken
    /\ broken' = TRUE
    /\ TakeRequests(Reader)
    /\ UNCHANGED <<cvars, fvars, closed, wire>>

\* dispose(): the loop that fails the requests it took, outside the mutex.
FailRequest(d) ==
    /\ dpc[d] = "complete"
    /\ \E i \in requestsCopy[d] :
         /\ SetResponse(i, "error")
         /\ requestsCopy' = [requestsCopy EXCEPT ![d] = @ \ {i}]
    /\ UNCHANGED <<cvars, lvars, dpc, requestMap, priorError, wire>>

DisposeReturns(d) ==
    /\ dpc[d] = "complete"
    /\ requestsCopy[d] = {}
    /\ dpc' = [dpc EXCEPT ![d] = "done"]
    /\ UNCHANGED <<cvars, fvars, lvars, requestsCopy, requestMap, priorError, wire>>

-----------------------------------------------------------------------------
(* close(), inherited from TransportFilter *)

\* close(), first part: it is not yet closed; stop() stops
\* the next transport and leaves this filter's requests alone.
CloseStop(d) ==
    /\ dpc[d] = "idle"
    /\ ~closed
    /\ dpc' = [dpc EXCEPT ![d] = "stopped"]
    /\ UNCHANGED <<cvars, fvars, lvars, requestsCopy, requestMap, priorError, wire>>

\* close(): the compare-and-set of closed; the thread that loses it returns.
CloseMark(d) ==
    /\ dpc[d] = "stopped"
    /\ dpc' = [dpc EXCEPT ![d] = IF closed THEN "done" ELSE "closing"]
    /\ closed' = TRUE
    /\ UNCHANGED <<cvars, fvars, broken, requestsCopy, requestMap, priorError, wire>>

\* close(): next->close() has returned, doClose() enters dispose().
DoClose(d) ==
    /\ dpc[d] = "closing"
    /\ TakeRequests(d)
    /\ UNCHANGED <<cvars, fvars, lvars, wire>>

-----------------------------------------------------------------------------
ThreadStep(t) ==
    \/ Register(t) \/ Send(t) \/ SendThrows(t) \/ Await(t) \/ Finalize(t)

DisposeStep(d) == FailRequest(d) \/ DisposeReturns(d)

CloseStep(d) == CloseStop(d) \/ CloseMark(d) \/ DoClose(d)

Next ==
    \/ \E t \in Threads : \E k \in Kinds : Request(t, k)
    \/ \E t \in Threads : ThreadStep(t) \/ Timeout(t)
    \/ Oneway
    \/ \E i \in Ids : \E r \in Replies : OnCommand(i, r)
    \/ OnException
    \/ \E d \in Disposers : DisposeStep(d)
    \/ \E d \in Closers : CloseStep(d)

Spec == Init /\ [][Next]_vars

\* The threads keep running: a thread past its entry point takes its next step
\* when it can, and so does a thread inside dispose().  Nothing forces the
\* application to send, the broker to answer or the connection to fail.
Fairness ==
    /\ \A t \in Threads : WF_vars(ThreadStep(t))
    /\ \A d \in Disposers : WF_vars(DisposeStep(d))

FairSpec == Spec /\ Fairness

-----------------------------------------------------------------------------
(* The abstract service *)

\* A future that somebody may still complete.
Pending(i) == i \in requestMap \/ \E d \in Disposers : i \in requestsCopy[d]

\* A command id no request has brought to the map section yet.
Unused(i) == kind[i] = "none" \/ \E t \in Threads : pc[t] = "register" /\ cmd[t] = i

\* What has become of each request.
status ==
    [i \in Ids |-> IF response[i] # "none" THEN response[i]
                   ELSE IF Pending(i) THEN "pending"
                   ELSE IF Unused(i) THEN "unused"
                   ELSE "withdrawn"]

Service == INSTANCE RequestService WITH accepting <- priorError = "none"

-----------------------------------------------------------------------------
(* Properties *)

\* The variables hold values of the kinds the code declares.
TypeOK ==
    /\ nextCommandId \in 1..(MaxCommandId + 1)
    /\ requestMap \subseteq Ids
    /\ priorError \in {"none", "io", "broker"}
    /\ response \in [Ids -> {"none", "ok", "error"}]
    /\ completions \in [Ids -> Nat]
    /\ kind \in [Ids -> Kinds \cup {"none"}]
    /\ pc \in [Threads -> {"idle", "register", "send", "await", "finalize"}]
    /\ cmd \in [Threads -> Ids \cup {0}]
    /\ wire \in [Ids -> 0..MaxReplies]
    /\ dpc \in [Disposers -> {"idle", "stopped", "closing", "complete", "done"}]
    /\ requestsCopy \in [Disposers -> SUBSET Ids]
    /\ closed \in BOOLEAN /\ broken \in BOOLEAN

\* FutureResponse::setResponse runs at most once per command, however answers,
\* duplicate answers, the failure of the connection and close() interleave: an
\* asyncRequest's callback is never called twice.
CompletedAtMostOnce == \A i \in Ids : completions[i] <= 1

\* "The finalizer will cleanup the map even if an exception is thrown": an
\* entry of the map belongs to an asyncRequest or to a request() still on the
\* stack of some thread, so timeouts and failed sends leak nothing.
NoLeakedRequest ==
    \A i \in requestMap :
        \/ kind[i] = "asyncRequest"
        \/ \E t \in Threads : cmd[t] = i /\ pc[t] \in {"send", "await", "finalize"}

\* A thread blocked on an unopened latch can be found: its future is still in
\* the map, or in the copy a running dispose() is working through.  The map
\* section and the latch are not one critical section, so this relates the
\* requester, the reader and the closer.
WaiterIsReachable ==
    \A t \in Threads :
        pc[t] = "await" /\ response[cmd[t]] = "none" =>
            \/ cmd[t] \in requestMap
            \/ \E d \in Disposers : cmd[t] \in requestsCopy[d]

\* Once an error is recorded the correlator accepts no request: the map only
\* shrinks, also for a request that passed checkClosed() before the error.
NoRequestAfterError ==
    [][priorError # "none" => requestMap' \subseteq requestMap]_vars

\* The correlator implements the service its callers rely on: whatever the
\* threads, duplicated answers, a lost connection and close() do, each request
\* is accepted at most once and only before an error is recorded, and the
\* first of answer, error and withdrawal is final.
ImplementsService == Service!Spec

\* The first dispose() releases everybody: once the failure or close() is what
\* the correlator has recorded, every thread blocked in request() gets out of
\* it, with the response or with the error dispose() makes.
DisposeReleasesWaiters ==
    \A t \in Threads : (priorError = "io" /\ pc[t] = "await") ~> pc[t] = "idle"
=============================================================================
