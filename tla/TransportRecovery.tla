--------------------------- MODULE TransportRecovery ---------------------------
(***************************************************************************)
(* How dispatching is resumed after the failover transport has lost its    *)
(* connection.  handleTransportFailure() tells the ConnectionStateTracker  *)
(* and the connection; transportInterrupted() asks every consumer to clear *)
(* its channel and counts those it has asked.  A consumer is cleared by a  *)
(* scheduled ClearConsumerTask, or by dispatch() if that comes first, and  *)
(* the one that brings the count to zero reports that the interruption is  *)
(* processed.  Until then doRestoreConsumers() announces the consumers to  *)
(* the new broker with a prefetch of zero, and the report sends the real   *)
(* prefetch in a ConsumerControl.                                          *)
(*                                                                         *)
(* Threads: the one that handles the failure (which holds reconnectMutex), *)
(* a reader for each connection, the session's dispatching thread, the     *)
(* scheduler, the application.  Atomics are one step each.  A message is   *)
(* represented by the number of the connection it came from.               *)
(***************************************************************************)
EXTENDS Integers, FiniteSets, FiniteSetsExt

CONSTANTS
    NumConsumers,     \* the consumers of the connection's session, in their order
    MaxInterruptions, \* bound: connections lost
    MaxReaders        \* bound: readers that are in onCommand() at once

ASSUME RecoveryAssumption ==
    NumConsumers \in Nat /\ MaxInterruptions \in Nat /\ MaxReaders \in Nat

Consumers == 1..NumConsumers
None == 0

VARIABLES
    connected,        \* has the failover transport a connection
    epoch,            \* how many connections there have been
    reconnectMutex,   \* held by the thread that handles the failure
    complete,         \* ConnectionState::connectionInterruptProcessingComplete
    recovering,       \* ConnectionState::recoveringPullConsumers
    prefetch,         \* broker (external): what it knows of each consumer
    counter,          \* transportInterruptionProcessingComplete
    flag,             \* inProgressClearRequiredFlag of each consumer
    todo, asked,      \* the consumers still to ask, the one asked last
    tasks,            \* consumers a ClearConsumerTask is scheduled for
    pc,               \* Scheduler, Dispatcher and Readers: where each is
    on,               \* the consumer each works on
    message,          \* the message Dispatcher and Readers have in hand
    owner,            \* the thread that holds the lock of the consumer's channel
    channel,          \* unconsumedMessages of each consumer
    stale,            \* history: a message in hand outlived its connection
    raced             \* history: a clear overtook the count, or was overtaken

tvars == <<connected, epoch, reconnectMutex, complete, recovering, prefetch>>
cvars == <<counter, flag, todo, asked, tasks>>
pvars == <<pc, on, message>>
vars == <<tvars, cvars, pvars, owner, channel, stale, raced>>

Readers == 1..MaxReaders
Nobody == 0
Scheduler == -1
Dispatcher == -2
Clearers == {Scheduler, Dispatcher}
Threads == Clearers \cup Readers

Init ==
    /\ connected = TRUE /\ epoch = 1 /\ reconnectMutex = FALSE
    /\ complete = TRUE /\ recovering = {}
    /\ prefetch = [c \in Consumers |-> "full"]
    /\ counter = 0 /\ flag = [c \in Consumers |-> 0]
    /\ todo = {} /\ asked = None /\ tasks = {}
    /\ pc = [t \in Threads |-> "idle"] /\ on = [t \in Threads |-> None]
    /\ message = [t \in Threads |-> 0]
    /\ owner = [c \in Consumers |-> Nobody]
    /\ channel = [c \in Consumers |-> {}]
    /\ stale = FALSE /\ raced = FALSE

-----------------------------------------------------------------------------
(* The connection is lost *)

\* Mutant of TransportInterrupted: the counter is not reset.
InterruptedKeepsCounter ==
    /\ connected /\ ~reconnectMutex /\ epoch <= MaxInterruptions
    /\ connected' = FALSE /\ reconnectMutex' = TRUE
    /\ complete' = FALSE
    /\ prefetch' = [c \in Consumers |-> "none"]
    /\ todo' = Consumers
    /\ UNCHANGED <<epoch, recovering, counter, flag, asked, tasks, pvars, owner, channel, stale, raced>>

\* handleTransportFailure(), to the first consumer of transportInterrupted().
TransportInterrupted ==
    /\ connected /\ ~reconnectMutex /\ epoch <= MaxInterruptions
    /\ connected' = FALSE /\ reconnectMutex' = (Consumers # {})
    /\ complete' = FALSE
    /\ prefetch' = [c \in Consumers |-> "none"]
    /\ counter' = 0
    /\ todo' = Consumers
    /\ stale' = (stale \/ \E t \in Threads : message[t] # 0)
    /\ raced' = (\/ raced \/ \E c \in Consumers : flag[c] > 0
                 \/ \E t \in Threads : pc[t] \in {"sub", "signal", "control", "store", "reset"})
    /\ UNCHANGED <<epoch, recovering, flag, asked, tasks, pvars, owner, channel>>

\* ActiveMQSessionKernel::clearMessagesInProgress(), for the next consumer: its
\* inProgressClearRequired() ...
InProgressClearRequired ==
    /\ reconnectMutex /\ todo # {} /\ asked = None
    /\ asked' = Min(todo)
    /\ flag' = [flag EXCEPT ![asked'] = @ + 1]
    /\ UNCHANGED <<tvars, counter, todo, tasks, pvars, owner, channel, stale, raced>>

\* ... then the count, and the task.
CountConsumer ==
    /\ asked # None
    /\ counter' = counter + 1
    /\ tasks' = tasks \cup {asked}
    /\ todo' = todo \ {asked} /\ asked' = None
    /\ reconnectMutex' = (todo' # {})
    /\ UNCHANGED <<connected, epoch, complete, recovering, prefetch, flag, pvars, owner,
                   channel, stale, raced>>

\* doRestoreConsumers() on a new connection, under reconnectMutex.
Reconnect ==
    /\ ~connected /\ ~reconnectMutex
    /\ connected' = TRUE /\ epoch' = epoch + 1
    /\ prefetch' = [c \in Consumers |-> IF complete THEN "full" ELSE "zero"]
    /\ recovering' = IF complete THEN recovering ELSE Consumers
    /\ UNCHANGED <<reconnectMutex, complete, cvars, pvars, owner, channel, stale, raced>>

-----------------------------------------------------------------------------
(* clearMessagesInProgress() of a consumer, run by thread t *)

\* Mutant of ClearChannel: the messages stay where they are.
ClearNothing(t) ==
    /\ pc[t] = "clear" /\ flag[on[t]] > 0 /\ owner[on[t]] = Nobody
    /\ owner' = [owner EXCEPT ![on[t]] = t]
    /\ pc' = [pc EXCEPT ![t] = "sub"]
    /\ UNCHANGED <<tvars, cvars, on, message, channel, stale, raced>>

\* It has a reason to clear, and gets the channel's lock.
ClearChannel(t) ==
    LET c == on[t] IN
    /\ pc[t] = "clear" /\ flag[c] > 0 /\ owner[c] = Nobody
    /\ owner' = [owner EXCEPT ![c] = t]
    /\ channel' = [channel EXCEPT ![c] = {}]
    /\ pc' = [pc EXCEPT ![t] = "sub"]
    /\ UNCHANGED <<tvars, cvars, on, message, stale, raced>>

\* clearMessagesInProgress() returns to the task or to dispatch().
Return(t) ==
    IF t = Dispatcher
      THEN pc' = [pc EXCEPT ![t] = "enqueue"] /\ UNCHANGED on
      ELSE pc' = [pc EXCEPT ![t] = "idle"] /\ on' = [on EXCEPT ![t] = None]

NothingToClear(t) ==
    /\ pc[t] = "clear" /\ flag[on[t]] = 0
    /\ Return(t)
    /\ UNCHANGED <<tvars, cvars, message, owner, channel, stale, raced>>

\* Mutant of SetInterruptionProcessingComplete: it reports before the last.
CompleteTooEarly(t) ==
    /\ pc[t] = "sub"
    /\ counter' = counter - 1
    /\ pc' = [pc EXCEPT ![t] = IF counter - 1 = 1 THEN "signal" ELSE "reset"]
    /\ raced' = (raced \/ asked = on[t])
    /\ UNCHANGED <<tvars, flag, todo, asked, tasks, on, message, owner, channel, stale>>

\* setTransportInterruptionProcessingComplete()
SetInterruptionProcessingComplete(t) ==
    /\ pc[t] = "sub"
    /\ counter' = counter - 1
    /\ pc' = [pc EXCEPT ![t] = IF counter - 1 = 0 THEN "signal" ELSE "reset"]
    /\ raced' = (raced \/ asked = on[t])
    /\ UNCHANGED <<tvars, flag, todo, asked, tasks, on, message, owner, channel, stale>>

ResetFlag(t) ==
    LET c == on[t] IN
    /\ pc[t] = "reset"
    /\ flag' = [flag EXCEPT ![c] = 0]
    /\ owner' = [owner EXCEPT ![c] = Nobody]
    /\ Return(t)
    /\ UNCHANGED <<tvars, counter, todo, asked, tasks, message, channel, stale, raced>>

-----------------------------------------------------------------------------
(* signalInterruptionProcessingComplete(), run by thread t *)

\* The real prefetch for those that were restored without one.
SendConsumerControls ==
    /\ prefetch' = [c \in Consumers |-> IF c \in recovering THEN "full" ELSE prefetch[c]]
    /\ recovering' = {}

\* connectionInterruptProcessingComplete() of the tracker: the ConsumerControls
\* wait for a connection if there is none.
Signal(t) ==
    /\ pc[t] = "signal" /\ ~reconnectMutex
    /\ complete' = TRUE
    /\ IF connected \/ recovering = {}
         THEN SendConsumerControls /\ pc' = [pc EXCEPT ![t] = "store"]
         ELSE pc' = [pc EXCEPT ![t] = "control"] /\ UNCHANGED <<prefetch, recovering>>
    /\ UNCHANGED <<connected, epoch, reconnectMutex, cvars, on, message, owner, channel, stale, raced>>

ControlsSent(t) ==
    /\ pc[t] = "control" /\ connected /\ ~reconnectMutex
    /\ SendConsumerControls
    /\ pc' = [pc EXCEPT ![t] = "store"]
    /\ UNCHANGED <<connected, epoch, reconnectMutex, complete, cvars, on, message, owner, channel,
                   stale, raced>>

StoreZero(t) ==
    /\ pc[t] = "store"
    /\ counter' = 0
    /\ pc' = [pc EXCEPT ![t] = IF t \in Readers THEN "wait" ELSE "reset"]
    /\ UNCHANGED <<tvars, flag, todo, asked, tasks, on, message, owner, channel, stale, raced>>

-----------------------------------------------------------------------------
(* The threads *)

\* The scheduler takes a ClearConsumerTask.
RunTask(c) ==
    /\ pc[Scheduler] = "idle" /\ c \in tasks
    /\ tasks' = tasks \ {c}
    /\ pc' = [pc EXCEPT ![Scheduler] = "clear"]
    /\ on' = [on EXCEPT ![Scheduler] = c]
    /\ UNCHANGED <<tvars, counter, flag, todo, asked, message, owner, channel, stale, raced>>

\* onCommand(): the connection's reader gets a message the broker has dispatched.
\* It is a thread of its own: the readers of lost connections may still be on their
\* way through onCommand().
OnCommand(c, r) ==
    /\ connected /\ prefetch[c] = "full"
    /\ \A t \in Readers : message[t] # epoch
    /\ pc[r] = "idle" /\ \A t \in 1..(r - 1) : pc[t] # "idle"
    /\ pc' = [pc EXCEPT ![r] = "wait"]
    /\ on' = [on EXCEPT ![r] = c]
    /\ message' = [message EXCEPT ![r] = epoch]
    /\ UNCHANGED <<tvars, cvars, owner, channel, stale, raced>>

\* waitForTransportInterruptionProcessingToComplete(): it does not wait, it
\* reports itself.
WaitLoop(r) ==
    /\ pc[r] = "wait" /\ counter > 0
    /\ pc' = [pc EXCEPT ![r] = "signal"]
    /\ UNCHANGED <<tvars, cvars, on, message, owner, channel, stale, raced>>

\* The message goes to the dispatching thread, which calls dispatch().
HandOver(r) ==
    /\ pc[r] = "wait" /\ counter <= 0
    /\ pc[Dispatcher] = "idle"
    /\ pc' = [pc EXCEPT ![r] = "idle", ![Dispatcher] = "clear"]
    /\ on' = [on EXCEPT ![r] = None, ![Dispatcher] = on[r]]
    /\ message' = [message EXCEPT ![r] = 0, ![Dispatcher] = message[r]]
    /\ UNCHANGED <<tvars, cvars, owner, channel, stale, raced>>

\* The rest of dispatch(), under the channel's lock.
Enqueue ==
    LET c == on[Dispatcher] IN
    /\ pc[Dispatcher] = "enqueue" /\ owner[c] = Nobody
    /\ channel' = [channel EXCEPT ![c] = @ \cup {message[Dispatcher]}]
    /\ pc' = [pc EXCEPT ![Dispatcher] = "idle"]
    /\ on' = [on EXCEPT ![Dispatcher] = None]
    /\ message' = [message EXCEPT ![Dispatcher] = 0]
    /\ UNCHANGED <<tvars, cvars, owner, stale, raced>>

\* The application receives what the channel holds.
Receive(c) ==
    /\ channel[c] # {} /\ owner[c] = Nobody
    /\ channel' = [channel EXCEPT ![c] = {}]
    /\ UNCHANGED <<tvars, cvars, pvars, owner, stale, raced>>

ThreadStep(t) ==
    \/ t \in Clearers /\ (\/ ClearChannel(t) \/ NothingToClear(t)
                          \/ SetInterruptionProcessingComplete(t) \/ ResetFlag(t))
    \/ Signal(t) \/ ControlsSent(t) \/ StoreZero(t)

HandleFailure == InProgressClearRequired \/ CountConsumer

Next ==
    \/ TransportInterrupted \/ HandleFailure \/ Reconnect
    \/ \E t \in Threads : ThreadStep(t)
    \/ \E c \in Consumers : RunTask(c) \/ Receive(c)
    \/ \E r \in Readers : WaitLoop(r) \/ HandOver(r) \/ \E c \in Consumers : OnCommand(c, r)
    \/ Enqueue

Spec == Init /\ [][Next]_vars

\* Every thread that has started something goes on, the scheduler runs its
\* tasks, a connection is found again.  Nothing forces the broker to dispatch or
\* the application to receive.
Fairness ==
    /\ WF_vars(HandleFailure) /\ WF_vars(Reconnect)
    /\ \A t \in Threads : WF_vars(ThreadStep(t))
    /\ \A c \in Consumers : WF_vars(RunTask(c))
    /\ \A r \in Readers : WF_vars(WaitLoop(r)) /\ WF_vars(HandOver(r))
    /\ WF_vars(Enqueue)

FairSpec == Spec /\ Fairness

-----------------------------------------------------------------------------
(* Properties *)

\* Every variable holds what its field can hold.  A clear that overtakes its
\* count takes the counter below zero.
TypeOK ==
    /\ connected \in BOOLEAN /\ reconnectMutex \in BOOLEAN /\ complete \in BOOLEAN
    /\ stale \in BOOLEAN /\ raced \in BOOLEAN
    /\ epoch \in 1..(MaxInterruptions + 1)
    /\ recovering \subseteq Consumers /\ todo \subseteq Consumers /\ tasks \subseteq Consumers
    /\ prefetch \in [Consumers -> {"full", "zero", "none"}]
    /\ counter \in Int /\ counter <= NumConsumers
    /\ flag \in [Consumers -> 0..MaxInterruptions]
    /\ asked \in todo \cup {None}
    /\ pc \in [Threads -> {"idle", "clear", "sub", "signal", "control", "store", "reset",
                           "wait", "enqueue"}]
    /\ on \in [Threads -> Consumers \cup {None}]
    /\ message \in [Threads -> 0..epoch]
    /\ owner \in [Consumers -> Clearers \cup {Nobody}]
    /\ channel \in [Consumers -> SUBSET (1..epoch)]

\* No consumer's channel mixes messages of two connections: dispatch() clears
\* what an earlier connection left, before it adds what a later one brought.
OneConnection ==
    \A c \in Consumers : Cardinality(channel[c]) <= 1 \/ stale

\* Dispatching resumes: in the end every consumer has its real prefetch at the
\* broker ("Restore the session's consumers but possibly in pull only (prefetch
\* 0 state) till recovery complete").
Resumes == <>[](connected /\ \A c \in Consumers : prefetch[c] = "full")

\* What the code ensures: it does unless a clear overtook the count of its
\* consumer, or another interruption came while one was being processed.
ResumesUnlessRaced ==
    <>[](raced \/ (connected /\ \A c \in Consumers : prefetch[c] = "full"))
=============================================================================
