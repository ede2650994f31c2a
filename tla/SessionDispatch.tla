--------------------------- MODULE SessionDispatch ---------------------------
(***************************************************************************)
(* How a message gets from the transport to a MessageListener: the         *)
(* session's executor (ActiveMQSessionExecutor), the thread it dispatches  *)
(* on (DedicatedTaskRunner), the session that starts and stops it          *)
(* (ActiveMQSessionKernel) and the part of ActiveMQConsumerKernel that     *)
(* hands the message to the listener or puts it aside.                     *)
(*                                                                         *)
(* Threads: the transport's reader IO, which receives the messages; the    *)
(* task runner threads 1..MaxRunners, one per DedicatedTaskRunner the      *)
(* executor creates; and the Controllers, application threads that call    *)
(* Connection::start, Connection::stop and setMessageListener.  A step is  *)
(* one critical section; the channel lock and the listenerMutex of a       *)
(* consumer, which are held across onMessage, are variables.               *)
(***************************************************************************)
EXTENDS Integers, Sequences, FiniteSets, SequencesExt

CONSTANTS
    Consumers,          \* the session's consumers
    Dest,               \* Dest[m]: the consumer message m is for
    LateListeners,      \* consumers that get their listener only later
    Controllers,        \* application threads
    IO,                 \* the transport's reader thread
    None,               \* no consumer, no thread
    AsyncModes,         \* values of isSessionAsyncDispatch() to consider
    CheckForDuplicates, \* ActiveMQConnection's checkForDuplicates
    MaxMessages,        \* bound: messages the broker dispatches
    MaxRunners,         \* bound: task runners the executor may create
    MaxCalls            \* bound: calls of the controllers

Messages == 1..MaxMessages
Runners  == 1..MaxRunners
Dispatchers == Runners \cup {IO}      \* threads that may run dispatch()
Wakers   == Controllers \cup {IO}     \* threads that call executor->wakeup()

ASSUME SessionAssumption ==
    /\ MaxMessages \in Nat /\ MaxRunners \in Nat /\ MaxCalls \in Nat
    /\ AsyncModes \subseteq BOOLEAN /\ CheckForDuplicates \in BOOLEAN
    /\ Dest \in [Messages -> Consumers]
    /\ LateListeners \subseteq Consumers
    /\ None \notin Consumers \cup Dispatchers
    /\ IO \notin Controllers \cup Runners
    /\ IsFiniteSet(Controllers)

VARIABLES
    async,          \* isSessionAsyncDispatch(), fixed when the session is created
    arrived,        \* messages 1..arrived were received from the broker
    sessionQueue,   \* the executor's messageQueue
    running,        \* is messageQueue running
    channel,        \* unconsumedMessages of each consumer
    channelRunning, \* is that channel running
    channelLock,    \* the thread that owns the channel's lock
    listener,       \* has the consumer a listener
    listenerLock,   \* the thread that owns listenerMutex
    audit,          \* messages the connection's audit has seen
    taskRunner,     \* the executor's taskRunner (0: null)
    created,        \* task runners 1..created exist
    state,          \* DedicatedTaskRunner::state
    pending,        \* DedicatedTaskRunner::pending
    dpc,            \* where each dispatching thread is
    hold,           \* the message it carries (0: none)
    scan,           \* consumers iterateConsumers() has still to look at
    cur,            \* the consumer whose iterate() it is in
    wpc,            \* where a thread is inside wakeup()
    local,          \* a thread's local copy of taskRunner
    cpc,            \* where each controller is
    todo,           \* consumers its start() or stop() has still to visit
    target,         \* consumer whose listener it sets
    wasStarted,     \* setMessageListener()'s local wasStarted
    moved,          \* what is left of redispatch()'s list
    started,        \* ActiveMQConnection::started
    calls,          \* calls made so far
    delivered,      \* history: messages passed to onMessage
    suppressed,     \* history: messages poison acked as duplicates
    displaced       \* history: messages put back behind later ones by stop()

qvars == <<sessionQueue, running>>
kvars == <<channel, channelRunning>>
rvars == <<taskRunner, created, state, pending>>
dvars == <<dpc, hold, scan, cur>>
cvars == <<cpc, todo, target, wasStarted, moved, started, calls>>
wvars == <<wpc, local>>
lvars == <<channelLock, listenerLock>>
hvars == <<audit, delivered, suppressed, displaced>>
setup == <<async, listener>>
vars == <<arrived, qvars, kvars, rvars, dvars, cvars, wvars, lvars, hvars, setup>>

-----------------------------------------------------------------------------
Init ==
    /\ async \in AsyncModes
    /\ arrived = 0
    /\ sessionQueue = <<>> /\ running = FALSE
    /\ channel = [k \in Consumers |-> <<>>]
    /\ channelRunning = [k \in Consumers |-> FALSE]
    /\ channelLock = [k \in Consumers |-> None]
    /\ listener = [k \in Consumers |-> k \notin LateListeners]
    /\ listenerLock = [k \in Consumers |-> None]
    /\ audit = {}
    /\ taskRunner = 0 /\ created = 0
    /\ state = [r \in Runners |-> "RUNNING"]
    /\ pending = [r \in Runners |-> FALSE]
    /\ dpc = [d \in Dispatchers |-> IF d = IO THEN "idle" ELSE "unborn"]
    /\ hold = [d \in Dispatchers |-> 0]
    /\ scan = [d \in Dispatchers |-> {}]
    /\ cur = [d \in Dispatchers |-> None]
    /\ wpc = [w \in Wakers |-> "none"]
    /\ local = [w \in Wakers |-> 0]
    /\ cpc = [c \in Controllers |-> "idle"]
    /\ todo = [c \in Controllers |-> {}]
    /\ target = [c \in Controllers |-> None]
    /\ wasStarted = [c \in Controllers |-> FALSE]
    /\ moved = [c \in Controllers |-> <<>>]
    /\ started = FALSE
    /\ calls = 0
    /\ delivered = <<>> /\ suppressed = {} /\ displaced = {}

-----------------------------------------------------------------------------
(* ActiveMQSessionExecutor::execute and wakeup *)

\* execute(): an asynchronous session queues the message and wakes the runner,
\* a synchronous one dispatches on the reader thread.
Execute ==
    /\ dpc[IO] = "idle" /\ wpc[IO] = "none"
    /\ arrived < MaxMessages
    /\ arrived' = arrived + 1
    /\ IF async
         THEN /\ sessionQueue' = Append(sessionQueue, arrived')
              /\ wpc' = [wpc EXCEPT ![IO] = "wake"]
              /\ UNCHANGED dvars
         ELSE /\ hold' = [hold EXCEPT ![IO] = arrived']
              /\ dpc' = [dpc EXCEPT ![IO] = "dispatch"]
              /\ UNCHANGED <<sessionQueue, wpc, scan, cur>>
    /\ UNCHANGED <<running, kvars, rvars, cvars, local, lvars, hvars, setup>>

\* wakeup(), the section under the queue's lock: get the runner, or create and
\* start one if the queue is running.
WakeupLock(w) ==
    /\ wpc[w] = "wake"
    /\ \/ /\ ~async \/ (taskRunner = 0 /\ ~running)
          /\ wpc' = [wpc EXCEPT ![w] = "none"]
          /\ UNCHANGED <<rvars, local, dpc>>
       \/ /\ async /\ taskRunner = 0 /\ running
          /\ created < MaxRunners
          /\ created' = created + 1
          /\ taskRunner' = created'
          /\ pending' = [pending EXCEPT ![created'] = TRUE]
          /\ dpc' = [dpc EXCEPT ![created'] = "check"]
          /\ local' = [local EXCEPT ![w] = created']
          /\ wpc' = [wpc EXCEPT ![w] = "signal"]
          /\ UNCHANGED state
       \/ /\ async /\ taskRunner # 0
          /\ local' = [local EXCEPT ![w] = taskRunner]
          /\ wpc' = [wpc EXCEPT ![w] = "signal"]
          /\ UNCHANGED <<rvars, dpc>>
    /\ UNCHANGED <<arrived, qvars, kvars, hold, scan, cur, cvars, lvars, hvars, setup>>

\* DedicatedTaskRunner::wakeup(), outside the queue's lock.
WakeupSignal(w) ==
    /\ wpc[w] = "signal"
    /\ pending' = IF state[local[w]] = "RUNNING"
                    THEN [pending EXCEPT ![local[w]] = TRUE] ELSE pending
    /\ wpc' = [wpc EXCEPT ![w] = "none"]
    /\ UNCHANGED <<arrived, qvars, kvars, taskRunner, created, state, dvars, cvars,
                   local, lvars, hvars, setup>>

-----------------------------------------------------------------------------
(* DedicatedTaskRunner::run and the executor's iterate() it calls *)

RunCheck(r) ==
    /\ dpc[r] = "check"
    /\ IF state[r] # "RUNNING"
         THEN /\ state' = [state EXCEPT ![r] = "STOPPED"]
              /\ dpc' = [dpc EXCEPT ![r] = "done"]
         ELSE /\ dpc' = [dpc EXCEPT ![r] = "clear"]
              /\ UNCHANGED state
    /\ UNCHANGED <<arrived, qvars, kvars, taskRunner, created, pending, hold, scan, cur,
                   cvars, wvars, lvars, hvars, setup>>

RunClear(r) ==
    /\ dpc[r] = "clear"
    /\ pending' = [pending EXCEPT ![r] = FALSE]
    /\ dpc' = [dpc EXCEPT ![r] = "scan"]
    /\ scan' = [scan EXCEPT ![r] = Consumers]
    /\ UNCHANGED <<arrived, qvars, kvars, taskRunner, created, state, hold, cur, cvars,
                   wvars, lvars, hvars, setup>>

\* iterateConsumers(): ActiveMQConsumerKernel::iterate() takes listenerMutex ...
IterateConsumer(r, k) ==
    /\ dpc[r] = "scan" /\ k \in scan[r]
    /\ listenerLock[k] = None
    /\ IF listener[k]
         THEN /\ listenerLock' = [listenerLock EXCEPT ![k] = r]
              /\ cur' = [cur EXCEPT ![r] = k]
              /\ dpc' = [dpc EXCEPT ![r] = "poll"]
              /\ UNCHANGED scan
         ELSE /\ scan' = [scan EXCEPT ![r] = @ \ {k}]
              /\ UNCHANGED <<listenerLock, cur, dpc>>
    /\ UNCHANGED <<arrived, qvars, kvars, rvars, hold, cvars, wvars, channelLock, hvars,
                   setup>>

\* ... and, still holding it, takes a message that was put aside.
PollConsumer(r) ==
    LET k == cur[r] IN
    /\ dpc[r] = "poll"
    /\ channelLock[k] = None
    /\ IF channelRunning[k] /\ channel[k] # <<>>
         THEN /\ hold' = [hold EXCEPT ![r] = Head(channel[k])]
              /\ channel' = [channel EXCEPT ![k] = Tail(@)]
              /\ dpc' = [dpc EXCEPT ![r] = "dispatch"]
              /\ UNCHANGED <<scan, cur, listenerLock>>
         ELSE /\ dpc' = [dpc EXCEPT ![r] = "scan"]
              /\ scan' = [scan EXCEPT ![r] = @ \ {k}]
              /\ cur' = [cur EXCEPT ![r] = None]
              /\ listenerLock' = [listenerLock EXCEPT ![k] = None]
              /\ UNCHANGED <<hold, channel>>
    /\ UNCHANGED <<arrived, qvars, channelRunning, rvars, cvars, wvars, channelLock, hvars,
                   setup>>

\* Mutant of DequeueNoWait: the message is looked at, not removed.
DequeuePeeks(r) ==
    /\ hold' = [hold EXCEPT ![r] = Head(sessionQueue)]
    /\ UNCHANGED sessionQueue

\* Mutant of DequeueNoWait: the newest message is taken.
DequeueNewest(r) ==
    /\ hold' = [hold EXCEPT ![r] = Last(sessionQueue)]
    /\ sessionQueue' = Front(sessionQueue)

DequeueNoWait(r) ==
    /\ hold' = [hold EXCEPT ![r] = Head(sessionQueue)]
    /\ sessionQueue' = Tail(sessionQueue)

\* iterate(), no consumer had anything: dequeueNoWait() on the session's queue.
Dequeue(r) ==
    /\ dpc[r] = "scan" /\ scan[r] = {}
    /\ IF running /\ sessionQueue # <<>>
         THEN /\ DequeueNoWait(r)
              /\ dpc' = [dpc EXCEPT ![r] = "dispatch"]
         ELSE /\ dpc' = [dpc EXCEPT ![r] = "wait"]
              /\ UNCHANGED <<hold, sessionQueue>>
    /\ UNCHANGED <<arrived, running, kvars, rvars, scan, cur, cvars, wvars, lvars, hvars,
                   setup>>

\* run(): iterate() returned false, wait until woken or shut down.
RunWait(r) ==
    /\ dpc[r] = "wait"
    /\ pending[r] \/ state[r] # "RUNNING"
    /\ dpc' = [dpc EXCEPT ![r] = "check"]
    /\ UNCHANGED <<arrived, qvars, kvars, rvars, hold, scan, cur, cvars, wvars, lvars,
                   hvars, setup>>

-----------------------------------------------------------------------------
(* ActiveMQConsumerKernel::dispatch *)

\* The thread is through with its message: iterateConsumers() returned true,
\* or iterate() returns whether the session's queue holds more.
FinishDispatch(d) ==
    /\ hold' = [hold EXCEPT ![d] = 0]
    /\ cur' = [cur EXCEPT ![d] = None]
    /\ dpc' = [dpc EXCEPT ![d] =
                 IF d = IO THEN "idle"
                 ELSE IF cur[d] # None \/ sessionQueue # <<>> THEN "check" ELSE "wait"]
    /\ listenerLock' = [k \in Consumers |->
                          IF listenerLock[k] = d THEN None ELSE listenerLock[k]]
    /\ channelLock' = [k \in Consumers |->
                         IF channelLock[k] = d THEN None ELSE channelLock[k]]
    /\ UNCHANGED scan

\* A duplicate gets a poison ack and is never shown to the application.
SuppressDuplicate(d) ==
    /\ suppressed' = suppressed \cup {hold[d]}
    /\ FinishDispatch(d)
    /\ UNCHANGED audit

\* dispatch(): lock the channel and ask the audit.
Dispatch(d) ==
    LET m == hold[d] IN
    /\ dpc[d] = "dispatch"
    /\ channelLock[Dest[m]] = None
    /\ IF CheckForDuplicates /\ m \in audit
         THEN SuppressDuplicate(d)
         ELSE /\ channelLock' = [channelLock EXCEPT ![Dest[m]] = d]
              /\ audit' = audit \cup {m}
              /\ dpc' = [dpc EXCEPT ![d] = "listen"]
              /\ UNCHANGED <<suppressed, hold, scan, cur, listenerLock>>
    /\ UNCHANGED <<arrived, qvars, kvars, rvars, cvars, wvars, delivered, displaced, setup>>

\* Mutant of PutAside: a message put aside stays recorded in the audit.
PutAsideKeepsAudit(k, m) ==
    /\ channel' = [channel EXCEPT ![k] = Append(@, m)]
    /\ UNCHANGED audit

\* Mutant of PutAside: the dispatch was moved from before it is queued.
PutAsideNull(k, m) ==
    /\ channel' = [channel EXCEPT ![k] = Append(@, 0)]
    /\ audit' = IF channelRunning[k] THEN audit ELSE audit \ {m}

\* dispatch() queues the message at the consumer; if that is because the
\* consumer is stopped, the audit forgets it.
PutAside(k, m) ==
    /\ channel' = [channel EXCEPT ![k] = Append(@, m)]
    /\ audit' = IF channelRunning[k] THEN audit ELSE audit \ {m}

\* dispatch(), under listenerMutex too: call the listener, or put it aside.
Listen(d) ==
    LET m == hold[d]
        k == Dest[m]
    IN
    /\ dpc[d] = "listen"
    /\ listenerLock[k] \in {None, d}
    /\ IF listener[k] /\ channelRunning[k]
         THEN /\ listenerLock' = [listenerLock EXCEPT ![k] = d]
              /\ delivered' = Append(delivered, m)
              /\ dpc' = [dpc EXCEPT ![d] = "onMessage"]
              /\ UNCHANGED <<channel, channelLock, hold, scan, cur, audit, displaced>>
         ELSE /\ PutAside(k, m)
              /\ FinishDispatch(d)
              /\ displaced' = IF cur[d] = k /\ channel[k] # <<>>
                                THEN displaced \cup {m} ELSE displaced
              /\ UNCHANGED delivered
    /\ UNCHANGED <<arrived, qvars, channelRunning, rvars, cvars, wvars, suppressed,
                   setup>>

OnMessageReturns(d) ==
    /\ dpc[d] = "onMessage"
    /\ FinishDispatch(d)
    /\ UNCHANGED <<arrived, qvars, kvars, rvars, cvars, wvars, hvars, setup>>

-----------------------------------------------------------------------------
(* Connection::start and stop, which run the session's, and              *)
(* ActiveMQConsumerKernel::setMessageListener                            *)

Idle(c) == cpc[c] = "idle" /\ wpc[c] = "none"

\* Where a controller goes once the session is stopped.
AfterStop(c) == IF target[c] = None THEN "idle" ELSE "assign"

Begin(c, pc, ks) ==
    /\ calls < MaxCalls /\ calls' = calls + 1
    /\ cpc' = [cpc EXCEPT ![c] = pc]
    /\ todo' = [todo EXCEPT ![c] = ks]

Start(c) ==
    /\ Idle(c) /\ ~started
    /\ started' = TRUE
    /\ Begin(c, "startConsumers", Consumers)
    /\ UNCHANGED <<arrived, qvars, kvars, rvars, dvars, target, wasStarted, moved, wvars,
                   lvars, hvars, setup>>

StartConsumer(c, k) ==
    /\ cpc[c] = "startConsumers" /\ wpc[c] = "none" /\ k \in todo[c]
    /\ channelLock[k] = None
    /\ channelRunning' = [channelRunning EXCEPT ![k] = TRUE]
    /\ todo' = [todo EXCEPT ![c] = @ \ {k}]
    /\ wpc' = [wpc EXCEPT ![c] = "wake"]
    /\ UNCHANGED <<arrived, qvars, channel, rvars, dvars, cpc, target, wasStarted, moved,
                   started, calls, local, lvars, hvars, setup>>

\* ActiveMQSessionExecutor::start(): if the queue is not running ...
StartTest(c) ==
    /\ cpc[c] = "startConsumers" /\ wpc[c] = "none" /\ todo[c] = {}
    /\ cpc' = [cpc EXCEPT ![c] = IF running THEN "idle" ELSE "startQueue"]
    /\ UNCHANGED <<arrived, qvars, kvars, rvars, dvars, todo, target, wasStarted,
                   moved, started, calls, wvars, lvars, hvars, setup>>

\* ... start it ...
StartQueue(c) ==
    /\ cpc[c] = "startQueue"
    /\ running' = TRUE
    /\ cpc' = [cpc EXCEPT ![c] = "startCheck"]
    /\ UNCHANGED <<arrived, sessionQueue, kvars, rvars, dvars, todo, target, wasStarted,
                   moved, started, calls, wvars, lvars, hvars, setup>>

\* Mutant of HasUncomsumedMessages: start() does not see what is queued already.
NothingUnconsumed == FALSE

HasUncomsumedMessages == running /\ sessionQueue # <<>>

\* ... and wake the runner up if messages are queued already.
StartCheck(c) ==
    /\ cpc[c] = "startCheck"
    /\ wpc' = [wpc EXCEPT ![c] = IF HasUncomsumedMessages THEN "wake" ELSE @]
    /\ cpc' = [cpc EXCEPT ![c] = "idle"]
    /\ UNCHANGED <<arrived, qvars, kvars, rvars, dvars, todo, target, wasStarted, moved,
                   started, calls, local, lvars, hvars, setup>>

Stop(c) ==
    /\ Idle(c) /\ started
    /\ started' = FALSE
    /\ Begin(c, "stopConsumers", Consumers)
    /\ UNCHANGED <<arrived, qvars, kvars, rvars, dvars, target, wasStarted, moved, wvars,
                   lvars, hvars, setup>>

\* Stopping a consumer's channel needs its lock: it waits for onMessage.
StopConsumer(c, k) ==
    /\ cpc[c] = "stopConsumers" /\ k \in todo[c]
    /\ channelLock[k] = None
    /\ channelRunning' = [channelRunning EXCEPT ![k] = FALSE]
    /\ todo' = [todo EXCEPT ![c] = @ \ {k}]
    /\ UNCHANGED <<arrived, qvars, channel, rvars, dvars, cpc, target, wasStarted, moved,
                   started, calls, wvars, lvars, hvars, setup>>

\* ActiveMQSessionExecutor::stop(), under the queue's lock: take the runner away.
StopQueue(c) ==
    /\ cpc[c] = "stopConsumers" /\ todo[c] = {}
    /\ running' = FALSE
    /\ IF running /\ taskRunner # 0
         THEN /\ local' = [local EXCEPT ![c] = taskRunner]
              /\ taskRunner' = 0
              /\ cpc' = [cpc EXCEPT ![c] = "shutdown"]
         ELSE /\ cpc' = [cpc EXCEPT ![c] = AfterStop(c)]
              /\ UNCHANGED <<local, taskRunner>>
    /\ UNCHANGED <<arrived, sessionQueue, kvars, created, state, pending, dvars, todo,
                   target, wasStarted, moved, started, calls, wpc, lvars, hvars, setup>>

\* Mutant of RequestStop: the runner is woken and not told to stop.
RequestStopForgotten(r) ==
    /\ pending' = [pending EXCEPT ![r] = TRUE]
    /\ UNCHANGED state

RequestStop(r) ==
    /\ state' = [state EXCEPT ![r] = "STOPPING"]
    /\ pending' = [pending EXCEPT ![r] = TRUE]

\* DedicatedTaskRunner::shutdown(), first phase.
Shutdown(c) ==
    /\ cpc[c] = "shutdown"
    /\ IF state[local[c]] = "RUNNING"
         THEN /\ RequestStop(local[c])
              /\ cpc' = [cpc EXCEPT ![c] = "join"]
         ELSE /\ cpc' = [cpc EXCEPT ![c] = AfterStop(c)]
              /\ UNCHANGED <<state, pending>>
    /\ UNCHANGED <<arrived, qvars, kvars, taskRunner, created, dvars, todo, target,
                   wasStarted, moved, started, calls, wvars, lvars, hvars, setup>>

\* Mutant of Join: the runner's thread is not waited for.
JoinReturns(c) ==
    /\ cpc[c] = "join"
    /\ cpc' = [cpc EXCEPT ![c] = AfterStop(c)]
    /\ UNCHANGED <<arrived, qvars, kvars, rvars, dvars, todo, target, wasStarted, moved,
                   started, calls, wvars, lvars, hvars, setup>>

\* Second phase: join the runner's thread.
Join(c) ==
    /\ cpc[c] = "join"
    /\ dpc[local[c]] = "done"
    /\ cpc' = [cpc EXCEPT ![c] = AfterStop(c)]
    /\ UNCHANGED <<arrived, qvars, kvars, rvars, dvars, todo, target, wasStarted, moved,
                   started, calls, wvars, lvars, hvars, setup>>

\* setMessageListener(): a started session is stopped first.
SetMessageListener(c, k) ==
    /\ Idle(c) /\ ~listener[k]
    /\ target' = [target EXCEPT ![c] = k]
    /\ wasStarted' = [wasStarted EXCEPT ![c] = running]
    /\ Begin(c, IF running THEN "stopConsumers" ELSE "assign", Consumers)
    /\ UNCHANGED <<arrived, qvars, kvars, rvars, dvars, moved, started, wvars, lvars, hvars,
                   setup>>

AssignListener(c) ==
    LET k == target[c] IN
    /\ cpc[c] = "assign"
    /\ listenerLock[k] = None
    /\ listener' = [listener EXCEPT ![k] = TRUE]
    /\ cpc' = [cpc EXCEPT ![c] = "redispatch"]
    /\ UNCHANGED <<arrived, qvars, kvars, rvars, dvars, todo, target, wasStarted, moved,
                   started, calls, wvars, lvars, hvars, async>>

\* redispatch(): take what was put aside ...
Redispatch(c) ==
    LET k == target[c] IN
    /\ cpc[c] = "redispatch"
    /\ channelLock[k] = None
    /\ moved' = [moved EXCEPT ![c] = channel[k]]
    /\ channel' = [channel EXCEPT ![k] = <<>>]
    /\ cpc' = [cpc EXCEPT ![c] = "executeFirst"]
    /\ UNCHANGED <<arrived, qvars, channelRunning, rvars, dvars, todo, target, wasStarted,
                   started, calls, wvars, lvars, hvars, setup>>

\* Mutant of MoveBack: the list is walked from its front.
MoveBackForwards(c) ==
    /\ sessionQueue' = <<Head(moved[c])>> \o sessionQueue
    /\ moved' = [moved EXCEPT ![c] = Tail(@)]

MoveBack(c) ==
    /\ sessionQueue' = <<Last(moved[c])>> \o sessionQueue
    /\ moved' = [moved EXCEPT ![c] = Front(@)]

\* ... and executeFirst() each, from the back.
ExecuteFirst(c) ==
    /\ cpc[c] = "executeFirst" /\ wpc[c] = "none"
    /\ moved[c] # <<>>
    /\ MoveBack(c)
    /\ wpc' = [wpc EXCEPT ![c] = "wake"]
    /\ UNCHANGED <<arrived, running, kvars, rvars, dvars, cpc, todo, target, wasStarted,
                   started, calls, local, lvars, hvars, setup>>

\* The end of setMessageListener(): start the session again if it was started.
RedispatchDone(c) ==
    /\ cpc[c] = "executeFirst" /\ wpc[c] = "none"
    /\ moved[c] = <<>>
    /\ target' = [target EXCEPT ![c] = None]
    /\ cpc' = [cpc EXCEPT ![c] = IF wasStarted[c] THEN "startConsumers" ELSE "idle"]
    /\ todo' = [todo EXCEPT ![c] = Consumers]
    /\ UNCHANGED <<arrived, qvars, kvars, rvars, dvars, wasStarted, moved, started, calls,
                   wvars, lvars, hvars, setup>>

-----------------------------------------------------------------------------
WakerStep(w) == WakeupLock(w) \/ WakeupSignal(w)

DispatchStep(d) == Dispatch(d) \/ Listen(d) \/ OnMessageReturns(d)

RunnerStep(r) ==
    \/ RunCheck(r) \/ RunClear(r) \/ RunWait(r)
    \/ PollConsumer(r) \/ Dequeue(r)
    \/ \E k \in Consumers : IterateConsumer(r, k)

ControllerStep(c) ==
    \/ StartTest(c) \/ StartQueue(c) \/ StartCheck(c)
    \/ StopQueue(c) \/ Shutdown(c) \/ Join(c)
    \/ AssignListener(c) \/ Redispatch(c) \/ ExecuteFirst(c) \/ RedispatchDone(c)
    \/ \E k \in Consumers : StartConsumer(c, k) \/ StopConsumer(c, k)

Next ==
    \/ Execute
    \/ \E w \in Wakers : WakerStep(w)
    \/ \E d \in Dispatchers : DispatchStep(d)
    \/ \E r \in Runners : RunnerStep(r)
    \/ \E c \in Controllers : ControllerStep(c) \/ Start(c) \/ Stop(c)
    \/ \E c \in Controllers : \E k \in LateListeners : SetMessageListener(c, k)

Spec == Init /\ [][Next]_vars

\* Every thread that can take a step takes one; a listener's onMessage returns.
\* Nothing forces a call of the application or a message from the broker.
Fairness ==
    /\ \A w \in Wakers : WF_vars(WakerStep(w))
    /\ \A d \in Dispatchers : WF_vars(DispatchStep(d))
    /\ \A r \in Runners : WF_vars(RunnerStep(r))
    /\ \A c \in Controllers : WF_vars(ControllerStep(c))

FairSpec == Spec /\ Fairness

-----------------------------------------------------------------------------
(* Properties *)

\* The variables hold what the fields and locals they model can hold; the
\* queues never hold a null dispatch.
TypeOK ==
    /\ async \in AsyncModes /\ arrived \in 0..MaxMessages
    /\ sessionQueue \in Seq(Messages) /\ running \in BOOLEAN
    /\ channel \in [Consumers -> Seq(Messages)]
    /\ channelRunning \in [Consumers -> BOOLEAN]
    /\ channelLock \in [Consumers -> Dispatchers \cup {None}]
    /\ listener \in [Consumers -> BOOLEAN]
    /\ listenerLock \in [Consumers -> Dispatchers \cup {None}]
    /\ audit \subseteq Messages
    /\ taskRunner \in 0..created /\ created \in 0..MaxRunners
    /\ state \in [Runners -> {"RUNNING", "STOPPING", "STOPPED"}]
    /\ pending \in [Runners -> BOOLEAN]
    /\ dpc \in [Dispatchers -> {"unborn", "idle", "check", "clear", "scan", "poll", "wait",
                               "dispatch", "listen", "onMessage", "done"}]
    /\ hold \in [Dispatchers -> Messages \cup {0}]
    /\ scan \in [Dispatchers -> SUBSET Consumers]
    /\ cur \in [Dispatchers -> Consumers \cup {None}]
    /\ wpc \in [Wakers -> {"none", "wake", "signal"}]
    /\ local \in [Wakers -> 0..MaxRunners]
    /\ cpc \in [Controllers -> {"idle", "startConsumers", "startQueue", "startCheck",
                               "stopConsumers", "shutdown", "join", "assign", "redispatch",
                               "executeFirst"}]
    /\ todo \in [Controllers -> SUBSET Consumers]
    /\ target \in [Controllers -> Consumers \cup {None}]
    /\ wasStarted \in [Controllers -> BOOLEAN] /\ started \in BOOLEAN
    /\ moved \in [Controllers -> Seq(Messages)]
    /\ delivered \in Seq(Messages)
    /\ suppressed \subseteq Messages /\ displaced \subseteq Messages

\* The positions of message m in a queue, and in what redispatch() has still to
\* put back.
Positions(s, m) == {i \in 1..Len(s) : s[i] = m}
Returning(m) == UNION {{c} \X Positions(moved[c], m) : c \in Controllers}

\* The threads that carry m and have not passed it to onMessage.
Carriers(m) == {d \in Dispatchers : hold[d] = m /\ dpc[d] # "onMessage"}

Places(m) ==
    Cardinality(Positions(sessionQueue, m))
    + Cardinality(Positions(channel[Dest[m]], m))
    + Cardinality(Positions(delivered, m))
    + Cardinality(Returning(m))
    + Cardinality(Carriers(m))
    + Cardinality({m} \cap suppressed)

\* Every message the session has received is in exactly one place: queued at
\* the session, put aside at its consumer, in a thread's hands, on its way back
\* through redispatch(), delivered or suppressed.  None is lost and none is
\* doubled by stop, start or a new listener.  That includes what arrives while the
\* connection is stopped: a comment in ActiveMQConnection::start() says that such
\* messages "are dropped and not acknowledged", but execute() queues them.
InOnePlace == \A m \in Messages : Places(m) = IF m <= arrived THEN 1 ELSE 0

\* Positions of delivered at which message j came too late: a later message of
\* its consumer was delivered before it.
Overtaken(i, j) ==
    i < j /\ Dest[delivered[i]] = Dest[delivered[j]] /\ delivered[i] > delivered[j]

\* A session "defines a serial order for the messages it consumes": the listener
\* of a consumer sees its messages in the order the broker sent them, across
\* stop, start and redispatch, but for a message that iterate() had taken from
\* its consumer when stop() came and that dispatch() then put back behind the
\* others: there is no other way to lose the order.
InOrderButForStop ==
    \A i, j \in 1..Len(delivered) : Overtaken(i, j) => delivered[j] \in displaced

\* The broker sends every message once, so the duplicate check of dispatch()
\* suppresses none, although a message may pass through dispatch() repeatedly.
NothingSuppressed == suppressed = {}

\* cms::Session "serializes execution of message listeners": at most one thread
\* carries a message of this session towards onMessage.
SerialDispatch ==
    \A d, e \in Dispatchers : hold[d] # 0 /\ hold[e] # 0 => d = e

\* "Once current deliveries are done this stops the delivery of any new
\* messages": when stop() has returned and nobody has started the connection
\* again, no thread is in onMessage and no runner carries a message towards it.
StopQuiesces ==
    ~started /\ (\A c \in Controllers : Idle(c)) =>
        /\ \A d \in Dispatchers : dpc[d] # "onMessage"
        /\ \A r \in Runners : hold[r] = 0

\* The connection stays started and no call is in progress.
Settled == started /\ \A c \in Controllers : Idle(c)

\* No wakeup is lost between execute(), start(), stop() and the runner: once
\* the session stays started its queue is emptied.
QueueDrains == <>[]Settled => <>[](sessionQueue = <<>>)

\* Once the session stays started every message for a consumer with a listener
\* reaches the listener.
NothingStuck ==
    <>[]Settled =>
        <>[](\A m \in 1..arrived : listener[Dest[m]] => m \in ToSet(delivered))

\* start(), stop() and setMessageListener() return: joining the runner and
\* waiting for the locks it holds across onMessage never block for ever.
CallsReturn == \A c \in Controllers : ~Idle(c) ~> Idle(c)
=============================================================================
