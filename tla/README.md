# NeoActiveMQ-CPP: a TLA+ verification project

This directory holds TLA+ models of the parts of the NeoActiveMQ-CPP client
(`src/activemq-cpp/src/main/activemq`, below abbreviated `amq/`) in which threads, failures and
retries meet: how requests are matched with answers, how messages reach a listener, how they are
acknowledged, rolled back and redelivered, how commands survive a broken connection, how dispatching resumes after it, and how
a silent broker is found. TLC checks each model on small instances, and TLAPS proves most of their
safety properties for every value of the constants: any number of threads, commands, connections, consumers or messages.

## 1. Inventory

A connection is a chain of transports: `ResponseCorrelator` on top, then `FailoverTransport`, then per
broker an inactivity monitor, a wire format negotiator and the socket transport, whose reader thread calls
`onCommand` and `onException` upwards. Above the chain, `ActiveMQConnection` hands a
`MessageDispatch` to the session's executor, which a task runner drains into the consumers.

| Component | State | Operations | What makes it correct |
|---|---|---|---|
| Request/response correlation (`transport/correlator`) | request map, prior error, command ids, one latch per request | `request`, `asyncRequest`, `onCommand`, `onException`, `close` | every future completed at most once, nobody waits on a future nobody knows, no leaked entries, no request after an error |
| Session dispatch (`core/ActiveMQSessionExecutor`, `threads/DedicatedTaskRunner`, parts of the session and consumer kernels) | session queue, task runner and its `pending` flag, per-consumer channel, two locks per consumer, duplicate audit | `execute`, `wakeup`, `iterate`, `dispatch`, `start`, `stop`, `setMessageListener` | no message lost, doubled, reordered or suppressed; listeners run one at a time; `stop` returns when delivery is over; no lost wakeup, no deadlock |
| Failover transport (`transport/failover`) | connected transport, URI pool, per-URI failure counts, request map, flags, close task | `oneway`, `iterate`, `handleTransportFailure`, `restoreTransport`, `add`, `removeURI`, `reconnect`, `stop`, `close` | an accepted request is not forgotten and is sent once per connection; state before requests; the listener's view; senders and `close` get through |
| Connection state tracker (`state/`) | connections, sessions, consumers, producers, transactions | `track`, `restore` | restore order, transactions in doubt |
| Dispatch channels (`core/*MessageDispatchChannel`) | queues by priority, running, closed | `enqueue`, `dequeue`, `start`, `stop`, `clear` | the priority channel is a channel: counters agree with contents |
| Consumer acknowledgement, redelivery (`core/kernels/ActiveMQConsumerKernel`) | delivered and unconsumed messages, pending ack, redelivery counts, what an interrupted transaction waits for | `receive`, `acknowledge`, `dispatch`, `rollback`, `recover`, clearing after an interruption | the broker removes what the application has settled; nothing settled is given again; no unjustified dead letter; nothing is left behind |
| Transactions (`core/ActiveMQTransactionContext`) | transaction id, XA state, synchronizations | `begin`, `commit`, `rollback`, XA verbs | what `commit` reports is what the broker did, also across a failover; XA protocol |
| Producer, flow control (`util/MemoryUsage`) | window usage | `send`, `onProducerAck` | no lost wakeup at the limit |
| Message audit | bit set per producer in an LRU cache | `isDuplicate`, `rollback` | no false duplicate |
| Connection | started, closed, transport failed, dispatchers, count of consumers to be cleared | `start`, `stop`, `close`, fan-out of interruptions | clean-up once, everyone is told, dispatching resumes |
| Inactivity monitor (`transport/inactivity`) | read and write flags, timers, a task runner | read check, write check, `oneway`, `onCommand`, `onException`, `close` | no false alarm, a lost peer is reported once, `close` returns |
| Task runners | tasks, `pending`, state | `wakeup`, `shutdown` | shutdown waits for the task |
| Backup transports, discovery | pools of transports and brokers | | |
| Wire formats, commands, sockets, `cmsutil`, utilities, decaf, the generator | | generated code, I/O, conversions | not modelled |

The hard behaviours: locks held across callbacks (`dispatch` calls `onMessage` under two locks), flags read under a lock
and used after it (`wakeup`, `stop`, `dispose`, `iterate`), retries that compete with a replay, a failure
report that arrives after the connection it concerns was replaced, and limits counted in two places.
`PROJECT.json` lists them as hazards, each at its line, with the properties that would catch it.

## 2. Plan

| Order | Module | State of the work |
|---|---|---|
| 1 | `ResponseCorrelator`, `RequestService`, `ResponseCorrelatorProofs` | modelled, checked; safety and the refinement of `RequestService` proved |
| 2 | `SessionDispatch`, `SessionDispatchProofs`, `SessionOrderProofs` | modelled, checked, safety proved |
| 3 | `Failover`, `FailoverProofs` | modelled, checked, safety proved (`NoNullFailure` while no URI changes) |
| 4 | `ConsumerAck`, `ConsumerAckProofs`, `ConsumerSettleProofs` | acknowledgement, redelivery, local transactions and their failover: modelled, checked; `TypeOK`, `NotGivenAgain`, `PoisonIsJustified` and `ConsumedIsSettled` proved, `CommitConsumesUnlessCaught` only checked |
| 5 | `TransportRecovery`, `TransportRecoveryProofs` | the clearing of consumers and the resumption of dispatching: modelled, checked, safety proved |
| 6 | `InactivityMonitor`, `InactivityMonitorProofs` | modelled, checked, safety proved; the module has no constants, so TLC's run is exhaustive |
| 7 | producer window, message audit, dispatch channels | small sequential components, not started |

Backups, `updateURIs` and `MessagePull` extend module 3. Every module is written without
RECURSIVE operators, its bounds are CONSTANTS, and its operations are one action per critical section, so that
proofs can follow the checks.

## 3. Modules

### ResponseCorrelator

Source: `amq/transport/correlator/ResponseCorrelator.cpp`, `FutureResponse.cpp`, `close` of
`TransportFilter.cpp`. One action per critical section of `mapMutex` or atomic operation. An application thread is
at `idle`, `register` (id taken, not yet in the map), `send`, `await` (blocked on the latch) or `finalize`.
The broker side is `wire`: how often each command will still be answered, 0 when it is lost, more than one when a
failover below replays it. `dispose` is two actions and a loop: `TakeRequests` under the lock,
`FailRequest` outside it. `requestMap` is the set of its keys, `response` the latch, `completions` counts calls of
`setResponse`. Contents of commands are left out. The bounds: `MaxCommandId`, `MaxReplies`.

### SessionDispatch

Source: `ActiveMQSessionExecutor.cpp`, `DedicatedTaskRunner.cpp`, `FifoMessageDispatchChannel.cpp` and the parts of
`ActiveMQSessionKernel.cpp`, `ActiveMQConsumerKernel.cpp` and `ActiveMQConnection.cpp` that start, stop and dispatch.
Threads: the transport's reader `IO`, the runners (a new one for every `start` after a `stop`) and the application's
`Controllers`. The channel lock and `listenerMutex` are variables because they are held across `onMessage`; every other
critical section is a step. `hold` is the message a thread carries between its steps, `scan` the consumers
`iterateConsumers` has not looked at, `local` a thread's copy of the shared pointer to the runner.
`async` chooses between a session with a dispatch thread and one whose reader dispatches itself. `delivered`,
`suppressed` and `displaced` are history. Consumers are fixed, acknowledge automatically and do not prefetch zero.

### Failover

Source: `FailoverTransport.cpp`, its listener, `CloseTransportsTask.cpp`, `URIPool.cpp`, and the loop of
`CompositeTaskRunner.cpp`. Threads: one sender per command, the task runner, one reader per connection, the
application that adds and removes URIs, stops and closes. `reconnectMutex` is the variable `mutex`:
`iterate` keeps it across a connection attempt and the restore, `oneway` across its retries. `iterate` is
split where it releases the lock (`Iterate`, `IterateResume`) and where something outside may fail
(`PickUri`, `StartFails`/`StartSucceeds`, `RestoreWrite`, `RestoreCopy`, `RestoreThrows`, `Publish`,
`IterateTail`). A connection is a number; a write to a broken one is lost or throws. The state tracker is the set of
tracked commands; the order inside it is the order of command ids. A broker side that answers is `OnResponse`, a network
that breaks connections is `Break`; the latter is the only definition that models nothing in the repository.
Bounds: `MaxConnections`, `MaxRequests` (changes of the URIs), `MaxCooldowns` (recoveries of exhausted brokers);
the counters stop one above the larger limit (`CountCap`), since no guard tells larger values apart.
Left out: backups, `updateURIs`, `MessagePull`, the cache of messages, transactions.

### RequestService

The abstract specification of the request/response layer: a request is unused, pending, or ended by an answer, an error or a
withdrawal, for good, and a service that has stopped accepting accepts nothing more. `ResponseCorrelator` defines `status`
(`Pending`: in the map, or in a copy `dispose` works through and not completed; then the latch decides) and maps
`accepting` to "no error recorded". `ImplementsService` is the abstract specification as a property of `correlator`.

### ConsumerAck

Source: the acknowledgement and redelivery side of `ActiveMQConsumerKernel.cpp`, the session's `commit`, `rollback`, `recover` and
`acknowledge`, the local transactions of `ActiveMQTransactionContext.cpp`, and what `ConnectionStateTracker.cpp` replays of a
transaction. Threads: the application, the dispatching thread, the scheduler (`ClearConsumerTask`, `StartConsumerTask`) and the
transport. A step is one section under the lock of `deliveredMessages` or `unconsumedMessages`; `apc` and `dpc` are where
the application and the dispatching thread are. `delivered` keeps `deliveredMessages` oldest first (the code adds at the front).
`previously` is `previouslyDeliveredMessages`: absent, waiting to come back, come back. The broker is external: it keeps a window of
`Prefetch` messages it has not heard of, applies an acknowledgement to the range between its two
messages, and takes back what was not acknowledged when the connection is lost.
`receive` starts with `sendPullRequest`, which clears the delivered list after an interruption; the acknowledgement of a single message is two steps, the ack and
the removal from `deliveredMessages` (`acked` is the message in between).

`sync` says whether the consumer is among the synchronizations of the transaction context, which is not the same as being in a transaction: a COMMIT that is answered with a failure
(`CommitInDoubt`) leaves the context without a transaction, but it passes the handler that would call `afterRollback`, so the consumer stays registered and keeps what it has delivered. A `commit` or `rollback` that
follows (`CommitAgain`, `Rollback`) acknowledges first, and that begins a transaction and clears the synchronizations: the consumer's own `commit` or `rollback` is skipped at its end.

The last five variables are history. `doubt` are messages that a commit has consumed while its answer was lost, and only these; `returned` those of a failed commit that the application has not received since.
`caught` are the messages an interruption caught half way (in a thread's hands, in a `commit` that has not sent
its COMMIT, not known to the audit, or held by an application that acknowledges itself), those of a commit with one of them, and those a `commit` that skipped the consumer left with it. What the properties
say of the other messages is exact, what happens to these is in section 6. Bounds: `MaxMessages`, `MaxFailures`, `MaxRollbacks`.

### TransportRecovery

Source: `transportInterrupted` and its completion in `ActiveMQConnection.cpp`, `clearMessagesInProgress` of the session and consumer
kernels, `doRestoreConsumers` and `connectionInterruptProcessingComplete` of the state tracker. It is the composition ConsumerAck
leaves out: several consumers, one counter, one flag per consumer, readers that do not wait but report the completion themselves. Every connection has a reader
of its own; those of lost connections may still be in `onCommand`, with a message of theirs, when the next one enters it.
Every load and store of the shared counter is a step; `owner` is the lock of a consumer's channel, which a clearing
thread keeps while it reports. A message is the number of its connection. `stale` and `raced` are history. Bounds: `MaxInterruptions`, and `MaxReaders`, the readers that are in `onCommand` at once.

### InactivityMonitor

Source: `InactivityMonitor.cpp`, the two checkers, `CompositeTaskRunner.cpp`, `onException`, `stop` and `close` of
`TransportFilter.cpp`, `run`, `oneway` and `close` of `IOTransport.cpp` and the `receiving` flag of `OpenWireFormat.cpp`. Six threads: reader,
sender, runner, read timer, write timer, closer. The mutexes `monitor` and `inWriteMutex` are variables because one is held across a join and the other
across a write. The peer talks, is silent or is gone; there are no clocks, a timer may fire at any moment. `during`, `since` and
`falseAlarm` are history for the read check. There are no constants: it is one connection with each of its threads, for agreed durations above zero.

## 4. Runs

| Run | What it checks | Size |
|---|---|---|
| `correlator` | `TypeOK`, `CompletedAtMostOnce`, `NoLeakedRequest`, `WaiterIsReachable`, `NoRequestAfterError`, `DisposeReleasesWaiters`, `ImplementsService` with 2 requesters, 2 closers, 2 commands, 2 answers each, broker errors | 0.6M states |
| `session_start_stop` | `TypeOK`, `InOnePlace`, `InOrderButForStop`, `NothingSuppressed`, `SerialDispatch`, `StopQuiesces` with 2 consumers, 4 messages, 3 runners, 5 calls of start and stop, both dispatch modes | 0.6M |
| `session_liveness` | `InOrderButForStop`, `QueueDrains`, `CallsReturn` with a listener that is set late | 0.2M |
| `session_stuck` | `NothingStuck` fails after stop and start | counterexample |
| `failover_replay` | `TypeOK`, `RequestHeld`, `HeldIsWritten`, `SentOnce`, `StateFirst`, `NoNullFailure` with a message, which waits no longer than its timeout, a tracked command and its RemoveInfo, 2 brokers, 2 connections, limits 2 and 1 | 3.0M |
| `failover_liveness` | `HeldIsWritten`, `ListenerKnows`, `SendersReturn`, `AnswerComes`, `CloseReturns` while a URI comes or goes and a broker recovers, one request, 2 connections, limits 2 and 1 | 0.4M |
| `consumer_ack` | `TypeOK`, `ConsumedIsSettled`, `NotGivenAgain`, `CommitConsumesUnlessCaught`, `PoisonIsJustified`, `EventuallySettled` with 2 messages, prefetch 2, redelivery limits 0 and 1, every acknowledge mode, one interruption, one rollback or recover, any number of calls of `commit` | 0.7M |
| `commit_without_acks` | `CommitConsumes` fails when the connection is lost between the acknowledgements and the COMMIT | counterexample |
| `commit_in_doubt` | `RolledBackIsNotConsumed` fails when the answer to COMMIT is lost and `commit` is called again | counterexample |
| `recovery` | `TypeOK`, `OneConnection`, `ResumesUnlessRaced` with 2 consumers, 2 interruptions and one reader at a time in `onCommand` | 0.7M |
| `recovery_starved` | `Resumes` fails when a dispatching thread clears its consumer before it is counted | counterexample |
| `inactivity` | `TypeOK`, `BusyReaderSpared`, `LossReported`, `CloseReturns` | 0.2M |

Why the bounds are enough: the interesting races of the correlator need one request in each phase while another
thread disposes, and a second disposer that finds the error recorded; two of each reach all of them. A session needs
a runner that carries a message while it is stopped, another message that waits behind it, and a restart
(5 calls and 3 runners are two complete cycles; the same run with 7 calls and 4 runners also passes). A failover needs
a connection that was restored and breaks again while the replay is written, hence two connections, and a second
broker so that a failed attempt is not the end; a URI that is added late has attempts left when the first is exhausted, which takes a startup limit of two. An acknowledgement needs a second message so that it is a range,
and a message that comes back needs one interruption; a second one that meets the recovery from the first is in the instances the proofs' invariants were checked on (section 5). A recovery needs a second consumer, so that the count is neither 0 nor 1, and a second interruption that
meets the processing of the first. Several readers at once multiply the states, so `recovery` has one; `OneConnection` and `ResumesUnlessRaced` also hold with two consumers, one interruption and two readers (0.1M states), with one consumer, two interruptions and three readers, and with one consumer, three interruptions and two readers (0.4M), and `recovery_starved` has two. The monitor has no bound. `request()` without a timeout is in the correlator's run as a request
whose timeout never comes, which is the same behaviour with fewer states. Deadlock is not checked: the application may
stop calling, and closed objects take no step; the liveness properties ask the question instead.

Fairness. The correlator and the session assume that threads run: a thread whose next critical section is
free takes it eventually, and a listener's `onMessage` returns. Locks are not assumed to be fair: weak
fairness suffices for them. The failover run assumes in addition that a broker answers what it has received as long as the connection
stands, which is what `AnswerComes` is about; that a connection attempt ends, since `StartFails` is always possible; and it assumes nothing about
attempts succeeding. `consumer_ack` assumes that the broker works, that a lost connection is restored, and of the application that it
keeps receiving and, time and again between two calls of `receive`, settles what it has received. The last two are strong fairness, since one thread does both; it is not made to roll back, nor to call `commit` again after a failure. `EventuallySettled` asks whether the client's
own state ever keeps a message back. `recovery` assumes that the scheduler runs its tasks and a connection is found, nothing about the broker or the application.
`inactivity` assumes that threads run and that the listener's `onCommand` returns; strong fairness only for the runner's turn at `inWriteMutex`, since senders that come and go
do not starve it; nothing about the peer, and a blocked write need not end.
Otherwise nothing forces the application to call, a message to arrive or a connection to break.
`session_liveness` and `failover_liveness` say "once the session stays started" and "unless the transport fails or is closed" in
the properties themselves.

Every property of a passing run has a mutant, an operator `Mutant of X` next to `X`, that breaks it:
for instance `TakeRequestsKeepsMap` (dispose forgets to clear the map) makes a future complete twice.

## 5. Proofs

Every theorem is of the form `Spec => []Inv` (or a step property, or the refinement) for all values of the constants that
satisfy the module's named assumption. Where a theorem needs more, it says so as a hypothesis (`OneController`, `EarlyListeners`, `UrisFixed`).
Each proof follows the same plan: an inductive invariant with named parts, each part checked by TLC before it was proved; one
lemma per action; below it one step per part the action disturbs; the temporal step last.

### Requests: `ResponseCorrelatorProofs`

For any sets of threads and closers and any numbers of commands and answers,
from `CorrelatorAssumption` alone (the bounds are naturals, the kinds and replies are the known ones, the reader is not a closer):

- `TypeCorrect`: `TypeOK` is invariant;
- `CompletionIsUnique`: a future is completed at most once (`CompletedAtMostOnce`);
- `NoLeak`: no entry of the map outlives its request (`NoLeakedRequest`);
- `WaitersReachable`: a blocked thread is always in the map or in a running dispose's copy (`WaiterIsReachable`);
- `RefusesAfterError`: after the first error the map only shrinks (`NoRequestAfterError`);
- `Refinement`: the correlator implements `RequestService` (`ImplementsService`).

None of the middle three is inductive. That a future is completed once rests on where its id is: `PendingOnce` says
that an id in the map or in some copy is in exactly one of them and not yet completed, `LatchIsCompletion` ties the latch to the
count, and `RegisteringUnused` and `FreshUnused` say that an id that is not registered yet is nowhere.
`OwnsId` says that two threads past their entry point work on different ids, without which one thread's finalizer
could remove another one's entry. `SenderIsReachable` strengthens `WaiterIsReachable` to a thread that
is still sending: the answer or the failure may come before it starts to wait.

The refinement uses the same invariant, and `KindIsKnown`. A step maps to the abstract step of the one command whose status it
changes, `onCommand` and `FailRequest` to its end, `register` to its acceptance; every other step is a stutter. The
proof shows for each action that the status of all other commands is what it was, which is where `PendingOnce` is needed: a command
leaves the map when it goes into a copy of `dispose` and is pending all the while.

### Sessions: `SessionDispatchProofs`, `SessionOrderProofs`

For any consumers, messages, runners and calls and any finite set of threads that call:

- `DispatchTypeCorrect` and `MessagesAccounted`: no message is lost or doubled (`InOnePlace`), whatever `start`, `stop` and
  `setMessageListener` do, and from however many threads;
- `NoFalseDuplicates`: nothing is suppressed as a duplicate (`NothingSuppressed`) when listeners are there before messages, or duplicates are not looked for. Without that hypothesis
  it is false: the second item under "Requests and sessions" in section 6;
- `ListenersAreSerial`: no two threads dispatch at once (`SerialDispatch`), and `StopIsQuiet`: when `stop` has returned, no listener runs
  (`StopQuiesces`), both when one application thread makes the calls. With two they fail, see section 6;
- `ListenerSeesOrder`: with one such thread a listener sees the messages of its consumer in the order they were sent, but for those that `stop` displaced
  (`InOrderButForStop`).

`Base` is inductive by itself: a message is counted in the queues, the channels, the lists of `redispatch`, the hands of threads and the history, and `Hands`
and `Errands` say when a thread has one. `Orderly` adds what a single caller guarantees: `OneRunner` (every runner but the executor's has ended,
or `stop` waits for it), `Calls` (what a call has still to do agrees with `started`), `Stopped` and `LockHeld`.

The order needs a further invariant, `Lined`, in a module of its own. It lines up the places a message passes through: delivered, polled from its consumer, put aside at the consumer, taken from the session's
queue, on its way back through `redispatch`, queued at the session. `InLine` says that a message ahead of another one of its consumer is the older one, unless the older was displaced by `stop`. A step moves
a message one place on, which keeps the line only if the place it skips is empty: `Scanned` says that a runner takes from the session's queue only when the consumers that would deliver have nothing put aside, `Emptied` that
`redispatch` puts back the messages of the consumer it has emptied, `Halted` that the queue stands still while `setMessageListener` or `start` is at work, `Direct` that a synchronous session has no places between arrival and delivery.
TLC checked these five parts on instances with late listeners, with both dispatch modes and with several runners before they were proved.

### Failover: `FailoverProofs`

For any commands, URIs, limits, connections and changes of the URIs: `FailoverTypeCorrect`, `RequestsAreHeld` (`RequestHeld`), `ReplayIsComplete` (`HeldIsWritten`), `NothingIsSentTwice` (`SentOnce`),
`StateComesFirst` (`StateFirst`) and `ListenerIsRight` (`ListenerKnows`). The invariant has to speak of the connection that is being restored, which the properties do not see: `Replaying` (what is held is on it or still to
come), `TodoIsNew` (what is still to come was not sent), `StateIsOut` (the tracked state is out before the requests are replayed). `Places` ties the runner's locals to where it is,
`HeldReturned` says that what is held belongs to a `oneway` that has returned, so that no sender writes it a second time.

`FailureIsReported` is `NoNullFailure` under the hypothesis `UrisFixed` that nobody calls `add`, `removeURI` or `reconnect`: `iterate` has a failure in hand when it reports that the brokers are exhausted.
Its invariant `Untried` says why: when the connect loop begins there is a URI with attempts left, since a connection that worked has reset the counts, and `PickUri` skips exhausted URIs only. With
changes of the URIs it is false (section 6).

### Acknowledgement: `ConsumerAckProofs`, `ConsumerSettleProofs`

For any acknowledge modes, prefetch size and redelivery limits and any number of messages, interruptions and rollbacks:

- `ConsumerTypeCorrect`: `TypeOK`, which includes that `ackLater` keeps the number of deliveries the broker has not heard of below half the prefetch size;
- `NeverGivenAgain`: what the application has settled is not given to it again (`NotGivenAgain`), unless an interruption caught it half way or a `commit` that was retried after a failure left it with the consumer;
- `PoisonIsDeserved`: `dispatch`, `dequeue` and `rollback` send a poison ack only for a message the application is done with, one that an interruption caught half way, or when a redelivery limit is passed (`PoisonIsJustified`);
- `ConsumedOnlyIfSettled`: the broker consumes a message only when the application has acknowledged it, or its `commit` is under way or has consumed it and lost the answer (`ConsumedIsSettled`), unless the range of an ack of a transacted
  or client-acknowledge session has reached to a message an interruption caught half way or a retried `commit` left with the consumer. A failed `commit` that consumed nothing excuses nothing. What is not claimed is that a `commit` consumes
  only what was received since the last one failed: that is `RolledBackIsNotConsumed`, and it is false.

The invariant `Client` says of every message that was not caught (`Known`) where it may be: in the channel, in `receive`'s hands, held or done, in at most one of these; and that the broker or the dispatching thread
has it as well only if the channel is about to be cleared or the audit knows it. `Dispatched` is what makes that survive `dispatch`: a thread
that is about to fill the channel has cleared it since the last interruption, or its message is one that was caught. The part on `delivered` and
`previously` is for `rollback`, which must not put a message back that the broker will dispatch again. The lemmas on lists (`Keeps`, `Joined`, `HeadAndTail`, `Appended`) say what is in a list and what is in it once.

`PoisonIsJustified` is a property of steps. It is not enough to look at the dead letter queue and the counters in a state: a poison ack is a range, and a message
that is dispatched again gets the broker's counter, so the reason for a dead letter may be gone by the time it is dead (with three messages, a limit of one and two rollbacks TLC finds such a state). The proof adds the invariant
`Recorded` to `Client`: what the audit knows is in the channel, in `receive`'s hands, held or settled, or `dequeue` has refused it (`Recognised`); and what the application has and has not settled
is in `delivered`. A duplicate that `dispatch` finds is then one of these; that it is neither in the channel nor in hand nor held follows from `Known`, since the thread has cleared the consumer and a held message is expected back.

`ConsumedIsSettled` is about ranges: an ack names its first and last message and the broker consumes what it has in flight between them. The invariant `Settling` therefore says where every message in flight is, and in which order.
`BrokerOrder` and `ClientOrder`: the window, the messages on their way, the channel and `delivered` are in the order of the queue, and what the application has is older than what is to come, apart from messages that were caught and from those a
transaction expects back. `Accounted`: a message in flight is on its way, with the consumer, settled, refused by `dequeue`, or was dropped by a `rollback` and then everything the consumer still has is newer. `Protocol`: acks of a transaction are sent by
`commit` or `rollback` only, and nothing is acknowledged after the COMMIT. `Acks`, the point of it: an ack in flight covers, of what the broker has in flight, only messages that are held, settled or refused, or for which a poison ack is on its way before it. When `commit` or `acknowledge` sends a range, an uncaught
message between the ends is neither on its way (it would be newer than the last one, by `ClientOrder`) nor dropped (it would be older than the first), so `Accounted` leaves the cases of `Acks`; later steps only take messages out of flight.
`Alone` says that an auto-acknowledge session has at most the message in hand delivered. After a failed `commit` all of this has to hold for a consumer that keeps its list while no transaction is open, and for a transaction whose end skips it: `Protocol`
therefore says where the application is in `commit` or `rollback`, not whether the consumer is a synchronization. TLC checked the invariants in a transacted session with three messages, one interruption and two rollbacks and with two messages and two interruptions, and in a client-acknowledge session, before they were proved.

### Recovery: `TransportRecoveryProofs`

For any number of consumers, interruptions and readers in `onCommand`: `RecoveryTypeCorrect` and `ChannelsKeepApart` (`OneConnection`: a channel holds the messages of one connection). The invariant follows a message of an
earlier connection: it is in a channel whose consumer is flagged or still to be asked (`LeftoversFlagged`, `AskedIsFlagged`), and the dispatching thread adds only to a channel of its own connection (`EnqueueIsClean`).
`CountBound` and `FlagBound` bound the two counters.

### Inactivity: `InactivityMonitorProofs`

The model has no parameters and TLC visits all of it; the proofs say why it is right.

- `TypeCorrect` (`TypeOK`): there is one runner, because a wire format is named by the one thread that found it unset and the runner's count is above zero only when both are named (`Starting`); and the listener is told once, because a thread on its
  way to it has found `failed` unset and set it, and is alone (`ToldOnce`).
- `BusyReaderIsSpared` (`BusyReaderSpared`) rests on `Watching`: `inRead` is set exactly while the reader is in the listener's `onCommand`, after `commandReceived` was stored. So a check that gave up on a busy reader leaves one whose mark is stored, or that is
  still receiving, and then the next check does not begin before the mark is stored, but for the moment between the two.

### Only model-checked

- Liveness (`DisposeReleasesWaiters`, `QueueDrains`, `CallsReturn`, `SendersReturn`, `AnswerComes`, `CloseReturns`, `EventuallySettled`, `ResumesUnlessRaced`, `LossReported`) is out of the prover's reach.
- `CommitConsumesUnlessCaught` is the converse of `ConsumedIsSettled`: it needs, besides `Settling`, that no message that is held leaves the broker's window before the ack of its transaction. One step makes that hard: a connection lost between the answer to ROLLBACK and the consumer's `rollback`, whose poison ack then
  names a range on the new connection. What it covers comes back only to be refused by `dequeue`, because the broker's redelivery counter of an older message is no lower unless a caught one lies between; an invariant on these counters is not written.

## 6. What the checks found

Each of these is a run whose property states what the documentation says; `PROJECT.json` quotes the line.

- A message put aside by `stop` waits after `start` until another one arrives (`session_stuck`).
- The connection is lost between the acknowledgements of `commit` and its COMMIT: the tracker rebuilds the transaction without
  them, COMMIT succeeds and `commit` returns, and the broker delivers the messages again (`commit_without_acks`).
- The connection is lost while `commit` waits for the answer to its COMMIT: the application gets `TransactionRolledBackException`, but the consumer is not rolled back, because the exception that
  `syncRequest` throws is not the one `commit` catches (`ActiveMQTransactionContext.cpp:265`). A second `commit` has the broker consume messages that were reported as rolled back and not received again (`commit_in_doubt`).
- The session marks a consumer to be cleared before it counts it; a thread that clears it in between takes the count to -1, so the
  completion is never reported and the consumer stays at prefetch zero (`recovery_starved`).

Seen while modelling, some as counterexamples of larger instances, and without a run of their own. Requests and sessions:

- `onCommand` turns an ExceptionResponse without a pending request into `priorError` and keeps the map (`ResponseCorrelator.cpp:455`); `dispose` takes the
  pending requests only if `priorError` is unset (line 505), so a later failure releases nobody.
- `redispatch` does not roll back the audit for the messages put aside before a listener was set; with duplicate detection `dispatch` takes
  each for a duplicate and sends a poison ack (`ActiveMQSessionKernel.cpp:1408`).
- A comment in `start` (`ActiveMQConnection.cpp:1163`) says that "messages delivered while this connection is stopped are dropped and not acknowledged". They are not: `execute` queues them whatever `started` says (`ActiveMQSessionExecutor.cpp:97`), and they are delivered once
  the connection is started. `InOnePlace` is stated from the code: such a message is in the session's queue or put aside at its consumer, and not lost.
- A message that `iterate` has taken when `stop` comes is put back behind the ones that waited after it (`ActiveMQConsumerKernel.cpp:2524`);
  `InOrderButForStop` says that this is the only way to lose the order.

Failover:

- After ShutdownInfo `handleTransportFailure` leaves a broken connection in place; a sender of a command that is not tracked retries on it for ever with the lock that `close` needs (`FailoverTransport.cpp:1149`).
- `isPending` compares the global `connectFailures` with the limit of each URI, so a URI added late is given up before its attempts are used, and senders wait for ever (`FailoverTransport.cpp:1351`). `SendersReturn` names the case (`GivenUp`); it occurs in `failover_liveness`.
- With `maxReconnectAttempts = 0` a forced reconnect (`add` or `reconnect` with rebalance) reaches the exhausted branch of `iterate` with
  a null `failure`, and so does any limit when `removeURI` empties the pool during the sleep of `FailoverTransport.cpp:1547`.
- `oneway` on a closed failover transport drops the command and returns normally (`FailoverTransport.cpp:905`).
- `close` cannot cancel a connection attempt: `connectingTransport` is set under the lock `close` needs (line 1636).
- A session without a dispatch thread never delivers what arrived before `start`: `wakeup` returns at once (`ActiveMQSessionExecutor.cpp:118`).
- A `start` that overtakes a `stop` of another thread creates a second runner while the first still carries a message, so that
  two listeners of a session may run at once; two runners take a consumer's channel lock and `listenerMutex` in opposite orders
  (`ActiveMQConsumerKernel.cpp:2373` and `2730`).
- At the transition from the startup limit to the later one the listener gets `onException`, after which the correlator refuses
  every request although the failover transport goes on connecting.

Acknowledgement (these are the messages `caught` names):

- A message that the dispatching thread has in hand when the connection is lost enters the cleared channel and the audit; the broker's second dispatch of it is then taken for a
  duplicate and poison acked, in every mode, so the message is on the dead letter queue while the application still works on it or has not received it.
- In client and individual mode an interruption takes the unacknowledged messages out of `deliveredMessages` and of the audit; an `acknowledge` that follows returns normally and
  acknowledges nothing (client) or comes too late to stop the second delivery (individual), and the application is given the message again.
- An acknowledgement is a range. In a transacted session with three messages: 1 is received, 2 waits in the channel and 3 is in the dispatching thread's hands when the connection is lost;
  2 is cleared, 3 is received, 1 comes back, and the acknowledgement from 1 to 3 reaches a broker that has dispatched 1, 2 and 3 again: `commit` removes 2, which nobody has received. The same happens in client mode when the ack of 1 and 3 is sent after the reconnection.
- The poison ack of a `rollback` is a range too. When it reaches to a message that was caught half way it covers a message that is on its way to the channel: that one is put on the dead letter queue, is then
  received, and its `commit` returns normally although there is nothing left to consume (three messages, transacted). `CommitConsumesUnlessCaught` names the case, and so does the next one.
- When such a range has consumed a message nobody has received, the broker no longer knows an end of the range that a later transaction names: it consumes nothing of that range, and the `commit` returns normally (five messages, transacted).
- After a `commit` that failed the consumer keeps its list. If the COMMIT had not been processed the broker dispatches the messages again, `dispatch` marks them as come back and drops them, and the application does not receive them unless a later transaction of its own is
  rolled back: a `rollback` right after the failure begins a transaction, which takes the consumer off the synchronizations, so its messages stay where they are. `EventuallySettled` leaves these messages out (`returned`).
- After a `commit` that was called again the messages are consumed and still in `deliveredMessages`: the `rollback` of a later transaction gives them to the application once more, and the acknowledgement of a later transaction names them as the first end of its range, which the broker no longer knows, so that it
  consumes nothing and `commit` returns normally. `NotGivenAgain` and `CommitConsumesUnlessCaught` leave these messages out (`caught`).
- `rollback` decides by the newest delivered message's redelivery counter for the whole batch, so messages below the limit go to the dead letter queue with it.

Inactivity monitor:

- A command that arrives in the course of a read check has its mark erased by that check, and between the end of `receiving` and `commandReceived` the reader looks idle: in both cases a check
  may take a live peer for a dead one if the next check finds the reader idle again.
- `receiving` is set once the size prefix is read, so a peer that falls silent within a command is never reported; with `sizePrefixDisabled`, and with Stomp, it is set while the reader waits for a command.
- A write to a silent peer blocks with `inWriteMutex` held; the keep-alive waits for that mutex on the thread that has to report the silence, so neither is it reported nor does `close` return, which
  joins that thread before it closes the streams. `LossReported` and `CloseReturns` hold without such a write.
- The monitor may be started by a sender after `close` has stopped it or a failure has been reported; `doClose` stops it again, the destructor at the latest.

## 7. Not modelled

Generated commands and marshallers, sockets and TLS, the decaf runtime, discovery agents, utilities, logging, examples and
the generator: input and output, data classes or sequential conversions. Of the modelled components: backups, `updateURIs`, `MessagePull` and the message cache (failover);
optimized, batched (dups-ok) and transacted individual acknowledgement, expiry, non-blocking redelivery, `waitForRedeliveries`, rollback from a listener, closing of consumers and sessions, XA
(acknowledgement); inactivity durations of zero, which disable the timers (monitor). The producer window, the bit sets and the LRU cache of the message audit, the priority channel
and the negotiation of the wire format are small and mostly sequential, and are not modelled; `PROJECT.json` says of each component what is missing.

## 8. Running

    tlc -workers 2 -config MCFailover.cfg MCFailover
    tlapm ResponseCorrelatorProofs.tla     (and the other seven modules with proofs)
