------------------------------ MODULE ConsumerAck ------------------------------
(***************************************************************************)
(* What a consumer tells the broker about the messages it has been given:  *)
(* the acknowledgement and redelivery side of ActiveMQConsumerKernel, the  *)
(* local transactions of ActiveMQTransactionContext it takes part in, the  *)
(* connection's duplicate check (ConnectionAudit), and what the failover   *)
(* transport's ConnectionStateTracker replays of a transaction.            *)
(*                                                                         *)
(* Threads: the application's App, which receives and settles messages;    *)
(* the session's dispatching thread D, which runs dispatch(); the          *)
(* scheduler, which runs ClearConsumerTask and StartConsumerTask; and the  *)
(* transport, which loses and restores the connection at any moment.  A    *)
(* step is one section under deliveredMessages' or unconsumedMessages'     *)
(* lock.  The broker is external: it keeps what its answers depend on.     *)
(***************************************************************************)
EXTENDS Integers, Sequences, FiniteSets, SequencesExt, FiniteSetsExt

CONSTANTS
    Modes,            \* acknowledge modes to consider
    Prefetch,         \* ConsumerInfo::prefetchSize
    RedeliveryLimits, \* RedeliveryPolicy::maximumRedeliveries to consider
    MaxMessages,      \* bound: messages on the queue
    MaxFailures,      \* bound: connections lost
    MaxRollbacks      \* bound: calls of rollback() or recover()

AllModes == {"auto", "client", "individual", "transacted"}

ASSUME ConsumerAssumption ==
    /\ Modes \subseteq AllModes
    /\ Prefetch \in Nat \ {0} /\ RedeliveryLimits \subseteq Nat
    /\ MaxMessages \in Nat /\ MaxFailures \in Nat /\ MaxRollbacks \in Nat

Messages == 1..MaxMessages
None == [type |-> "none", first |-> 0, last |-> 0]

VARIABLES
    mode,             \* the session's acknowledge mode
    maximumRedeliveries, \* of the redelivery policy
    queue,            \* broker: messages to dispatch
    inflight,         \* broker: dispatched on this connection, not acknowledged
    known,            \* broker: those of them it knows the application has
    brokerTx,         \* broker: acknowledged in the open transaction
    brokerOpen,       \* broker: has it the transaction open
    attempts,         \* broker: redelivery counter of each message
    consumed, dlq,    \* broker: messages removed as consumed, or as poison
    connected,        \* has the failover transport a connection
    up, down,         \* commands and dispatches on their way
    reply,            \* answer to the COMMIT or ROLLBACK that is waited for
    tracked,          \* last command of the transaction the tracker holds
    audit,            \* ConnectionAudit: messages seen
    unconsumed,       \* unconsumedMessages
    running,          \* is that channel running
    startTask,        \* a StartConsumerTask is scheduled
    delivered,        \* deliveredMessages, oldest first
    pendingAck,       \* pendingAck
    deliveredCounter, \* deliveredCounter
    previously,       \* previouslyDeliveredMessages: "no", "pending" or "back"
    redelivery,       \* Message::redeliveryCounter of the client's copy
    stamp,            \* MessageDispatch::redeliveryCounter it came with
    clearRequired,    \* inProgressClearRequiredFlag > 0
    clearDelivered,   \* isClearDeliveredList
    inTransaction,    \* has the transaction context a transaction id
    sync,             \* is the consumer among its synchronizations
    apc, hand,        \* the application thread, the message it is receiving
    acked,            \* and the one it has acknowledged by itself
    dpc, dhand,       \* the dispatching thread, the message it dispatches
    dstamp,           \* and the redelivery counter it was dispatched with
    failures, rollbacks, \* how many there have been
    held,             \* history: given to the application, neither settled by
                      \*   it nor taken back by the consumer
    done,             \* history: settled: acknowledged, or commit() returned
    doubt,            \* history: consumed by a commit whose answer was lost
    returned,         \* history: messages of a commit() that failed, not received
                      \*   since: the application was told of a rollback
    caught            \* history: messages an interruption caught half way, or
                      \*   that a commit() left with the consumer

cvars == <<mode, maximumRedeliveries>>
bvars == <<queue, inflight, known, brokerTx, brokerOpen, attempts, consumed, dlq>>
nvars == <<connected, up, down, reply, tracked, failures>>
kvars == <<unconsumed, running, startTask>>
lvars == <<delivered, pendingAck, deliveredCounter, previously>>
rvars == <<redelivery, stamp>>
fvars == <<clearRequired, clearDelivered>>
tvars == <<apc, hand, acked, rollbacks>>
dvars == <<dpc, dhand, dstamp>>
hvars == <<held, done, doubt, returned, caught>>
vars == <<cvars, bvars, nvars, audit, kvars, lvars, rvars, fvars, inTransaction,
          sync, tvars, dvars, hvars>>

Transacted == mode = "transacted"

-----------------------------------------------------------------------------
Init ==
    /\ mode \in Modes /\ maximumRedeliveries \in RedeliveryLimits
    /\ queue = Messages /\ inflight = <<>> /\ known = {}
    /\ brokerTx = {} /\ brokerOpen = FALSE
    /\ attempts = [m \in Messages |-> 0]
    /\ consumed = {} /\ dlq = {}
    /\ connected = TRUE /\ up = <<>> /\ down = <<>>
    /\ reply = "none" /\ tracked = "none" /\ failures = 0
    /\ audit = {}
    /\ unconsumed = <<>> /\ running = TRUE /\ startTask = FALSE
    /\ delivered = <<>> /\ pendingAck = None /\ deliveredCounter = 0
    /\ previously = [m \in Messages |-> "no"]
    /\ redelivery = [m \in Messages |-> 0] /\ stamp = [m \in Messages |-> 0]
    /\ clearRequired = FALSE /\ clearDelivered = FALSE
    /\ inTransaction = FALSE /\ sync = FALSE
    /\ apc = "idle" /\ hand = 0 /\ acked = 0 /\ rollbacks = 0
    /\ dpc = "idle" /\ dhand = 0 /\ dstamp = 0
    /\ held = {} /\ done = {} /\ doubt = {} /\ returned = {} /\ caught = {}

-----------------------------------------------------------------------------
(* The broker (external) *)

\* The messages an acknowledgement names: from first to last in the order they
\* were dispatched on this connection, none if the broker does not know them.
AckRange(c) ==
    LET at(m) == {i \in 1..Len(inflight) : inflight[i] = m}
    IN IF at(c.first) = {} \/ at(c.last) = {} THEN {}
       ELSE {inflight[i] : i \in Min(at(c.first))..Max(at(c.last))}

\* The messages dispatched no later than m.
UpTo(m) == {inflight[i] : i \in {j \in 1..Len(inflight) :
                                   \E k \in j..Len(inflight) : inflight[k] = m}}

\* What is left of list s when the positions in I are kept.
KeepAt(s, I) ==
    [k \in 1..Cardinality(I) |-> s[CHOOSE i \in I : Cardinality({j \in I : j <= i}) = k]]

Discard(ms) ==
    inflight' = KeepAt(inflight, {i \in 1..Len(inflight) : inflight[i] \notin ms})

\* The broker takes the next command.
BrokerProcess ==
    /\ connected /\ up # <<>>
    /\ up' = Tail(up)
    /\ LET c == Head(up)
           ms == AckRange(c)
       IN CASE c.type = "DELIVERED" ->
                 /\ known' = known \cup UpTo(c.last)
                 /\ UNCHANGED <<inflight, brokerTx, brokerOpen, attempts, consumed, dlq, reply>>
            [] c.type = "REDELIVERED" ->
                 /\ attempts' = [m \in Messages |-> attempts[m] + IF m \in ms THEN 1 ELSE 0]
                 /\ UNCHANGED <<inflight, known, brokerTx, brokerOpen, consumed, dlq, reply>>
            [] c.type = "CONSUMED" /\ Transacted ->
                 /\ brokerTx' = IF brokerOpen THEN brokerTx \cup ms ELSE brokerTx
                 /\ UNCHANGED <<inflight, known, brokerOpen, attempts, consumed, dlq, reply>>
            [] c.type = "INDIVIDUAL" \/ (c.type = "CONSUMED" /\ ~Transacted) ->
                 /\ consumed' = consumed \cup ms
                 /\ Discard(ms)
                 /\ UNCHANGED <<known, brokerTx, brokerOpen, attempts, dlq, reply>>
            [] c.type = "POISON" ->
                 /\ dlq' = dlq \cup ms
                 /\ Discard(ms)
                 /\ UNCHANGED <<known, brokerTx, brokerOpen, attempts, consumed, reply>>
            [] c.type = "BEGIN" ->
                 /\ brokerOpen' = TRUE
                 /\ brokerTx' = {}
                 /\ UNCHANGED <<inflight, known, attempts, consumed, dlq, reply>>
            [] c.type = "COMMIT" ->
                 /\ consumed' = consumed \cup brokerTx
                 /\ Discard(brokerTx)
                 /\ reply' = "ok"
                 /\ brokerTx' = {} /\ brokerOpen' = FALSE
                 /\ UNCHANGED <<known, attempts, dlq>>
            [] c.type = "ROLLBACK" ->
                 /\ reply' = "ok"
                 /\ brokerTx' = {} /\ brokerOpen' = FALSE
                 /\ UNCHANGED <<inflight, known, attempts, consumed, dlq>>
    /\ UNCHANGED <<cvars, queue, connected, down, tracked, failures, audit, kvars, lvars,
                   rvars, fvars, inTransaction, sync, tvars, dvars, hvars>>

\* It dispatches while fewer than Prefetch messages are out of which it has not
\* heard.
BrokerDispatch ==
    /\ connected /\ queue # {}
    /\ Cardinality(ToSet(inflight) \ (known \cup brokerTx)) < Prefetch
    /\ LET m == Min(queue)
       IN /\ queue' = queue \ {m}
          /\ inflight' = Append(inflight, m)
          /\ down' = Append(down, m)
    /\ UNCHANGED <<cvars, known, brokerTx, brokerOpen, attempts, consumed, dlq, connected, up,
                   reply, tracked, failures, audit, kvars, lvars, rvars, fvars,
                   inTransaction, sync, tvars, dvars, hvars>>

-----------------------------------------------------------------------------
(* The failover transport *)

\* The messages an interruption catches half way: in the hands of a thread, in an
\* acknowledge() that has sent its ack or a commit() that has not sent its COMMIT;
\* with the consumer while the audit does not know them (they were rolled back, or
\* came while the channel was stopped); or not acknowledged by an application that
\* does so itself.
Halfway ==
    {m \in Messages :
        \/ m \in {hand, dhand, acked}
        \/ apc \in {"commit", "sendCommit"} /\ m \in ToSet(delivered)
        \/ mode \in {"client", "individual"} /\ m \in held
        \/ m \in ToSet(inflight) \ (ToSet(down) \cup audit)}

\* handleTransportFailure(): what was on the way is lost, the broker takes back
\* what was not acknowledged; transportInterrupted() empties the session's queue
\* and tells the consumer to clear its state.
TransportInterrupted ==
    /\ connected /\ failures < MaxFailures
    /\ connected' = FALSE
    /\ failures' = failures + 1
    /\ up' = <<>> /\ down' = <<>> /\ reply' = "none"
    /\ queue' = queue \cup ToSet(inflight)
    /\ inflight' = <<>> /\ known' = {} /\ brokerTx' = {} /\ brokerOpen' = FALSE
    /\ clearRequired' = TRUE /\ clearDelivered' = TRUE
    /\ attempts' = [m \in Messages |-> attempts[m] + IF m \in ToSet(inflight) THEN 1 ELSE 0]
    /\ caught' = caught \cup Halfway
    /\ UNCHANGED <<cvars, consumed, dlq, tracked, audit, kvars, lvars, rvars,
                   inTransaction, sync, tvars, dvars, held, done, doubt, returned>>

TxCommand(t) == [type |-> t, first |-> 0, last |-> 0]

\* Mutant of DoRestoreTransactions: a commit that was sent is sent again.
RestoreReplaysCommit ==
    /\ up' = IF tracked = "none" THEN <<>>
             ELSE IF tracked = "BEGIN" THEN <<TxCommand("BEGIN")>>
             ELSE <<TxCommand("BEGIN"), TxCommand(tracked)>>
    /\ UNCHANGED <<reply, tracked>>

\* doRestoreTransactions(): the commands of an open transaction are sent again
\* (its acknowledgements are not among them); a commit that was sent is in
\* doubt, and the thread that waits for it is told it failed.
DoRestoreTransactions ==
    /\ up' = CASE tracked \in {"none", "COMMIT"} -> <<>>
               [] tracked = "BEGIN" -> <<TxCommand("BEGIN")>>
               [] tracked = "ROLLBACK" -> <<TxCommand("BEGIN"), TxCommand("ROLLBACK")>>
    /\ reply' = IF tracked = "COMMIT" THEN "failed" ELSE reply
    /\ tracked' = IF tracked = "COMMIT" THEN "none" ELSE tracked

Restore ==
    /\ ~connected
    /\ connected' = TRUE
    /\ DoRestoreTransactions
    /\ UNCHANGED <<cvars, bvars, down, failures, audit, kvars, lvars, rvars, fvars,
                   inTransaction, sync, tvars, dvars, hvars>>

\* sendAck(): an acknowledgement is sent one way; without a connection the
\* failover transport drops it as stale.
SendAll(cs) == up' = IF connected THEN up \o cs ELSE up

Ack(t, f, l) == [type |-> t, first |-> f, last |-> l]
SendAck(t, f, l) == SendAll(<<Ack(t, f, l)>>)

-----------------------------------------------------------------------------
(* clearDeliveredList(), clearMessagesInProgress() *)

\* Mutant of ClearDeliveredList: the transaction's messages are not remembered.
ForgetDelivered ==
    /\ clearDelivered' = FALSE
    /\ IF clearDelivered /\ delivered # <<>> /\ ~Transacted
         THEN /\ delivered' = <<>> /\ pendingAck' = None
              /\ UNCHANGED previously
         ELSE UNCHANGED <<delivered, pendingAck, previously>>

\* After an interruption: a transacted session remembers what it has delivered
\* and expects the broker to deliver it again, any other forgets it.
ClearDeliveredList ==
    /\ clearDelivered' = FALSE
    /\ IF clearDelivered /\ delivered # <<>>
         THEN IF Transacted
                THEN /\ previously' = [m \in Messages |->
                             IF m \in ToSet(delivered) THEN "pending" ELSE previously[m]]
                     /\ UNCHANGED <<delivered, pendingAck>>
                ELSE /\ delivered' = <<>> /\ pendingAck' = None
                     /\ UNCHANGED previously
         ELSE UNCHANGED <<delivered, pendingAck, previously>>

\* What clearDeliveredList() takes out of the audit, "allow redelivery".
Reopened ==
    IF clearDelivered /\ mode \in {"client", "individual"} THEN ToSet(delivered) ELSE {}

\* clearMessagesInProgress(): drop what was not consumed, it will come again.
\* Both callers, the scheduled ClearConsumerTask and dispatch(), go on to
\* clearDeliveredList().
ClearMessagesInProgress ==
    /\ IF clearRequired
         THEN /\ unconsumed' = <<>>
              /\ audit' = audit \ (ToSet(unconsumed) \cup Reopened)
         ELSE /\ audit' = audit \ Reopened
              /\ UNCHANGED unconsumed
    /\ clearRequired' = FALSE
    /\ ClearDeliveredList

ClearConsumerTask ==
    /\ clearRequired
    /\ ClearMessagesInProgress
    /\ UNCHANGED <<cvars, bvars, nvars, running, startTask, deliveredCounter, rvars,
                   inTransaction, sync, tvars, dvars, hvars>>

\* StartConsumerTask: the redelivery delay is over.
StartConsumerTask ==
    /\ startTask
    /\ startTask' = FALSE
    /\ running' = TRUE
    /\ UNCHANGED <<cvars, bvars, nvars, audit, unconsumed, lvars, rvars, fvars,
                   inTransaction, sync, tvars, dvars, hvars>>

-----------------------------------------------------------------------------
(* dispatch(): the dispatching thread *)

\* The thread takes a message from the session's queue.
DispatchTake ==
    /\ dpc = "idle" /\ down # <<>>
    /\ dhand' = Head(down) /\ dstamp' = attempts[Head(down)]
    /\ down' = Tail(down)
    /\ dpc' = "clear"
    /\ UNCHANGED <<cvars, bvars, connected, up, reply, tracked, failures, audit, kvars, lvars,
                   rvars, fvars, inTransaction, sync, tvars, hvars>>

DispatchClear ==
    /\ dpc = "clear"
    /\ dpc' = "enqueue"
    /\ ClearMessagesInProgress
    /\ UNCHANGED <<cvars, bvars, nvars, running, startTask, deliveredCounter, rvars,
                   inTransaction, sync, tvars, dhand, dstamp, hvars>>

\* Mutant of DispatchEnqueue: nobody asks whether the message is a duplicate.
DispatchUnchecked ==
    /\ dpc = "enqueue"
    /\ dpc' = "idle" /\ dhand' = 0 /\ dstamp' = 0
    /\ unconsumed' = Append(unconsumed, dhand)
    /\ audit' = IF running THEN audit \cup {dhand} ELSE audit \ {dhand}
    /\ redelivery' = [redelivery EXCEPT ![dhand] = dstamp]
    /\ stamp' = [stamp EXCEPT ![dhand] = dstamp]
    /\ UNCHANGED <<cvars, bvars, nvars, running, startTask, lvars, fvars, inTransaction, sync,
                   tvars, hvars>>

\* Under the channel's lock: queue the message for receive(), unless the audit
\* knows it.  A duplicate the open transaction expects is marked as come back,
\* any other gets a poison ack.
DispatchEnqueue ==
    LET m == dhand IN
    /\ dpc = "enqueue"
    /\ dpc' = "idle" /\ dhand' = 0 /\ dstamp' = 0
    /\ IF m \notin audit
         THEN /\ unconsumed' = Append(unconsumed, m)
              /\ audit' = IF running THEN audit \cup {m} ELSE audit
              /\ redelivery' = [redelivery EXCEPT ![m] = dstamp]
              /\ stamp' = [stamp EXCEPT ![m] = dstamp]
              /\ UNCHANGED <<up, previously>>
         ELSE /\ IF previously[m] # "no"
                   THEN /\ previously' = [previously EXCEPT ![m] = "back"]
                        /\ SendAck("DELIVERED", m, m)
                   ELSE /\ SendAck("POISON", m, m)
                        /\ UNCHANGED previously
              /\ UNCHANGED <<unconsumed, audit, rvars>>
    /\ UNCHANGED <<cvars, bvars, connected, down, reply, tracked, failures, running, startTask,
                   delivered, pendingAck, deliveredCounter, fvars, inTransaction, sync, tvars,
                   hvars>>

-----------------------------------------------------------------------------
(* receive() *)

\* receive(), and acknowledge() and rollback() of the consumer, start with
\* clearDeliveredList().
Enter(pc) ==
    /\ apc' = pc
    /\ ClearDeliveredList
    /\ audit' = audit \ Reopened
    /\ UNCHANGED <<cvars, bvars, nvars, kvars, deliveredCounter, rvars, clearRequired,
                   inTransaction, sync, hand, acked, dvars>>

\* sendPullRequest(), before dequeue() and after it has refused a message.  With a
\* prefetch size there is nothing to pull.
SendPullRequest ==
    /\ apc \in {"idle", "refused"}
    /\ Enter("dequeue")
    /\ UNCHANGED <<rollbacks, hvars>>

\* dequeue() has waited long enough.
ReceiveNothing ==
    /\ apc = "dequeue" /\ (~running \/ unconsumed = <<>>)
    /\ apc' = "idle"
    /\ UNCHANGED <<cvars, bvars, nvars, audit, kvars, lvars, rvars, fvars, inTransaction, sync,
                   hand, acked, rollbacks, dvars, hvars>>

\* dequeue(): the next message, if its dispatch does not exceed the limit.
Dequeue ==
    /\ apc = "dequeue" /\ running /\ unconsumed # <<>>
    /\ unconsumed' = Tail(unconsumed)
    /\ LET m == Head(unconsumed)
       IN IF stamp[m] > maximumRedeliveries
            THEN /\ SendAck("POISON", m, m)
                 /\ apc' = "refused"
                 /\ UNCHANGED <<hand, caught>>
            ELSE /\ apc' = "before" /\ hand' = m
                 /\ caught' = IF clearRequired THEN caught \cup {m} ELSE caught
                 /\ UNCHANGED up
    /\ UNCHANGED <<cvars, bvars, connected, down, reply, tracked, failures, audit, running,
                   startTask, lvars, rvars, fvars, inTransaction, sync, acked, rollbacks, dvars,
                   held, done, doubt, returned>>

\* beforeMessageIsConsumed(), the section that records the message.
BeforeMessageIsConsumed ==
    /\ apc = "before"
    /\ apc' = "after"
    /\ delivered' = Append(delivered, hand)
    /\ UNCHANGED <<cvars, bvars, nvars, audit, kvars, pendingAck, deliveredCounter, previously,
                   rvars, fvars, inTransaction, sync, hand, acked, rollbacks, dvars, hvars>>

\* Mutant of AckLater: the pending ack has the wrong type.
AckLaterConsumed(m, cs) ==
    LET ack == Ack("CONSUMED", IF pendingAck = None THEN m ELSE pendingAck.first, m)
        n == deliveredCounter + 1
    IN IF Prefetch <= 2 * n
         THEN /\ SendAll(Append(cs, ack))
              /\ pendingAck' = None /\ deliveredCounter' = 0
         ELSE /\ SendAll(cs)
              /\ pendingAck' = ack /\ deliveredCounter' = n

\* Mutant of AckLater: the counter is compared with the whole prefetch.
AckMuchLater(m, cs) ==
    LET ack == Ack("DELIVERED", IF pendingAck = None THEN m ELSE pendingAck.first, m)
        n == deliveredCounter + 1
    IN IF Prefetch <= n
         THEN /\ SendAll(Append(cs, ack))
              /\ pendingAck' = None /\ deliveredCounter' = 0
         ELSE /\ SendAll(cs)
              /\ pendingAck' = ack /\ deliveredCounter' = n

\* ackLater(): let the broker know in time to widen its window.
AckLater(m, cs) ==
    LET ack == Ack("DELIVERED", IF pendingAck = None THEN m ELSE pendingAck.first, m)
        n == deliveredCounter + 1
    IN IF Prefetch <= 2 * n
         THEN /\ SendAll(Append(cs, ack))
              /\ pendingAck' = None /\ deliveredCounter' = 0
         ELSE /\ SendAll(cs)
              /\ pendingAck' = ack /\ deliveredCounter' = n

\* begin(): the command that opens a transaction, if none is open.
Begin == IF inTransaction THEN <<>> ELSE <<TxCommand("BEGIN")>>

ReceiveReturns == apc' = "idle" /\ hand' = 0

\* The rest of beforeMessageIsConsumed() in a transacted session: registerSync()
\* opens a transaction, which clears its synchronizations, and adds the consumer.
ReceiveTransacted ==
    /\ apc = "after" /\ Transacted
    /\ inTransaction \/ connected
    /\ AckLater(hand, Begin)
    /\ inTransaction' = TRUE /\ sync' = TRUE
    /\ tracked' = IF inTransaction THEN tracked ELSE "BEGIN"
    /\ held' = held \cup {hand} /\ returned' = returned \ {hand}
    /\ ReceiveReturns
    /\ UNCHANGED <<cvars, bvars, connected, down, reply, failures, audit, kvars, delivered,
                   previously, rvars, fvars, acked, rollbacks, dvars, done, doubt, caught>>

\* afterMessageIsConsumed() when messages are acknowledged automatically: one
\* ack for all that is delivered.
ReceiveAuto ==
    /\ apc = "after" /\ mode = "auto"
    /\ IF delivered # <<>>
         THEN /\ SendAck("CONSUMED", Head(delivered), Last(delivered))
              /\ delivered' = <<>>
         ELSE UNCHANGED <<up, delivered>>
    /\ done' = done \cup {hand}
    /\ ReceiveReturns
    /\ UNCHANGED <<cvars, bvars, connected, down, reply, tracked, failures, audit, kvars,
                   pendingAck, deliveredCounter, previously, rvars, fvars, inTransaction, sync,
                   acked, rollbacks, dvars, held, doubt, returned, caught>>

\* afterMessageIsConsumed() when the application acknowledges.
ReceiveManual ==
    /\ apc = "after" /\ mode \in {"client", "individual"}
    /\ IF hand \in ToSet(delivered)
         THEN AckLater(hand, <<>>)
         ELSE UNCHANGED <<up, pendingAck, deliveredCounter>>
    /\ held' = held \cup {hand}
    /\ ReceiveReturns
    /\ UNCHANGED <<cvars, bvars, connected, down, reply, tracked, failures, audit, kvars,
                   delivered, previously, rvars, fvars, inTransaction, sync, acked, rollbacks,
                   dvars, done, doubt, returned, caught>>

-----------------------------------------------------------------------------
(* acknowledge() of a message *)

\* IndividualAckHandler: the ack, then the message leaves the list.
AcknowledgeOne(m) ==
    /\ apc = "idle" /\ mode = "individual" /\ m \in held
    /\ apc' = "remove" /\ acked' = m
    /\ SendAck("INDIVIDUAL", m, m)
    /\ held' = held \ {m} /\ done' = done \cup {m}
    /\ UNCHANGED <<cvars, bvars, connected, down, reply, tracked, failures, audit, kvars, lvars,
                   rvars, fvars, inTransaction, sync, hand, rollbacks, dvars, doubt, returned,
                   caught>>

RemoveAcknowledged ==
    /\ apc = "remove"
    /\ apc' = "idle" /\ acked' = 0
    /\ delivered' = KeepAt(delivered, {i \in 1..Len(delivered) : delivered[i] # acked})
    /\ UNCHANGED <<cvars, bvars, nvars, audit, kvars, pendingAck, deliveredCounter, previously,
                   rvars, fvars, inTransaction, sync, hand, rollbacks, dvars, hvars>>

Acknowledge ==
    /\ apc = "idle" /\ mode = "client" /\ held # {}
    /\ Enter("acknowledge")
    /\ UNCHANGED <<rollbacks, hvars>>

\* acknowledge(): one ack for all delivered messages, after the commands cs; adjust
\* the counter.
AckAllDelivered(cs) ==
    /\ SendAll(Append(cs, Ack("CONSUMED", Head(delivered), Last(delivered))))
    /\ pendingAck' = None
    /\ deliveredCounter' = Max({0, deliveredCounter - Len(delivered)})

AcknowledgeSection ==
    /\ apc = "acknowledge"
    /\ apc' = "idle"
    /\ IF delivered # <<>>
         THEN AckAllDelivered(<<>>) /\ delivered' = <<>>
         ELSE UNCHANGED <<up, pendingAck, deliveredCounter, delivered>>
    /\ done' = done \cup held /\ held' = {}
    /\ UNCHANGED <<cvars, bvars, connected, down, reply, tracked, failures, audit, kvars,
                   previously, rvars, fvars, inTransaction, sync, hand, acked, rollbacks, dvars,
                   doubt, returned, caught>>

-----------------------------------------------------------------------------
(* commit() and rollback() of a transacted session *)

Commit ==
    /\ apc = "idle" /\ Transacted /\ inTransaction
    /\ Enter("commit")
    /\ UNCHANGED <<rollbacks, hvars>>

\* commit() once more after one that failed: without a transaction, but the consumer
\* is still among the synchronizations.
CommitAgain ==
    /\ apc = "idle" /\ Transacted /\ ~inTransaction /\ sync
    /\ Enter("commit")
    /\ UNCHANGED <<rollbacks, hvars>>

Rollback ==
    /\ apc = "idle" /\ Transacted /\ (inTransaction \/ sync)
    /\ rollbacks < MaxRollbacks /\ rollbacks' = rollbacks + 1
    /\ Enter("rollback")
    /\ UNCHANGED hvars

NotReplayed == {m \in Messages : previously[m] = "pending"}

\* What acknowledge() does in beforeEnd(): nothing if the consumer has delivered
\* nothing; rollbackOnFailedRecoveryRedelivery() throws when messages did not come
\* back after a failover.
Acknowledges == sync /\ delivered # <<>> /\ NotReplayed = {}
Throws == sync /\ delivered # <<>> /\ NotReplayed # {}

\* beforeEnd(): the consumer's acknowledge().  If there is no transaction it begins
\* one, and that clears the synchronizations.  Without one there is nothing to end.
BeforeEnd ==
    /\ apc \in {"commit", "rollback"}
    /\ IF Acknowledges
         THEN /\ inTransaction \/ connected
              /\ AckAllDelivered(Begin)
              /\ inTransaction' = TRUE /\ sync' = inTransaction
              /\ tracked' = IF inTransaction THEN tracked ELSE "BEGIN"
         ELSE UNCHANGED <<up, pendingAck, deliveredCounter, inTransaction, sync, tracked>>
    /\ apc' = IF apc = "commit" /\ Throws THEN "commitFails"
              ELSE IF ~inTransaction' THEN "idle"
              ELSE IF apc = "commit" THEN "sendCommit" ELSE "sendRollback"
    /\ UNCHANGED <<cvars, bvars, connected, down, reply, failures, audit, kvars, delivered,
                   previously, rvars, fvars, hand, acked, rollbacks, dvars, hvars>>

\* commit() catches the exception and calls rollback().
CommitFails ==
    /\ apc = "commitFails"
    /\ Enter("rollback")
    /\ UNCHANGED <<rollbacks, hvars>>

\* The COMMIT or ROLLBACK is sent once there is a connection; the transaction
\* id is forgotten before.
SendEnd(pc, t, wait) ==
    /\ apc = pc
    /\ connected
    /\ apc' = wait
    /\ up' = Append(up, TxCommand(t))
    /\ tracked' = t
    /\ inTransaction' = FALSE
    /\ UNCHANGED <<cvars, bvars, connected, down, reply, failures, audit, kvars, lvars,
                   rvars, fvars, sync, hand, acked, rollbacks, dvars, hvars>>

SendCommit == SendEnd("sendCommit", "COMMIT", "awaitCommit")
SendRollback == SendEnd("sendRollback", "ROLLBACK", "awaitRollback")

\* afterCommit(): the consumer's commit(), if it is among the synchronizations.  If
\* not (CommitAgain), it keeps the messages as delivered although they are settled.
AfterCommit ==
    /\ apc = "awaitCommit" /\ reply = "ok"
    /\ apc' = "idle"
    /\ reply' = "none" /\ tracked' = "none" /\ sync' = FALSE
    /\ IF sync
         THEN delivered' = <<>> /\ previously' = [m \in Messages |-> "no"]
         ELSE UNCHANGED <<delivered, previously>>
    /\ done' = done \cup held /\ held' = {}
    /\ caught' = IF sync /\ held \cap caught = {} THEN caught ELSE caught \cup held
    /\ UNCHANGED <<cvars, bvars, connected, up, down, failures, audit, kvars, pendingAck,
                   deliveredCounter, rvars, fvars, inTransaction, hand, acked, rollbacks, dvars,
                   doubt, returned>>

\* The COMMIT has failed: syncRequest() throws an ActiveMQException.  That is no
\* cms::CMSException, so the handler that calls afterRollback() is passed over, and
\* the consumer keeps all it has.
CommitInDoubt ==
    /\ apc = "awaitCommit" /\ reply = "failed"
    /\ apc' = "idle"
    /\ reply' = "none" /\ tracked' = "none"
    /\ doubt' = doubt \cup (held \cap consumed) /\ returned' = returned \cup held
    /\ UNCHANGED <<cvars, bvars, connected, up, down, failures, audit, kvars, lvars, rvars, fvars,
                   inTransaction, sync, hand, acked, rollbacks, dvars, held, done, caught>>

\* afterRollback(): the consumer's rollback(), if it is among the synchronizations,
\* starts with clearDeliveredList().
AfterRollback ==
    /\ apc = "awaitRollback" /\ reply = "ok"
    /\ reply' = "none" /\ tracked' = "none"
    /\ IF sync
         THEN apc' = "rollbackConsumer" /\ ClearDeliveredList
         ELSE apc' = "idle" /\ UNCHANGED <<clearDelivered, delivered, pendingAck, previously>>
    /\ UNCHANGED <<cvars, bvars, connected, up, down, failures, audit, kvars, deliveredCounter,
                   rvars, clearRequired, inTransaction, sync, hand, acked, rollbacks, dvars,
                   hvars>>

\* recover() of a session that is not transacted.
Recover ==
    /\ apc = "idle" /\ mode \in {"client", "individual"} /\ held # {}
    /\ rollbacks < MaxRollbacks /\ rollbacks' = rollbacks + 1
    /\ Enter("rollbackConsumer")
    /\ UNCHANGED hvars

-----------------------------------------------------------------------------
(* rollback() of the consumer, under both locks *)

\* Mutant of Redeliver: nobody restarts the channel.
RedeliverStopped(ms) ==
    /\ redelivery' = [m \in Messages |-> redelivery[m] + IF m \in ToSet(ms) THEN 1 ELSE 0]
    /\ deliveredCounter' = deliveredCounter - Len(ms)
    /\ running' = FALSE
    /\ unconsumed' = ms \o unconsumed
    /\ UNCHANGED <<up, startTask>>

\* The newest delivered message decides for all: over the limit they all go to
\* the dead letter queue, else they are put back for a delayed redelivery.
Redeliver(ms) ==
    LET newest == Last(ms)
        n == redelivery[newest]
    IN
    /\ redelivery' = [m \in Messages |-> redelivery[m] + IF m \in ToSet(ms) THEN 1 ELSE 0]
    /\ deliveredCounter' = deliveredCounter - Len(ms)
    /\ IF n + 1 > maximumRedeliveries
         THEN /\ SendAck("POISON", Head(ms), newest)
              /\ running' = TRUE
              /\ UNCHANGED <<unconsumed, startTask>>
         ELSE /\ IF n > 0 THEN SendAck("REDELIVERED", Head(ms), newest) ELSE UNCHANGED up
              /\ running' = FALSE /\ startTask' = TRUE
              /\ unconsumed' = ms \o unconsumed

RollbackConsumer ==
    LET keep == {i \in 1..Len(delivered) :
                   \/ delivered[i] \notin NotReplayed
                   \/ \E j \in (i + 1)..Len(delivered) : delivered[j] = delivered[i]}
        ms == KeepAt(delivered, keep)
    IN
    /\ apc = "rollbackConsumer"
    /\ apc' = "idle"
    /\ audit' = audit \ ToSet(delivered)
    /\ delivered' = <<>>
    /\ previously' = [m \in Messages |-> "no"]
    /\ IF ms # <<>> THEN Redeliver(ms)
       ELSE UNCHANGED <<redelivery, deliveredCounter, up, kvars>>
    /\ sync' = FALSE
    /\ held' = {}
    /\ UNCHANGED <<cvars, bvars, connected, down, reply, tracked, failures, pendingAck, stamp,
                   fvars, inTransaction, hand, acked, rollbacks, dvars, done, doubt, returned,
                   caught>>

-----------------------------------------------------------------------------
Receive ==
    \/ SendPullRequest \/ Dequeue \/ ReceiveNothing \/ BeforeMessageIsConsumed
    \/ ReceiveTransacted \/ ReceiveAuto \/ ReceiveManual

Settle ==
    \/ Acknowledge \/ AcknowledgeSection \/ Commit
    \/ BeforeEnd \/ CommitFails \/ SendCommit \/ SendRollback
    \/ AfterCommit \/ CommitInDoubt \/ AfterRollback \/ RollbackConsumer
    \/ RemoveAcknowledged \/ \E m \in Messages : AcknowledgeOne(m)

\* What the application may do and need not.
Undo == Rollback \/ Recover \/ CommitAgain

DispatchStep == DispatchTake \/ DispatchClear \/ DispatchEnqueue
Scheduler == ClearConsumerTask \/ StartConsumerTask
Broker == BrokerProcess \/ BrokerDispatch

Next ==
    \/ Receive \/ Settle \/ Undo
    \/ DispatchStep \/ Scheduler \/ Broker
    \/ TransportInterrupted \/ Restore

Spec == Init /\ [][Next]_vars

\* Every thread goes on, the broker works, a lost connection is restored.  The
\* application keeps calling receive() and, time and again between two calls, settles
\* what it has received; it need not roll back, nor retry a commit() that failed.
Fairness ==
    /\ SF_vars(Receive) /\ SF_vars(Settle)
    /\ WF_vars(DispatchStep) /\ WF_vars(Scheduler)
    /\ WF_vars(Broker) /\ WF_vars(Restore)

FairSpec == Spec /\ Fairness

-----------------------------------------------------------------------------
(* Properties *)

Commands == [type : {"DELIVERED", "REDELIVERED", "CONSUMED", "INDIVIDUAL", "POISON", "BEGIN",
                     "COMMIT", "ROLLBACK"},
             first : 0..MaxMessages, last : 0..MaxMessages]

\* Every variable holds what its field can hold; ackLater() keeps the counter
\* of unannounced deliveries below half the prefetch.
TypeOK ==
    /\ mode \in Modes /\ maximumRedeliveries \in RedeliveryLimits
    /\ queue \subseteq Messages /\ known \subseteq Messages /\ brokerTx \subseteq Messages
    /\ consumed \subseteq Messages /\ dlq \subseteq Messages /\ audit \subseteq Messages
    /\ held \subseteq Messages /\ done \subseteq Messages
    /\ doubt \subseteq Messages /\ returned \subseteq Messages /\ caught \subseteq Messages
    /\ inflight \in Seq(Messages) /\ down \in Seq(Messages)
    /\ unconsumed \in Seq(Messages) /\ delivered \in Seq(Messages)
    /\ up \in Seq(Commands)
    /\ brokerOpen \in BOOLEAN /\ connected \in BOOLEAN /\ running \in BOOLEAN
    /\ startTask \in BOOLEAN /\ inTransaction \in BOOLEAN /\ sync \in BOOLEAN
    /\ clearRequired \in BOOLEAN /\ clearDelivered \in BOOLEAN
    /\ attempts \in [Messages -> Nat] /\ redelivery \in [Messages -> Nat]
    /\ stamp \in [Messages -> Nat]
    /\ reply \in {"none", "ok", "failed"} /\ tracked \in {"none", "BEGIN", "COMMIT", "ROLLBACK"}
    /\ pendingAck \in Commands \cup {None}
    /\ deliveredCounter \in Int /\ 2 * deliveredCounter < Prefetch
    /\ previously \in [Messages -> {"no", "pending", "back"}]
    /\ apc \in {"idle", "dequeue", "refused", "before", "after", "remove", "acknowledge",
                "commit", "commitFails", "sendCommit", "awaitCommit", "rollback",
                "sendRollback", "awaitRollback", "rollbackConsumer"}
    /\ dpc \in {"idle", "clear", "enqueue"}
    /\ hand \in 0..MaxMessages /\ acked \in 0..MaxMessages
    /\ dhand \in 0..MaxMessages /\ dstamp \in Nat

\* The broker takes a message off the queue as consumed only when the
\* application has acknowledged it, or its commit() is under way or has consumed it
\* and lost the answer.  An acknowledgement is a range: the one of a transaction, or
\* of a client-acknowledge session, that reaches to a message an interruption caught
\* half way, or a commit() left with the consumer, may cover messages nobody has
\* received.  (That a commit() may be for messages an earlier one had reported as
\* rolled back is what RolledBackIsNotConsumed denies.)
ConsumedIsSettled ==
    \/ consumed \subseteq done \cup doubt \cup (IF apc = "awaitCommit" THEN held ELSE {})
    \/ mode \in {"client", "transacted"} /\ consumed \cap caught # {}

\* A message the application has acknowledged, or received in a transaction
\* that committed, is not given to it again, although the connection was lost
\* and the broker dispatches it again: the audit recognises it.  Not so the messages
\* of a commit() that was retried after a failure: it leaves them in
\* deliveredMessages, and the rollback() of a later transaction puts them back in the
\* channel.
NotGivenAgain == hand \notin done \ caught

\* When commit() returns normally the broker has consumed every message that was
\* received in the transaction (cms/Session.h says of commit() that it commits
\* all messages done in this transaction).
CommitConsumes == Transacted => done \subseteq consumed

\* What remains of it: the messages were consumed, or were half way when a
\* connection was lost, or with messages that a retried commit() left with the
\* consumer; or an ack, which is a range, has reached to such a message and covered
\* others: the broker then misses an end of the range that a later transaction
\* names, and consumes nothing of it.
CommitConsumesUnlessCaught ==
    Transacted => \/ done \subseteq consumed \cup caught
                  \/ (consumed \cup dlq) \cap caught # {}

\* A redelivery limit that dequeue() or rollback() applies: the message came with
\* too high a counter, or this very rollback has counted it over the limit.
LimitPassed(m) ==
    \/ stamp[m] > maximumRedeliveries
    \/ redelivery[m] < redelivery'[m] /\ redelivery'[m] > maximumRedeliveries

SendsPoison == up' # <<>> /\ up' = Append(up, Last(up')) /\ Last(up').type = "POISON"

\* dispatch(), dequeue() and rollback() send a poison ack only for one message the
\* application is done with, or when a redelivery limit is passed: a duplicate that
\* an open transaction waits for, or a message the application still has, is never
\* taken for poison.  (What an interruption caught half way may be.)
PoisonIsJustified ==
    [][SendsPoison => LET c == Last(up')
                      IN \/ c.first = c.last /\ c.last \in done \cup caught
                         \/ LimitPassed(c.last)]_vars

\* Every message is consumed or dead in the end, unless an interruption caught
\* one half way: no message is left with a consumer whose channel stays stopped,
\* or with a broker whose window is full.  Except the messages of a commit() that
\* failed: the broker dispatches them again, dispatch() only marks them as come
\* back, and the application does not receive them unless a later transaction of its
\* own is rolled back.
EventuallySettled == <>[](Messages = consumed \cup dlq \cup returned \/ caught # {})

\* When commit() throws cms::TransactionRolledBackException the messages of the
\* transaction are rolled back: the broker does not consume one of them before the
\* application has received it again ("a call to Session.commit results in a rollback
\* of the current transaction", cms/TransactionRolledBackException.h).
RolledBackIsNotConsumed == [][(consumed' \ consumed) \cap returned = {}]_vars
=============================================================================
